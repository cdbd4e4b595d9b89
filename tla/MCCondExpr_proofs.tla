-------------------------- MODULE MCCondExpr_proofs --------------------------
(***************************************************************************)
(* What the run over pairs of expressions checks up to a bound holds of    *)
(* every pair, whatever the bounds, the booleans, the depth of the stack   *)
(* and the number of booleans recorded.                                    *)
(***************************************************************************)
EXTENDS MCCondExpr, CondExpr_proofs

Pair == left \in Expr /\ right \in Expr

LEMMA PairInit == Init => Pair
BY DEF Init, Pair, Expr

LEMMA PairStep == Pair /\ [Next]_<<left, right>> => Pair'
<1> SUFFICES ASSUME Pair, [Next]_<<left, right>> PROVE Pair'
  OBVIOUS
<1>1. \A e \in Expr : Extend(e) \subseteq Expr
  BY DEF Extend, Expr
<1>2. CASE ExtendLeft \/ ExtendRight
  BY <1>1, <1>2 DEF ExtendLeft, ExtendRight, Pair
<1>3. CASE ChangeOperator
  <2>1. PICK i \in DOMAIN left, tok \in Binary : right' = [left EXCEPT ![i] = tok]
    BY <1>3 DEF ChangeOperator
  <2>2. tok \in Tokens /\ left \in Seq(Tokens) /\ left' = left
    BY <1>3 DEF ChangeOperator, Tokens, Operators, Pair, Expr
  <2>3. right' \in Seq(Tokens)
    BY <2>1, <2>2
  <2> QED
    BY <2>2, <2>3 DEF Pair, Expr
<1>4. CASE UNCHANGED <<left, right>>
  BY <1>4 DEF Pair
<1> QED
  BY <1>2, <1>3, <1>4 DEF Next

(* What validate_cond_expr accepts has a value under every assignment and can
   be normalised (cond_evaluate_expr, cond_normalize_expr). *)
THEOREM ValidDefined == Spec => []ValidIsDefined
<1>1. Pair => ValidIsDefined
  BY ValidExpressionsEvaluate DEF Pair, ValidIsDefined
<1> QED
  BY <1>1, PairInit, PairStep, PTL DEF Spec

(* The normalised expression is valid and, with the lists exchanged, means the
   same (cond_normalize_expr). *)
THEOREM NormalizationSound == Spec => []NormalizeKeepsMeaning
<1>1. Pair => NormalizeKeepsMeaning
  BY StrippingKeepsMeaning DEF Pair, NormalizeKeepsMeaning
<1> QED
  BY <1>1, PairInit, PairStep, PTL DEF Spec

(* With the booleans named in the same order cond_expr_equal is equivalence,
   exactly so up to MaxBools booleans. *)
THEOREM EqualInOrderExact == Spec => []EqualInOrderIsExact
<1>1. Pair => EqualInOrderIsExact
  BY EqualDecidesEquivalence DEF Pair, EqualInOrderIsExact, Shown
<1> QED
  BY <1>1, PairInit, PairStep, PTL DEF Spec
=============================================================================
