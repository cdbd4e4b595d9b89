----------------------------- MODULE MCCondExpr -----------------------------
(***************************************************************************)
(* Enumerates pairs of conditional expressions, token by token, and checks *)
(* the algorithms of CondExpr on every pair.  Prefixes that                *)
(* validate_cond_expr already rejects are kept but not extended.           *)
(***************************************************************************)
EXTENDS CondExpr

CONSTANTS MaxLeft, MaxRight  \* bounds: tokens of the two expressions

VARIABLES left, right

Extend(e) == {Append(e, tok) : tok \in Tokens}
Extendable(e, max) == Len(e) < max /\ Depths(e)[Len(e)] # Bad

ExtendLeft == /\ Extendable(left, MaxLeft) /\ right = <<>>
              /\ left' \in Extend(left) /\ UNCHANGED right
ExtendRight == /\ validate_cond_expr(left) /\ Extendable(right, MaxRight)
               /\ right' \in Extend(right) /\ UNCHANGED left

\* A long expression against itself with another operator in one place.
ChangeOperator == /\ validate_cond_expr(left) /\ Len(left) > MaxRight /\ right = <<>>
                  /\ \E i \in DOMAIN left, tok \in Binary :
                        left[i] \in Binary /\ right' = [left EXCEPT ![i] = tok]
                  /\ UNCHANGED left

Init == left = <<>> /\ right = <<>>
Next == ExtendLeft \/ ExtendRight \/ ChangeOperator
Spec == Init /\ [][Next]_<<left, right>>

Shown == validate_cond_expr(left) /\ validate_cond_expr(right)

\* What validate_cond_expr accepts has a value under every assignment and can be
\* normalised: the stack bound of the validator is the one of the evaluator, so
\* the "undefined" results and the "should never happen" errors do not occur.
ValidIsDefined ==
    validate_cond_expr(left) =>
        /\ \A val \in Assignments : cond_evaluate_expr(val, left) \in States
        /\ NormalizeSucceeds(left)

\* Dropping the trailing NOT and exchanging the lists keeps the meaning of a
\* conditional: the stripped expression is valid again and has the opposite value.
NormalizeKeepsMeaning ==
    validate_cond_expr(left) =>
        /\ validate_cond_expr(StripNot(left))
        /\ \A val \in Assignments :
              LET v == cond_evaluate_expr(val, StripNot(left))
              IN cond_evaluate_expr(val, left) = IF Negated(left) THEN 1 - v ELSE v

\* On expressions that name their booleans in the same order, cond_expr_equal
\* decides equivalence exactly up to MaxBools booleans; beyond, only identical
\* expressions are equal.
EqualInOrderIsExact ==
    (Shown /\ bool_ids(left) = bool_ids(right)) =>
        /\ cond_expr_equal(left, right) => Equivalent(left, right)
        /\ (nbools(left) <= MaxBools /\ nbools(right) <= MaxBools /\ Equivalent(left, right))
              => cond_expr_equal(left, right)

\* conditional.c: "Determine if two conditional expressions are equal."
EqualIsEquivalent ==
    Shown /\ cond_expr_equal(left, right) => Equivalent(left, right)
=============================================================================
