------------------------------ MODULE CondExpr ------------------------------
(***************************************************************************)
(* Boolean expressions of conditional policy (conditional.c): a            *)
(* cond_expr_t list is a sequence of tokens in reverse polish notation, a  *)
(* token is a boolean or one of the operators below.  The module gives     *)
(* their evaluation on the bounded stack, normalisation, the comparison    *)
(* that decides whether two conditionals share one cond_node_t, and the    *)
(* well-formedness test of policydb_validate.                              *)
(*                                                                         *)
(* A boolean is named by its position-independent identity: the boolmap    *)
(* of an expansion only renumbers booleans and is the identity here.       *)
(***************************************************************************)
EXTENDS Integers, Sequences, FiniteSets, SequencesExt

CONSTANTS Bools,      \* the booleans of the policy
          MaxDepth,   \* COND_EXPR_MAXDEPTH, slots of the evaluation stack
          MaxBools    \* COND_MAX_BOOLS, booleans recorded per conditional

ASSUME DepthAssumption == MaxDepth \in Nat \ {0}
ASSUME BoolsAssumption == MaxBools \in Nat

Binary == {"OR", "AND", "XOR", "EQ", "NEQ"}
Operators == Binary \cup {"NOT"}
Tokens == Bools \cup Operators
Expr == Seq(Tokens)

ASSUME TokensAssumption == Bools \cap Operators = {}

Undefined == -1
States == {0, 1}
Assignments == [Bools -> States]

-----------------------------------------------------------------------------
(***************************************************************************)
(* cond_evaluate_expr.  The stack is the sequence s[0..sp]; an operator    *)
(* without operands, or a boolean on a full stack, makes the result        *)
(* undefined.                                                              *)
(***************************************************************************)
Bit(p) == IF p THEN 1 ELSE 0

Apply(op, x, y) ==
    CASE op = "OR"  -> Bit(x = 1 \/ y = 1)
      [] op = "AND" -> Bit(x = 1 /\ y = 1)
      [] op = "XOR" -> Bit(x # y)
      [] op = "EQ"  -> Bit(x = y)
      [] op = "NEQ" -> Bit(x # y)

\* Mutant: the stack test is off by one.
Pushes_OneShort(stack) == Len(stack) < MaxDepth - 1

Pushes(stack) == Len(stack) < MaxDepth
Replace(stack, n, x) == SubSeq(stack, 1, Len(stack) - n) \o <<x>>

EvalToken(val, m, tok) ==
    LET n == Len(m.stack) IN
    IF ~m.ok THEN m ELSE
    CASE tok \in Bools ->
            IF Pushes(m.stack) THEN [m EXCEPT !.stack = Append(@, val[tok])]
                               ELSE [m EXCEPT !.ok = FALSE]
      [] tok = "NOT" ->
            IF n >= 1 THEN [m EXCEPT !.stack = Replace(@, 1, 1 - @[n])]
                      ELSE [m EXCEPT !.ok = FALSE]
      [] tok \in Binary ->
            IF n >= 2 THEN [m EXCEPT !.stack = Replace(@, 2, Apply(tok, @[n-1], @[n]))]
                      ELSE [m EXCEPT !.ok = FALSE]

\* The stack after each token.
Evaluation(val, expr) ==
    LET m[i \in 0 .. Len(expr)] == IF i = 0 THEN [ok |-> TRUE, stack |-> <<>>]
                                   ELSE EvalToken(val, m[i - 1], expr[i])
    IN m

cond_evaluate_expr(val, expr) ==
    LET m == Evaluation(val, expr)[Len(expr)]
    IN IF m.ok /\ m.stack # <<>> THEN Bit(m.stack[1] = 1) ELSE Undefined

-----------------------------------------------------------------------------
(***************************************************************************)
(* cond_normalize_expr.  One trailing NOT is dropped (the caller exchanges *)
(* its rule lists when Negated holds), the booleans are recorded in the    *)
(* order of their first occurrence, and, when there are at most MaxBools   *)
(* of them, the truth table is computed: bit `test' of expr_pre_comp is    *)
(* the member of pre_comp holding the positions whose bit is set in `test'.*)
(***************************************************************************)
Negated(expr) == expr[Len(expr)] = "NOT"
\* Mutant: the trailing NOT is not unlinked.
StripNot_NotUnlinked(expr) == expr

StripNot(expr) == IF Negated(expr) THEN SubSeq(expr, 1, Len(expr) - 1) ELSE expr

\* bool_present finds nothing once more than MaxBools booleans were counted, so
\* from there on every occurrence is counted and none is recorded.
RecordBool(r, tok) ==
    IF tok \notin Bools THEN r ELSE
    CASE r.n <= MaxBools /\ tok \in ToSet(r.ids) -> r
      [] r.n < MaxBools /\ tok \notin ToSet(r.ids) ->
            [ids |-> Append(r.ids, tok), n |-> r.n + 1]
      [] OTHER -> [r EXCEPT !.n = @ + 1]

\* What is recorded after each token.
FoundBools(expr) ==
    LET r[i \in 0 .. Len(expr)] == IF i = 0 THEN [ids |-> <<>>, n |-> 0]
                                   ELSE RecordBool(r[i - 1], expr[i])
    IN r
bool_ids(expr) == FoundBools(expr)[Len(expr)].ids
nbools(expr) == FoundBools(expr)[Len(expr)].n

TestAssignment(ids, test) ==
    [b \in Bools |-> Bit(\E j \in test : ids[j] = b)]

pre_comp(expr) ==
    LET ids == bool_ids(expr)
    IN {test \in SUBSET DOMAIN ids :
            cond_evaluate_expr(TestAssignment(ids, test), expr) # 0}

\* The return value of cond_normalize_expr for the stripped expression.
NormalizeSucceeds(expr) ==
    LET e   == StripNot(expr)
        ids == bool_ids(e)
    IN /\ e # <<>>
       /\ nbools(e) <= MaxBools =>
            \A test \in SUBSET DOMAIN ids :
                cond_evaluate_expr(TestAssignment(ids, test), e) # Undefined

-----------------------------------------------------------------------------
(***************************************************************************)
(* cond_expr_equal on two normalised expressions.  The recorded booleans   *)
(* are compared as sets (same_bools), the truth tables position by         *)
(* position; expressions with more than MaxBools booleans must be the same *)
(* tokens.                                                                 *)
(***************************************************************************)
same_bools(a, b) == /\ nbools(a) = nbools(b)
                    /\ ToSet(bool_ids(a)) \subseteq ToSet(bool_ids(b))

\* Mutant: the truth tables are trusted whatever the number of booleans.
cond_expr_equal_AlwaysTable(a, b) == same_bools(a, b) /\ pre_comp(a) = pre_comp(b)

cond_expr_equal(a, b) ==
    /\ nbools(a) = nbools(b)
    /\ IF nbools(a) <= MaxBools
       THEN same_bools(a, b) /\ pre_comp(a) = pre_comp(b)
       ELSE a = b

-----------------------------------------------------------------------------
(***************************************************************************)
(* validate_cond_expr: every prefix keeps the operands its operator needs, *)
(* the stack never overflows, and one value is left at the end.            *)
(***************************************************************************)
Bad == -2

ValidateToken(depth, tok) ==
    IF depth = Bad THEN Bad ELSE
    CASE tok \in Bools  -> IF depth >= MaxDepth - 1 THEN Bad ELSE depth + 1
      [] tok = "NOT"    -> IF depth < 0 THEN Bad ELSE depth
      [] tok \in Binary -> IF depth < 1 THEN Bad ELSE depth - 1

\* The depth after each token.
Depths(expr) ==
    LET d[i \in 0 .. Len(expr)] == IF i = 0 THEN -1 ELSE ValidateToken(d[i - 1], expr[i])
    IN d

validate_cond_expr(expr) == expr # <<>> /\ Depths(expr)[Len(expr)] = 0

\* Two expressions have the same value for every assignment of the booleans.
Equivalent(a, b) ==
    \A val \in Assignments : cond_evaluate_expr(val, a) = cond_evaluate_expr(val, b)
=============================================================================
