--------------------------- MODULE CondExpr_proofs ---------------------------
(***************************************************************************)
(* What conditional.c and policydb_validate.c compute for every expression *)
(* over any booleans and for any sizes of the stack and of the record of   *)
(* booleans.  The loops over the tokens are recursive functions of the     *)
(* number of tokens read; induction over that number is done on the set of *)
(* numbers for which a statement holds (Induct of Induction).              *)
(***************************************************************************)
EXTENDS CondExpr, Induction, SequenceTheorems

-----------------------------------------------------------------------------
(***************************************************************************)
(* The evaluation stack.                                                   *)
(***************************************************************************)
Machine == [ok : BOOLEAN, stack : Seq(States)]

LEMMA ApplyType == ASSUME NEW op \in Binary, NEW x, NEW y PROVE Apply(op, x, y) \in States
BY DEF Apply, Binary, Bit, States

\* The three kinds of token exclude each other.
LEMMA TokenKinds ==
  ASSUME NEW tok \in Tokens
  PROVE  \/ tok \in Bools /\ tok # "NOT" /\ tok \notin Binary
         \/ tok \notin Bools /\ tok = "NOT" /\ tok \notin Binary
         \/ tok \notin Bools /\ tok # "NOT" /\ tok \in Binary
BY TokensAssumption DEF Tokens, Operators, Binary

\* Replacing the top n values by one.
LEMMA ReplaceType ==
  ASSUME NEW stack \in Seq(States), NEW n \in 1 .. Len(stack), NEW x \in States
  PROVE  /\ Replace(stack, n, x) \in Seq(States)
         /\ Len(Replace(stack, n, x)) = Len(stack) - n + 1
         /\ Len(stack) = n => Replace(stack, n, x) = <<x>>
<1> DEFINE rest == SubSeq(stack, 1, Len(stack) - n)
<1>1. rest \in Seq(States) /\ Len(rest) = Len(stack) - n
  OBVIOUS
<1>2. Len(stack) = n => rest = <<>>
  BY <1>1
<1> HIDE DEF rest
<1>3. <<x>> \in Seq(States) /\ Len(<<x>>) = 1
  OBVIOUS
<1>4. Replace(stack, n, x) = rest \o <<x>>
  BY DEF Replace, rest
<1>5. rest \o <<x>> \in Seq(States) /\ Len(rest \o <<x>>) = Len(rest) + 1
  BY <1>1, <1>3, ConcatProperties
<1>6. rest = <<>> => rest \o <<x>> = <<x>>
  BY <1>3, ConcatEmptySeq
<1> QED
  BY <1>1, <1>2, <1>4, <1>5, <1>6

\* One token: what it needs, and what it does to the height of the stack.
LEMMA EvalTokenStep ==
  ASSUME NEW val \in Assignments, NEW m \in Machine, NEW tok \in Tokens
  PROVE  /\ EvalToken(val, m, tok) \in Machine
         /\ ~m.ok => ~EvalToken(val, m, tok).ok
         /\ m.ok /\ tok \in Bools /\ Len(m.stack) < MaxDepth =>
               /\ EvalToken(val, m, tok).ok
               /\ Len(EvalToken(val, m, tok).stack) = Len(m.stack) + 1
         /\ m.ok /\ tok = "NOT" /\ Len(m.stack) >= 1 =>
               /\ EvalToken(val, m, tok).ok
               /\ Len(EvalToken(val, m, tok).stack) = Len(m.stack)
               /\ Len(m.stack) = 1 => EvalToken(val, m, tok).stack = <<1 - m.stack[1]>>
         /\ m.ok /\ tok \in Binary /\ Len(m.stack) >= 2 =>
               /\ EvalToken(val, m, tok).ok
               /\ Len(EvalToken(val, m, tok).stack) = Len(m.stack) - 1
<1> DEFINE r == EvalToken(val, m, tok)
           st == m.stack
           n == Len(st)
<1>1. st \in Seq(States) /\ n \in Nat /\ m.ok \in BOOLEAN /\ m = [ok |-> m.ok, stack |-> st]
  BY DEF Machine
<1>2. CASE ~m.ok
  BY <1>2 DEF EvalToken
<1>3. CASE m.ok /\ tok \in Bools
  <2>1. r = IF n < MaxDepth THEN [m EXCEPT !.stack = Append(st, val[tok])] ELSE [m EXCEPT !.ok = FALSE]
    BY <1>3, TokenKinds DEF EvalToken, Pushes
  <2>2. val[tok] \in States
    BY <1>3 DEF Assignments
  <2>3. Append(st, val[tok]) \in Seq(States) /\ Len(Append(st, val[tok])) = n + 1
    BY <1>1, <2>2
  <2> QED
    BY <1>1, <1>3, <2>1, <2>3, TokenKinds DEF Machine
<1>4. CASE m.ok /\ tok = "NOT"
  <2>1. r = IF n >= 1 THEN [m EXCEPT !.stack = Replace(st, 1, 1 - st[n])] ELSE [m EXCEPT !.ok = FALSE]
    BY <1>4, TokenKinds DEF EvalToken
  <2>2. CASE n >= 1
    <3>1. 1 - st[n] \in States
      BY <1>1, <2>2 DEF States
    <3> DEFINE w == Replace(st, 1, 1 - st[n])
    <3>2. w \in Seq(States) /\ Len(w) = n /\ (n = 1 => w = <<1 - st[1]>>)
      <4> DEFINE x == 1 - st[n]
      <4>1. x \in States /\ 1 \in 1 .. Len(st)
        BY <1>1, <2>2, <3>1
      <4>2. n = 1 => x = 1 - st[1]
        OBVIOUS
      <4> HIDE DEF x
      <4>3. /\ Replace(st, 1, x) \in Seq(States)
            /\ Len(Replace(st, 1, x)) = Len(st) - 1 + 1
            /\ Len(st) = 1 => Replace(st, 1, x) = <<x>>
        BY <1>1, <4>1, ReplaceType
      <4> QED
        BY <1>1, <4>2, <4>3 DEF x
    <3> HIDE DEF w
    <3>3. r = [ok |-> TRUE, stack |-> w]
      BY <1>1, <1>4, <2>1, <2>2 DEF w
    <3>4. r \in Machine /\ r.ok /\ r.stack = w
      BY <3>2, <3>3 DEF Machine
    <3>5. tok \notin Bools /\ tok \notin Binary
      BY <1>4, TokenKinds
    <3> QED
      BY <1>4, <3>2, <3>4, <3>5
  <2>3. CASE ~(n >= 1)
    BY <1>1, <1>4, <2>1, <2>3, TokenKinds DEF Machine
  <2> QED
    BY <2>2, <2>3
<1>5. CASE m.ok /\ tok \in Binary
  <2>1. r = IF n >= 2 THEN [m EXCEPT !.stack = Replace(st, 2, Apply(tok, st[n - 1], st[n]))]
            ELSE [m EXCEPT !.ok = FALSE]
    BY <1>5, TokenKinds DEF EvalToken
  <2>2. CASE n >= 2
    <3> DEFINE w == Replace(st, 2, Apply(tok, st[n - 1], st[n]))
    <3>1. w \in Seq(States) /\ Len(w) = n - 1
      BY <1>1, <1>5, <2>2, ApplyType, ReplaceType
    <3> HIDE DEF w
    <3>2. r = [ok |-> TRUE, stack |-> w]
      BY <1>1, <1>5, <2>1, <2>2 DEF w
    <3> QED
      BY <1>5, <3>1, <3>2, TokenKinds DEF Machine
  <2>3. CASE ~(n >= 2)
    BY <1>1, <1>5, <2>1, <2>3, TokenKinds DEF Machine
  <2> QED
    BY <2>2, <2>3
<1> QED
  BY <1>1, <1>2, <1>3, <1>4, <1>5, TokenKinds

\* The evaluation is the sequence of stacks it is meant to be.
LEMMA EvaluationIs ==
  ASSUME NEW val \in Assignments, NEW e \in Expr
  PROVE  /\ Evaluation(val, e) \in [0 .. Len(e) -> Machine]
         /\ Evaluation(val, e)[0] = [ok |-> TRUE, stack |-> <<>>]
         /\ \A i \in 1 .. Len(e) : Evaluation(val, e)[i] = EvalToken(val, Evaluation(val, e)[i - 1], e[i])
<1> DEFINE c == [ok |-> TRUE, stack |-> <<>>]
           n == Len(e)
           P(f) == f = [i \in 0 .. n |-> IF i = 0 THEN c ELSE EvalToken(val, f[i - 1], e[i])]
           s == [p \in (1 .. n) \X Machine |-> EvalToken(val, p[2], e[p[1]])]
<1>1. n \in Nat /\ c \in Machine /\ \A i \in 1 .. n : e[i] \in Tokens
  BY DEF Expr, Machine
<1>2. s \in [(1 .. n) \X Machine -> Machine]
  BY <1>1, EvalTokenStep
<1>3. PICK f \in [0 .. n -> Machine] : f[0] = c /\ \A i \in 1 .. n : f[i] = s[<<i, f[i - 1]>>]
  <2>1. s \in Steps(n, Machine)
    BY <1>2 DEF Steps
  <2> HIDE DEF s, c, n, P
  <2>2. \E f : Follows(f, n, Machine, c, s)
    BY <1>1, <2>1, Iterates
  <2> QED
    BY <2>2 DEF Follows
<1>4. \A i \in 1 .. n : f[i - 1] \in Machine
  BY <1>1, <1>3
<1>5. \A i \in 1 .. n : f[i] = EvalToken(val, f[i - 1], e[i])
  BY <1>3, <1>4
<1>6. P(f)
  BY <1>1, <1>3, <1>5
<1>7. Evaluation(val, e) = CHOOSE g : P(g)
  BY DEF Evaluation
<1>8. P(Evaluation(val, e))
  <2> HIDE DEF P
  <2> QED
    BY <1>6, <1>7
<1> DEFINE g == Evaluation(val, e)
<1>9. /\ DOMAIN g = 0 .. n /\ g[0] = c
      /\ \A i \in 1 .. n : g[i] = EvalToken(val, g[i - 1], e[i])
  <2> HIDE DEF g
  <2>1. P(g)
    BY <1>8 DEF g
  <2>2. DOMAIN g = 0 .. n
    BY <2>1, Zenon
  <2>3. ASSUME NEW i \in 0 .. n
        PROVE  g[i] = IF i = 0 THEN c ELSE EvalToken(val, g[i - 1], e[i])
    BY <2>1, Zenon
  <2>4. g[0] = c
    BY <1>1, <2>3
  <2>5. \A i \in 1 .. n : i \in 0 .. n /\ i # 0
    BY <1>1
  <2> HIDE DEF P, c, n
  <2> QED
    BY <2>2, <2>3, <2>4, <2>5
<1> DEFINE S == {i \in 0 .. n : g[i] \in Machine}
<1>10. 0 \in S /\ \A i \in 1 .. n : i - 1 \in S => i \in S
  <2>1. 0 \in S
    <3> HIDE DEF g, c
    <3> QED
      BY <1>1, <1>9
  <2>2. ASSUME NEW i \in 1 .. n, i - 1 \in S PROVE i \in S
    <3>1. g[i] = EvalToken(val, g[i - 1], e[i]) /\ g[i - 1] \in Machine /\ e[i] \in Tokens
      BY <1>1, <1>9, <2>2
    <3>2. i \in 0 .. n
      BY <1>1
    <3> HIDE DEF g
    <3> QED
      BY <3>1, <3>2, EvalTokenStep
  <2> QED
    BY <2>1, <2>2
<1>11. S = 0 .. n
  <2>1. S \in SUBSET (0 .. n)
    OBVIOUS
  <2> HIDE DEF S
  <2> QED
    BY <1>1, <1>10, <2>1, Induct
<1>12. g = [i \in 0 .. n |-> g[i]]
  BY <1>8, Zenon
<1>13. \A i \in 0 .. n : g[i] \in Machine
  BY <1>11
<1> HIDE DEF g, c, n, P, S
<1>14. g \in [0 .. n -> Machine]
  BY <1>12, <1>13
<1> QED
  BY <1>9, <1>14 DEF g, c, n

-----------------------------------------------------------------------------
(***************************************************************************)
(* The depth that validate_cond_expr follows.                              *)
(***************************************************************************)
Depth == {Bad, -1} \cup Nat

\* One token of the validator.
LEMMA ValidateTokenStep ==
  ASSUME NEW d \in Depth, NEW tok \in Tokens
  PROVE  /\ ValidateToken(d, tok) \in Depth
         /\ ValidateToken(d, tok) # Bad =>
              /\ d # Bad
              /\ tok \in Bools => d < MaxDepth - 1 /\ ValidateToken(d, tok) = d + 1
              /\ tok = "NOT" => d >= 0 /\ ValidateToken(d, tok) = d
              /\ tok \in Binary => d >= 1 /\ ValidateToken(d, tok) = d - 1
<1>1. CASE d = Bad
  BY <1>1 DEF ValidateToken, Depth
<1>2. CASE d # Bad /\ tok \in Bools
  <2>1. ValidateToken(d, tok) = IF d >= MaxDepth - 1 THEN Bad ELSE d + 1
    BY <1>2, TokenKinds DEF ValidateToken
  <2> QED
    BY <1>2, <2>1, TokenKinds, DepthAssumption DEF Depth, Bad
<1>3. CASE d # Bad /\ tok = "NOT"
  <2>1. ValidateToken(d, tok) = IF d < 0 THEN Bad ELSE d
    BY <1>3, TokenKinds DEF ValidateToken
  <2> QED
    BY <1>3, <2>1, TokenKinds DEF Depth, Bad
<1>4. CASE d # Bad /\ tok \in Binary
  <2>1. ValidateToken(d, tok) = IF d < 1 THEN Bad ELSE d - 1
    BY <1>4, TokenKinds DEF ValidateToken
  <2> QED
    BY <1>4, <2>1, TokenKinds DEF Depth, Bad
<1> QED
  BY <1>1, <1>2, <1>3, <1>4, TokenKinds

\* The validation is the sequence of depths it is meant to be.
LEMMA DepthsIs ==
  ASSUME NEW e \in Expr
  PROVE  /\ Depths(e) \in [0 .. Len(e) -> Depth]
         /\ Depths(e)[0] = -1
         /\ \A i \in 1 .. Len(e) : Depths(e)[i] = ValidateToken(Depths(e)[i - 1], e[i])
<1> DEFINE n == Len(e)
           c == -1
           P(f) == f = [i \in 0 .. n |-> IF i = 0 THEN c ELSE ValidateToken(f[i - 1], e[i])]
           s == [p \in (1 .. n) \X Depth |-> ValidateToken(p[2], e[p[1]])]
<1>1. n \in Nat /\ c \in Depth /\ \A i \in 1 .. n : e[i] \in Tokens
  BY DEF Expr, Depth
<1>2. s \in [(1 .. n) \X Depth -> Depth]
  BY <1>1, ValidateTokenStep
<1>3. PICK f \in [0 .. n -> Depth] : f[0] = c /\ \A i \in 1 .. n : f[i] = s[<<i, f[i - 1]>>]
  <2>1. s \in Steps(n, Depth)
    BY <1>2 DEF Steps
  <2> HIDE DEF s, c, n, P
  <2>2. \E f : Follows(f, n, Depth, c, s)
    BY <1>1, <2>1, Iterates
  <2> QED
    BY <2>2 DEF Follows
<1>4. \A i \in 1 .. n : f[i - 1] \in Depth
  BY <1>1, <1>3
<1>5. \A i \in 1 .. n : f[i] = ValidateToken(f[i - 1], e[i])
  BY <1>3, <1>4
<1>6. P(f)
  BY <1>1, <1>3, <1>5
<1>7. Depths(e) = CHOOSE g : P(g)
  BY DEF Depths
<1> DEFINE g == Depths(e)
<1>8. P(g)
  <2> HIDE DEF P
  <2> QED
    BY <1>6, <1>7
<1>9. /\ DOMAIN g = 0 .. n /\ g[0] = c
      /\ \A i \in 1 .. n : g[i] = ValidateToken(g[i - 1], e[i])
  <2> HIDE DEF g
  <2>2. DOMAIN g = 0 .. n
    BY <1>8, Zenon
  <2>3. ASSUME NEW i \in 0 .. n
        PROVE  g[i] = IF i = 0 THEN c ELSE ValidateToken(g[i - 1], e[i])
    BY <1>8, Zenon
  <2>4. g[0] = c
    BY <1>1, <2>3
  <2>5. \A i \in 1 .. n : i \in 0 .. n /\ i # 0
    BY <1>1
  <2> HIDE DEF P, c, n
  <2> QED
    BY <2>2, <2>3, <2>4, <2>5
<1> DEFINE S == {i \in 0 .. n : g[i] \in Depth}
<1>10. 0 \in S /\ \A i \in 1 .. n : i - 1 \in S => i \in S
  <2>1. 0 \in S
    <3> HIDE DEF g, c
    <3> QED
      BY <1>1, <1>9
  <2>2. ASSUME NEW i \in 1 .. n, i - 1 \in S PROVE i \in S
    <3>1. g[i] = ValidateToken(g[i - 1], e[i]) /\ g[i - 1] \in Depth /\ e[i] \in Tokens
      BY <1>1, <1>9, <2>2
    <3>2. i \in 0 .. n
      BY <1>1
    <3> HIDE DEF g
    <3> QED
      BY <3>1, <3>2, ValidateTokenStep
  <2> QED
    BY <2>1, <2>2
<1>11. S = 0 .. n
  <2>1. S \in SUBSET (0 .. n)
    OBVIOUS
  <2> HIDE DEF S
  <2> QED
    BY <1>1, <1>10, <2>1, Induct
<1>12. g = [i \in 0 .. n |-> g[i]]
  BY <1>8, Zenon
<1>13. \A i \in 0 .. n : g[i] \in Depth
  BY <1>11
<1> HIDE DEF g, n, P, S
<1>14. g \in [0 .. n -> Depth]
  BY <1>12, <1>13
<1> QED
  BY <1>9, <1>14 DEF g, n

\* The bound of the validator is the bound of the evaluator: as long as the
\* depth is not Bad the evaluation goes on, with depth + 1 values on the stack.
LEMMA DepthIsHeight ==
  ASSUME NEW val \in Assignments, NEW e \in Expr
  PROVE  \A i \in 0 .. Len(e) :
            Depths(e)[i] # Bad => /\ Evaluation(val, e)[i].ok
                                  /\ Len(Evaluation(val, e)[i].stack) = Depths(e)[i] + 1
<1> DEFINE n == Len(e)
           M == Evaluation(val, e)
           D == Depths(e)
           Good(i) == D[i] # Bad => M[i].ok /\ Len(M[i].stack) = D[i] + 1
           S == {i \in 0 .. n : Good(i)}
<1>1. /\ n \in Nat /\ M \in [0 .. n -> Machine] /\ D \in [0 .. n -> Depth]
      /\ M[0] = [ok |-> TRUE, stack |-> <<>>] /\ D[0] = -1
      /\ \A i \in 1 .. n : /\ M[i] = EvalToken(val, M[i - 1], e[i])
                           /\ D[i] = ValidateToken(D[i - 1], e[i])
                           /\ e[i] \in Tokens
  BY EvaluationIs, DepthsIs DEF Expr
<1> HIDE DEF n, M, D
<1>2. 0 \in S
  BY <1>1
<1>3. ASSUME NEW i \in 1 .. n, i - 1 \in S PROVE i \in S
  <2> DEFINE m == M[i - 1]
             d == D[i - 1]
             tok == e[i]
  <2>1. m \in Machine /\ d \in Depth /\ tok \in Tokens /\ i \in 0 .. n
    BY <1>1
  <2>2. M[i] = EvalToken(val, m, tok) /\ D[i] = ValidateToken(d, tok)
    BY <1>1
  <2>3. d # Bad => m.ok /\ Len(m.stack) = d + 1
    BY <1>3
  <2> SUFFICES ASSUME D[i] # Bad PROVE M[i].ok /\ Len(M[i].stack) = D[i] + 1
    BY <2>1
  <2> HIDE DEF m, d, tok
  <2>4. /\ d # Bad /\ d \in {-1} \cup Nat
        /\ tok \in Bools => d < MaxDepth - 1 /\ D[i] = d + 1
        /\ tok = "NOT" => d >= 0 /\ D[i] = d
        /\ tok \in Binary => d >= 1 /\ D[i] = d - 1
    BY <2>1, <2>2, ValidateTokenStep DEF Depth
  <2>5. m.ok /\ Len(m.stack) = d + 1
    BY <2>3, <2>4
  <2>6. /\ tok \in Bools /\ Len(m.stack) < MaxDepth =>
               M[i].ok /\ Len(M[i].stack) = Len(m.stack) + 1
        /\ tok = "NOT" /\ Len(m.stack) >= 1 =>
               M[i].ok /\ Len(M[i].stack) = Len(m.stack)
        /\ tok \in Binary /\ Len(m.stack) >= 2 =>
               M[i].ok /\ Len(M[i].stack) = Len(m.stack) - 1
    BY <2>1, <2>2, <2>5, EvalTokenStep
  <2> QED
    BY <2>1, <2>4, <2>5, <2>6, TokenKinds, DepthAssumption
<1>4. S = 0 .. n
  <2>1. S \in SUBSET (0 .. n)
    OBVIOUS
  <2> HIDE DEF S
  <2> QED
    BY <1>1, <1>2, <1>3, <2>1, Induct
<1> QED
  BY <1>4 DEF n, M, D

\* What is left of a valid expression: one value.
LEMMA ValidLeavesOne ==
  ASSUME NEW val \in Assignments, NEW e \in Expr, validate_cond_expr(e)
  PROVE  LET m == Evaluation(val, e)[Len(e)]
         IN /\ m \in Machine /\ m.ok /\ Len(m.stack) = 1 /\ m.stack[1] \in States
            /\ cond_evaluate_expr(val, e) = m.stack[1]
<1> DEFINE m == Evaluation(val, e)[Len(e)]
<1>1. Len(e) \in 0 .. Len(e)
  BY DEF Expr
<1>2. m \in Machine
  BY <1>1, EvaluationIs
<1>3. Depths(e)[Len(e)] = 0
  BY DEF validate_cond_expr
<1>4. m.ok /\ Len(m.stack) = 1
  <2>1. Depths(e)[Len(e)] # Bad
    BY <1>3 DEF Bad
  <2>2. m.ok /\ Len(m.stack) = Depths(e)[Len(e)] + 1
    BY <1>1, <2>1, DepthIsHeight
  <2> QED
    BY <1>3, <2>2
<1>5. cond_evaluate_expr(val, e) = IF m.ok /\ m.stack # <<>> THEN Bit(m.stack[1] = 1) ELSE Undefined
  BY DEF cond_evaluate_expr
<1> HIDE DEF m
<1>6. m.stack \in Seq(States) /\ m.stack # <<>> /\ m.stack[1] \in States
  <2>1. m.stack \in Seq(States)
    BY <1>2 DEF Machine
  <2>2. 1 \in 1 .. Len(m.stack)
    BY <1>4
  <2>3. m.stack[1] \in States
    BY <2>1, <2>2, ElementOfSeq
  <2>4. Len(<<>>) = 0
    OBVIOUS
  <2> QED
    BY <1>4, <2>1, <2>3, <2>4
<1>7. Bit(m.stack[1] = 1) = m.stack[1]
  BY <1>6 DEF Bit, States
<1> QED
  BY <1>2, <1>4, <1>5, <1>6, <1>7 DEF m
-----------------------------------------------------------------------------
(***************************************************************************)
(* Normalisation drops a trailing NOT.                                     *)
(***************************************************************************)
\* The beginning of an expression is evaluated and validated alike.
LEMMA SamePrefix ==
  ASSUME NEW val \in Assignments, NEW e \in Expr, NEW s \in Expr, Len(s) <= Len(e),
         \A i \in 1 .. Len(s) : s[i] = e[i]
  PROVE  \A i \in 0 .. Len(s) : /\ Evaluation(val, s)[i] = Evaluation(val, e)[i]
                                /\ Depths(s)[i] = Depths(e)[i]
<1> DEFINE n == Len(s)
           Same(i) == Evaluation(val, s)[i] = Evaluation(val, e)[i] /\ Depths(s)[i] = Depths(e)[i]
           S == {i \in 0 .. n : Same(i)}
<1>1. n \in Nat /\ Len(e) \in Nat
  BY DEF Expr
<1>2. 0 \in S
  BY <1>1, EvaluationIs, DepthsIs
<1>3. ASSUME NEW i \in 1 .. n, i - 1 \in S PROVE i \in S
  <2>1. Same(i - 1) /\ s[i] = e[i] /\ i \in 1 .. Len(e) /\ i \in 0 .. n
    BY <1>1, <1>3
  <2>2. /\ Evaluation(val, s)[i] = EvalToken(val, Evaluation(val, s)[i - 1], s[i])
        /\ Evaluation(val, e)[i] = EvalToken(val, Evaluation(val, e)[i - 1], e[i])
    BY <2>1, EvaluationIs
  <2>3. /\ Depths(s)[i] = ValidateToken(Depths(s)[i - 1], s[i])
        /\ Depths(e)[i] = ValidateToken(Depths(e)[i - 1], e[i])
    BY <2>1, DepthsIs
  <2> QED
    BY <2>1, <2>2, <2>3
<1>4. S = 0 .. n
  <2>1. S \in SUBSET (0 .. n)
    OBVIOUS
  <2> HIDE DEF S
  <2> QED
    BY <1>1, <1>2, <1>3, <2>1, Induct
<1> QED
  BY <1>4

\* A valid expression that ends in NOT is a valid expression and a NOT.
LEMMA StrippedNot ==
  ASSUME NEW e \in Expr, validate_cond_expr(e), Negated(e)
  PROVE  /\ StripNot(e) \in Expr /\ validate_cond_expr(StripNot(e))
         /\ \A val \in Assignments :
               cond_evaluate_expr(val, e) = 1 - cond_evaluate_expr(val, StripNot(e))
<1> DEFINE s == StripNot(e)
           n == Len(e)
<1>1. n \in Nat \ {0} /\ Depths(e)[n] = 0 /\ e[n] = "NOT"
  BY EmptySeq DEF validate_cond_expr, Negated, Expr
<1>2. s = SubSeq(e, 1, n - 1)
  BY DEF StripNot
<1>3. \A i \in 1 .. n - 1 : e[i] \in Tokens
  BY <1>1 DEF Expr
<1>4. s \in Expr /\ Len(s) = n - 1 /\ \A i \in 1 .. n - 1 : s[i] = e[i]
  <2>1. /\ SubSeq(e, 1, n - 1) \in Seq(Tokens)
        /\ Len(SubSeq(e, 1, n - 1)) = IF 1 <= n - 1 THEN n - 1 - 1 + 1 ELSE 0
        /\ \A i \in 1 .. n - 1 - 1 + 1 : SubSeq(e, 1, n - 1)[i] = e[1 + i - 1]
    BY <1>1, <1>3, SubSeqProperties
  <2> HIDE DEF s
  <2>2. n - 1 - 1 + 1 = n - 1 /\ \A i \in 1 .. n - 1 : 1 + i - 1 = i
    BY <1>1
  <2>3. (IF 1 <= n - 1 THEN n - 1 - 1 + 1 ELSE 0) = n - 1
    <3> HIDE DEF n
    <3> QED
      BY <1>1
  <2> QED
    BY <1>2, <2>1, <2>2, <2>3 DEF Expr
<1> HIDE DEF s
<1>5. ASSUME NEW val \in Assignments
      PROVE  /\ Evaluation(val, s)[n - 1] = Evaluation(val, e)[n - 1]
             /\ Depths(s)[n - 1] = Depths(e)[n - 1]
  <2>1. n - 1 \in 0 .. Len(s) /\ Len(s) <= Len(e)
    BY <1>1, <1>4
  <2> QED
    BY <1>4, <2>1, SamePrefix
<1>6. Depths(e)[n - 1] = 0
  <2>1. Depths(e)[n - 1] \in Depth /\ Depths(e)[n] = ValidateToken(Depths(e)[n - 1], e[n])
    <3>1. n - 1 \in 0 .. n /\ n \in 1 .. n
      BY <1>1
    <3> QED
      BY <3>1, DepthsIs
  <2>2. e[n] \in Tokens
    BY <1>1 DEF Expr
  <2> QED
    BY <1>1, <2>1, <2>2, ValidateTokenStep DEF Bad
<1>7. s # <<>>
  <2> SUFFICES ASSUME s = <<>> PROVE FALSE
    OBVIOUS
  <2>1. n - 1 = 0
    BY <1>4
  <2>2. Depths(e)[0] = -1
    BY DepthsIs
  <2>3. Depths(e)[0] = 0
    BY <1>6, <2>1
  <2> QED
    BY <2>2, <2>3
<1>8. validate_cond_expr(s)
  <2>1. [b \in Bools |-> 0] \in Assignments
    BY DEF Assignments, States
  <2>2. Depths(s)[n - 1] = 0
    BY <1>5, <1>6, <2>1
  <2> QED
    BY <1>4, <1>7, <2>2 DEF validate_cond_expr
<1>9. ASSUME NEW val \in Assignments
      PROVE  cond_evaluate_expr(val, e) = 1 - cond_evaluate_expr(val, s)
  <2> DEFINE m == Evaluation(val, e)[n - 1]
             w == Evaluation(val, e)[n]
  <2>1. /\ m \in Machine /\ m.ok /\ Len(m.stack) = 1 /\ m.stack[1] \in States
        /\ cond_evaluate_expr(val, s) = m.stack[1]
    <3>1. Evaluation(val, s)[Len(s)] = m
      BY <1>4, <1>5
    <3> HIDE DEF m
    <3> QED
      BY <1>4, <1>8, <3>1, ValidLeavesOne
  <2>2. cond_evaluate_expr(val, e) = w.stack[1]
    BY ValidLeavesOne
  <2>3. w = EvalToken(val, m, "NOT")
    BY <1>1, EvaluationIs
  <2>4. "NOT" \in Tokens
    BY DEF Tokens, Operators
  <2> HIDE DEF m, w
  <2>5. w.stack = <<1 - m.stack[1]>>
    BY <2>1, <2>3, <2>4, EvalTokenStep
  <2>6. w.stack[1] = 1 - m.stack[1]
    BY <2>5
  <2> QED
    BY <2>1, <2>2, <2>6
<1> QED
  BY <1>4, <1>8, <1>9 DEF s

\* The same, whether or not there was a NOT.
LEMMA Stripped ==
  ASSUME NEW e \in Expr, validate_cond_expr(e)
  PROVE  /\ StripNot(e) \in Expr /\ validate_cond_expr(StripNot(e))
         /\ \A val \in Assignments :
               cond_evaluate_expr(val, e) = IF Negated(e) THEN 1 - cond_evaluate_expr(val, StripNot(e))
                                            ELSE cond_evaluate_expr(val, StripNot(e))
<1>1. CASE Negated(e)
  BY <1>1, StrippedNot
<1>2. CASE ~Negated(e)
  BY <1>2 DEF StripNot
<1> QED
  BY <1>1, <1>2

-----------------------------------------------------------------------------
(***************************************************************************)
(* The booleans recorded by cond_normalize_expr.                           *)
(***************************************************************************)
Record == [ids : Seq(Bools), n : Nat]

LEMMA RecordBoolStep ==
  ASSUME NEW r \in Record, NEW tok \in Tokens
  PROVE  /\ RecordBool(r, tok) \in Record
         /\ RecordBool(r, tok).n <= MaxBools =>
               /\ r.n <= MaxBools
               /\ ToSet(r.ids) \subseteq ToSet(RecordBool(r, tok).ids)
               /\ tok \in Bools => tok \in ToSet(RecordBool(r, tok).ids)
               /\ Len(r.ids) = r.n => Len(RecordBool(r, tok).ids) = RecordBool(r, tok).n
<1> DEFINE w == RecordBool(r, tok)
<1>1. r.ids \in Seq(Bools) /\ r.n \in Nat /\ MaxBools \in Nat /\ r = [ids |-> r.ids, n |-> r.n]
  BY BoolsAssumption DEF Record
<1>2. ToSet(r.ids) \subseteq Bools
  BY <1>1 DEF ToSet
<1>3. CASE tok \notin Bools
  <2>1. w = r
    BY <1>2, <1>3 DEF RecordBool
  <2> QED
    BY <1>1, <1>3, <2>1
<1>4. CASE tok \in Bools /\ r.n <= MaxBools /\ tok \in ToSet(r.ids)
  <2>1. w = r
    BY <1>1, <1>4 DEF RecordBool
  <2> QED
    BY <1>1, <1>4, <2>1
<1>5. CASE tok \in Bools /\ r.n < MaxBools /\ tok \notin ToSet(r.ids)
  <2> DEFINE t == Append(r.ids, tok)
  <2>1. w = [ids |-> t, n |-> r.n + 1]
    BY <1>1, <1>5 DEF RecordBool
  <2>2. t \in Seq(Bools) /\ Len(t) = Len(r.ids) + 1 /\ t[Len(t)] = tok
        /\ \A i \in 1 .. Len(r.ids) : t[i] = r.ids[i]
    BY <1>1, <1>5
  <2>3. DOMAIN t = 1 .. Len(t) /\ DOMAIN r.ids = 1 .. Len(r.ids) /\ Len(r.ids) \in Nat
    BY <1>1, <2>2
  <2> HIDE DEF t
  <2>4. tok \in ToSet(t)
    BY <2>2, <2>3 DEF ToSet
  <2>5. ToSet(r.ids) \subseteq ToSet(t)
    <3> SUFFICES ASSUME NEW i \in DOMAIN r.ids PROVE r.ids[i] \in ToSet(t)
      BY DEF ToSet
    <3>1. i \in DOMAIN t /\ t[i] = r.ids[i]
      BY <2>2, <2>3
    <3> QED
      BY <3>1 DEF ToSet
  <2>6. w \in Record /\ w.ids = t /\ w.n = r.n + 1
    BY <1>1, <2>1, <2>2 DEF Record
  <2> HIDE DEF w
  <2> QED
    BY <1>1, <1>5, <2>2, <2>4, <2>5, <2>6 DEF w
<1>6. CASE tok \in Bools /\ ~(r.n <= MaxBools /\ tok \in ToSet(r.ids))
                         /\ ~(r.n < MaxBools /\ tok \notin ToSet(r.ids))
  <2>1. w = [r EXCEPT !.n = r.n + 1]
    BY <1>1, <1>6 DEF RecordBool
  <2>2. w \in Record /\ w.n = r.n + 1
    BY <1>1, <2>1 DEF Record
  <2>3. r.n + 1 > MaxBools
    BY <1>1, <1>6
  <2> HIDE DEF w
  <2> QED
    BY <1>1, <2>2, <2>3 DEF w
<1> QED
  BY <1>3, <1>4, <1>5, <1>6
\* The record is the sequence it is meant to be.
LEMMA FoundBoolsIs ==
  ASSUME NEW e \in Expr
  PROVE  /\ FoundBools(e) \in [0 .. Len(e) -> Record]
         /\ FoundBools(e)[0] = [ids |-> <<>>, n |-> 0]
         /\ \A i \in 1 .. Len(e) : FoundBools(e)[i] = RecordBool(FoundBools(e)[i - 1], e[i])
<1> DEFINE n == Len(e)
           c == [ids |-> <<>>, n |-> 0]
           P(f) == f = [i \in 0 .. n |-> IF i = 0 THEN c ELSE RecordBool(f[i - 1], e[i])]
           s == [p \in (1 .. n) \X Record |-> RecordBool(p[2], e[p[1]])]
<1>1. n \in Nat /\ c \in Record /\ \A i \in 1 .. n : e[i] \in Tokens
  BY DEF Expr, Record
<1>2. s \in [(1 .. n) \X Record -> Record]
  BY <1>1, RecordBoolStep
<1>3. PICK f \in [0 .. n -> Record] : f[0] = c /\ \A i \in 1 .. n : f[i] = s[<<i, f[i - 1]>>]
  <2>1. s \in Steps(n, Record)
    BY <1>2 DEF Steps
  <2> HIDE DEF s, c, n, P
  <2>2. \E f : Follows(f, n, Record, c, s)
    BY <1>1, <2>1, Iterates
  <2> QED
    BY <2>2 DEF Follows
<1>4. \A i \in 1 .. n : f[i - 1] \in Record
  BY <1>1, <1>3
<1>5. \A i \in 1 .. n : f[i] = RecordBool(f[i - 1], e[i])
  BY <1>3, <1>4
<1>6. P(f)
  BY <1>1, <1>3, <1>5
<1>7. FoundBools(e) = CHOOSE g : P(g)
  BY DEF FoundBools
<1> DEFINE g == FoundBools(e)
<1>8. P(g)
  <2> HIDE DEF P
  <2> QED
    BY <1>6, <1>7
<1>9. /\ DOMAIN g = 0 .. n /\ g[0] = c
      /\ \A i \in 1 .. n : g[i] = RecordBool(g[i - 1], e[i])
  <2> HIDE DEF g
  <2>2. DOMAIN g = 0 .. n
    BY <1>8, Zenon
  <2>3. ASSUME NEW i \in 0 .. n
        PROVE  g[i] = IF i = 0 THEN c ELSE RecordBool(g[i - 1], e[i])
    BY <1>8, Zenon
  <2>4. g[0] = c
    BY <1>1, <2>3
  <2>5. \A i \in 1 .. n : i \in 0 .. n /\ i # 0
    BY <1>1
  <2> HIDE DEF P, c, n
  <2> QED
    BY <2>2, <2>3, <2>4, <2>5
<1> DEFINE S == {i \in 0 .. n : g[i] \in Record}
<1>10. 0 \in S /\ \A i \in 1 .. n : i - 1 \in S => i \in S
  <2>1. 0 \in S
    <3> HIDE DEF g, c
    <3> QED
      BY <1>1, <1>9
  <2>2. ASSUME NEW i \in 1 .. n, i - 1 \in S PROVE i \in S
    <3>1. g[i] = RecordBool(g[i - 1], e[i]) /\ g[i - 1] \in Record /\ e[i] \in Tokens
      BY <1>1, <1>9, <2>2
    <3>2. i \in 0 .. n
      BY <1>1
    <3> HIDE DEF g
    <3> QED
      BY <3>1, <3>2, RecordBoolStep
  <2> QED
    BY <2>1, <2>2
<1>11. S = 0 .. n
  <2>1. S \in SUBSET (0 .. n)
    OBVIOUS
  <2> HIDE DEF S
  <2> QED
    BY <1>1, <1>10, <2>1, Induct
<1>12. g = [i \in 0 .. n |-> g[i]]
  BY <1>8, Zenon
<1>13. \A i \in 0 .. n : g[i] \in Record
  BY <1>11
<1> HIDE DEF g, c, n, P, S
<1>14. g \in [0 .. n -> Record]
  BY <1>12, <1>13
<1> QED
  BY <1>9, <1>14 DEF g, c, n

\* Up to MaxBools booleans, the record names every boolean of the expression
\* and the counter is its length.
LEMMA RecordComplete ==
  ASSUME NEW e \in Expr
  PROVE  /\ bool_ids(e) \in Seq(Bools) /\ nbools(e) \in Nat
         /\ nbools(e) <= MaxBools =>
               /\ Len(bool_ids(e)) = nbools(e)
               /\ \A i \in 1 .. Len(e) : e[i] \in Bools => e[i] \in ToSet(bool_ids(e))
<1> DEFINE n == Len(e)
           R == FoundBools(e)
           Named(i) == \A j \in 1 .. i : e[j] \in Bools => e[j] \in ToSet(R[i].ids)
           Good(i) == R[i].n <= MaxBools => Len(R[i].ids) = R[i].n /\ Named(i)
           S == {i \in 0 .. n : Good(i)}
<1>1. /\ n \in Nat /\ R \in [0 .. n -> Record] /\ R[0] = [ids |-> <<>>, n |-> 0]
      /\ \A i \in 1 .. n : R[i] = RecordBool(R[i - 1], e[i]) /\ e[i] \in Tokens
  BY FoundBoolsIs DEF Expr
<1>2. bool_ids(e) = R[n].ids /\ nbools(e) = R[n].n
  BY DEF bool_ids, nbools
<1> HIDE DEF n, R
<1>3. 0 \in S
  <2>1. R[0].n = 0 /\ R[0].ids = <<>>
    BY <1>1
  <2> QED
    BY <1>1, <2>1
<1>4. ASSUME NEW i \in 1 .. n, i - 1 \in S PROVE i \in S
  <2> DEFINE r == R[i - 1]
             w == R[i]
  <2>1. r \in Record /\ e[i] \in Tokens /\ w = RecordBool(r, e[i]) /\ i \in 0 .. n
    BY <1>1
  <2>2. w.n <= MaxBools => /\ r.n <= MaxBools
                           /\ ToSet(r.ids) \subseteq ToSet(w.ids)
                           /\ e[i] \in Bools => e[i] \in ToSet(w.ids)
                           /\ Len(r.ids) = r.n => Len(w.ids) = w.n
    <3> HIDE DEF r, w
    <3> QED
      BY <2>1, RecordBoolStep
  <2>3. Good(i - 1)
    BY <1>4
  <2>4. \A j \in 1 .. i : j = i \/ j \in 1 .. i - 1
    OBVIOUS
  <2>5. w.n <= MaxBools => Named(i)
    BY <2>2, <2>3, <2>4
  <2>6. Good(i)
    BY <2>2, <2>3, <2>5
  <2> HIDE DEF Good
  <2> QED
    BY <2>1, <2>6
<1>5. S = 0 .. n
  <2>1. S \in SUBSET (0 .. n)
    OBVIOUS
  <2> HIDE DEF S
  <2> QED
    BY <1>1, <1>3, <1>4, <2>1, Induct
<1>6. Good(n) /\ R[n] \in Record
  <2>1. n \in S
    BY <1>1, <1>5, SMTT(30)
  <2>2. Good(n)
    <3> HIDE DEF Good
    <3> QED
      BY <2>1
  <2> HIDE DEF Good, S
  <2> QED
    BY <1>1, <2>2
<1> QED
  BY <1>2, <1>6 DEF Record, n

\* An expression's value depends only on the booleans it names.
LEMMA AgreeingAssignments ==
  ASSUME NEW v \in Assignments, NEW w \in Assignments, NEW e \in Expr,
         \A i \in 1 .. Len(e) : e[i] \in Bools => v[e[i]] = w[e[i]]
  PROVE  cond_evaluate_expr(v, e) = cond_evaluate_expr(w, e)
<1> DEFINE n == Len(e)
           S == {i \in 0 .. n : Evaluation(v, e)[i] = Evaluation(w, e)[i]}
<1>1. n \in Nat /\ \A i \in 1 .. n : e[i] \in Tokens
  BY DEF Expr
<1>2. 0 \in S
  BY <1>1, EvaluationIs
<1>3. ASSUME NEW i \in 1 .. n, i - 1 \in S PROVE i \in S
  <2> DEFINE m == Evaluation(v, e)[i - 1]
  <2>1. m = Evaluation(w, e)[i - 1]
    BY <1>3
  <2>2. Evaluation(v, e)[i] = EvalToken(v, m, e[i]) /\ Evaluation(w, e)[i] = EvalToken(w, m, e[i])
    BY <2>1, EvaluationIs
  <2>3. EvalToken(v, m, e[i]) = EvalToken(w, m, e[i])
    <3> HIDE DEF m
    <3>1. e[i] \in Tokens
      BY <1>1
    <3>2. CASE e[i] \in Bools
      BY <3>2, TokenKinds, <3>1 DEF EvalToken
    <3>3. CASE e[i] \notin Bools
      BY <3>3, TokenKinds, <3>1 DEF EvalToken
    <3> QED
      BY <3>2, <3>3
  <2>4. i \in 0 .. n
    BY <1>1
  <2> QED
    BY <2>2, <2>3, <2>4
<1>4. S = 0 .. n
  <2>1. S \in SUBSET (0 .. n)
    OBVIOUS
  <2> HIDE DEF S
  <2> QED
    BY <1>1, <1>2, <1>3, <2>1, Induct
<1>5. Evaluation(v, e)[n] = Evaluation(w, e)[n]
  BY <1>1, <1>4
<1> QED
  BY <1>5 DEF cond_evaluate_expr

-----------------------------------------------------------------------------
(***************************************************************************)
(* The truth table.                                                        *)
(***************************************************************************)
LEMMA TestType ==
  ASSUME NEW ids, NEW test
  PROVE  TestAssignment(ids, test) \in Assignments
BY DEF TestAssignment, Assignments, Bit, States

\* A row of the table stands for every assignment that agrees with it on the
\* recorded booleans.
LEMMA RowOf ==
  ASSUME NEW val \in Assignments, NEW e \in Expr, NEW ids \in Seq(Bools),
         \A i \in 1 .. Len(e) : e[i] \in Bools => e[i] \in ToSet(ids)
  PROVE  LET test == {j \in DOMAIN ids : val[ids[j]] = 1}
         IN cond_evaluate_expr(val, e) = cond_evaluate_expr(TestAssignment(ids, test), e)
<1> DEFINE test == {j \in DOMAIN ids : val[ids[j]] = 1}
           row == TestAssignment(ids, test)
<1>1. row \in Assignments
  BY TestType
<1>2. ASSUME NEW b \in ToSet(ids) PROVE row[b] = val[b]
  <2>1. PICK j \in DOMAIN ids : ids[j] = b
    BY DEF ToSet
  <2>2. b \in Bools /\ val[b] \in States
    BY <2>1 DEF Assignments
  <2>3. row[b] = Bit(\E k \in test : ids[k] = b)
    BY <2>2 DEF TestAssignment
  <2>4. (\E k \in test : ids[k] = b) <=> val[b] = 1
    BY <2>1
  <2> QED
    BY <2>2, <2>3, <2>4 DEF Bit, States
<1>3. \A i \in 1 .. Len(e) : e[i] \in Bools => row[e[i]] = val[e[i]]
  BY <1>2
<1> HIDE DEF row
<1>4. cond_evaluate_expr(val, e) = cond_evaluate_expr(row, e)
  BY <1>1, <1>3, AgreeingAssignments
<1> QED
  BY <1>4 DEF row

-----------------------------------------------------------------------------
(***************************************************************************)
(* Theorems.                                                               *)
(***************************************************************************)
(* What validate_cond_expr of policydb_validate.c accepts has a value under
   every assignment, and cond_normalize_expr never meets an undefined one:
   the validator's bound on the depth is the evaluator's bound on its stack. *)
THEOREM ValidExpressionsEvaluate ==
  ASSUME NEW e \in Expr, validate_cond_expr(e)
  PROVE  /\ \A val \in Assignments : cond_evaluate_expr(val, e) \in States
         /\ NormalizeSucceeds(e)
<1>1. ASSUME NEW x \in Expr, validate_cond_expr(x), NEW val \in Assignments
      PROVE  cond_evaluate_expr(val, x) \in States
  BY <1>1, ValidLeavesOne
<1>2. StripNot(e) \in Expr /\ validate_cond_expr(StripNot(e))
  BY Stripped
<1>3. StripNot(e) # <<>>
  BY <1>2 DEF validate_cond_expr
<1>4. ASSUME NEW ids, NEW test
      PROVE  cond_evaluate_expr(TestAssignment(ids, test), StripNot(e)) # Undefined
  <2>1. TestAssignment(ids, test) \in Assignments
    BY TestType
  <2> QED
    BY <1>1, <1>2, <2>1 DEF States, Undefined
<1> QED
  BY <1>1, <1>3, <1>4 DEF NormalizeSucceeds

(* Dropping the trailing NOT of a conditional and exchanging its rule lists
   (cond_normalize_expr) keeps its meaning under every assignment. *)
THEOREM StrippingKeepsMeaning ==
  ASSUME NEW e \in Expr, validate_cond_expr(e)
  PROVE  /\ StripNot(e) \in Expr /\ validate_cond_expr(StripNot(e))
         /\ \A val \in Assignments :
               cond_evaluate_expr(val, e) = IF Negated(e) THEN 1 - cond_evaluate_expr(val, StripNot(e))
                                            ELSE cond_evaluate_expr(val, StripNot(e))
BY Stripped

(* Two valid expressions that name their booleans in the same order: what
   cond_expr_equal takes for equal has the same value under every assignment,
   and up to COND_MAX_BOOLS booleans it finds every such pair. *)
THEOREM EqualDecidesEquivalence ==
  ASSUME NEW a \in Expr, NEW b \in Expr, validate_cond_expr(a), validate_cond_expr(b),
         bool_ids(a) = bool_ids(b)
  PROVE  /\ cond_expr_equal(a, b) => Equivalent(a, b)
         /\ nbools(a) <= MaxBools /\ nbools(b) <= MaxBools /\ Equivalent(a, b)
               => cond_expr_equal(a, b)
<1> DEFINE ids == bool_ids(a)
<1>1. /\ ids \in Seq(Bools) /\ bool_ids(b) = ids /\ nbools(a) \in Nat /\ nbools(b) \in Nat
      /\ nbools(a) <= MaxBools =>
            /\ Len(ids) = nbools(a)
            /\ \A i \in 1 .. Len(a) : a[i] \in Bools => a[i] \in ToSet(ids)
      /\ nbools(b) <= MaxBools =>
            /\ Len(ids) = nbools(b)
            /\ \A i \in 1 .. Len(b) : b[i] \in Bools => b[i] \in ToSet(ids)
  <2>1. /\ nbools(b) \in Nat
        /\ nbools(b) <= MaxBools =>
            /\ Len(bool_ids(b)) = nbools(b)
            /\ \A i \in 1 .. Len(b) : b[i] \in Bools => b[i] \in ToSet(bool_ids(b))
    BY RecordComplete
  <2> QED
    BY <2>1, RecordComplete
<1>2. ASSUME NEW e \in Expr, bool_ids(e) = ids
      PROVE  pre_comp(e) = {test \in SUBSET DOMAIN ids :
                               cond_evaluate_expr(TestAssignment(ids, test), e) # 0}
  BY <1>2 DEF pre_comp
<1> HIDE DEF ids
<1>3. pre_comp(a) = {test \in SUBSET DOMAIN ids : cond_evaluate_expr(TestAssignment(ids, test), a) # 0}
  BY <1>2 DEF ids
<1>4. pre_comp(b) = {test \in SUBSET DOMAIN ids : cond_evaluate_expr(TestAssignment(ids, test), b) # 0}
  BY <1>1, <1>2
<1>5. ASSUME cond_expr_equal(a, b) PROVE Equivalent(a, b)
  <2>1. CASE nbools(a) <= MaxBools
    <3>1. nbools(b) <= MaxBools /\ pre_comp(a) = pre_comp(b)
      BY <1>5, <2>1 DEF cond_expr_equal
    <3> SUFFICES ASSUME NEW val \in Assignments
                 PROVE  cond_evaluate_expr(val, a) = cond_evaluate_expr(val, b)
      BY DEF Equivalent
    <3> DEFINE test == {j \in DOMAIN ids : val[ids[j]] = 1}
               row == TestAssignment(ids, test)
    <3>2. /\ cond_evaluate_expr(val, a) = cond_evaluate_expr(row, a)
          /\ cond_evaluate_expr(val, b) = cond_evaluate_expr(row, b)
      BY <1>1, <2>1, <3>1, RowOf
    <3>3. row \in Assignments /\ test \in SUBSET DOMAIN ids
      BY TestType
    <3> HIDE DEF test
    <3>4. cond_evaluate_expr(row, a) # 0 <=> cond_evaluate_expr(row, b) # 0
      BY <1>3, <1>4, <3>1, <3>3
    <3>5. cond_evaluate_expr(row, a) \in States /\ cond_evaluate_expr(row, b) \in States
      BY <3>3, ValidExpressionsEvaluate
    <3> QED
      BY <3>2, <3>4, <3>5 DEF States
  <2>2. CASE ~(nbools(a) <= MaxBools)
    BY <1>5, <2>2 DEF cond_expr_equal, Equivalent
  <2> QED
    BY <2>1, <2>2
<1>6. ASSUME nbools(a) <= MaxBools, nbools(b) <= MaxBools, Equivalent(a, b)
      PROVE  cond_expr_equal(a, b)
  <2>1. nbools(a) = nbools(b)
    BY <1>1, <1>6
  <2>2. ASSUME NEW test
        PROVE  cond_evaluate_expr(TestAssignment(ids, test), a) = cond_evaluate_expr(TestAssignment(ids, test), b)
    BY <1>6, TestType DEF Equivalent
  <2>3. pre_comp(a) = pre_comp(b)
    BY <1>3, <1>4, <2>2
  <2> QED
    BY <1>6, <2>1, <2>3 DEF cond_expr_equal, same_bools
<1> QED
  BY <1>5, <1>6
=============================================================================
