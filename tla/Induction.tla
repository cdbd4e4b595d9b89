------------------------------ MODULE Induction ------------------------------
(***************************************************************************)
(* Induction, and functions defined by recursion, up to a number: what the *)
(* proofs about the library's loops rest on.                               *)
(***************************************************************************)
EXTENDS Naturals, TLAPS, WellFoundedInduction

\* A set of numbers up to n that holds 0 and every successor holds them all.
LEMMA Induct ==
  ASSUME NEW n \in Nat, NEW S \in SUBSET (0 .. n),
         0 \in S, \A i \in 1 .. n : i - 1 \in S => i \in S
  PROVE  S = 0 .. n
<1> DEFINE B == (0 .. n) \ S
<1> SUFFICES ASSUME B # {} PROVE FALSE
  OBVIOUS
<1>1. B \in SUBSET Nat
  OBVIOUS
<1>2. PICK x \in B : \A y \in B : ~(<<y, x>> \in OpToRel(<, Nat))
  <2> HIDE DEF B
  <2> QED
    BY <1>1, NatLessThanWellFounded, WFMin
<1>3. x \in 1 .. n
  OBVIOUS
<1>4. x - 1 \in B
  BY <1>3
<1>5. <<x - 1, x>> \in OpToRel(<, Nat)
  <2>1. <<x - 1, x>> \in Nat \X Nat /\ x - 1 < x
    BY <1>3
  <2> QED
    BY <2>1 DEF OpToRel
<1> QED
  BY <1>2, <1>4, <1>5

\* A function can be built value by value, each from the one before it.
Steps(n, X) == [(1 .. n) \X X -> X]
Follows(f, n, X, c, s) == /\ f \in [0 .. n -> X] /\ f[0] = c
                          /\ \A i \in 1 .. n : f[i] = s[<<i, f[i - 1]>>]

LEMMA Iterates ==
  ASSUME NEW n \in Nat, NEW X, NEW c \in X, NEW s \in Steps(n, X)
  PROVE  \E f : Follows(f, n, X, c, s)
<1> USE DEF Steps, Follows
<1> DEFINE Built(k, f) == f \in [0 .. k -> X] /\ f[0] = c
                          /\ \A i \in 1 .. k : f[i] = s[<<i, f[i - 1]>>]
           S == {k \in 0 .. n : \E f : Built(k, f)}
<1>1. 0 \in S
  <2>1. Built(0, [i \in 0 .. 0 |-> c])
    OBVIOUS
  <2> HIDE DEF Built
  <2> QED
    BY <2>1
<1>2. ASSUME NEW k \in 1 .. n, k - 1 \in S PROVE k \in S
  <2>1. PICK f : Built(k - 1, f)
    BY <1>2
  <2> DEFINE v == s[<<k, f[k - 1]>>]
             g == [i \in 0 .. k |-> IF i = k THEN v ELSE f[i]]
  <2>2. v \in X
    <3>1. f[k - 1] \in X
      BY <2>1
    <3> QED
      BY <3>1
  <2>3. \A i \in 0 .. k - 1 : g[i] = f[i] /\ f[i] \in X
    BY <2>1
  <2>4. g \in [0 .. k -> X] /\ g[0] = c /\ g[k] = v
    <3> HIDE DEF v
    <3>1. \A i \in 0 .. k : (IF i = k THEN v ELSE f[i]) \in X
      <4>1. \A i \in 0 .. k : i = k \/ i \in 0 .. k - 1
        OBVIOUS
      <4> QED
        BY <2>2, <2>3, <4>1
    <3>2. g \in [0 .. k -> X]
      BY <3>1
    <3> QED
      BY <2>1, <3>2
  <2>5. ASSUME NEW i \in 1 .. k PROVE g[i] = s[<<i, g[i - 1]>>]
    <3>1. g[i - 1] = f[i - 1]
      BY <2>3
    <3>2. CASE i = k
      BY <2>4, <3>1, <3>2
    <3>3. CASE i # k
      <4>1. i \in 1 .. k - 1
        BY <3>3
      <4>2. g[i] = f[i]
        BY <2>3, <4>1
      <4> QED
        BY <2>1, <3>1, <4>1, <4>2
    <3> QED
      BY <3>2, <3>3
  <2>6. Built(k, g)
    BY <2>4, <2>5
  <2> HIDE DEF Built, g
  <2> QED
    BY <2>6
<1>3. n \in S
  <2> HIDE DEF S
  <2>1. S \in SUBSET (0 .. n)
    BY DEF S
  <2> QED
    BY <1>1, <1>2, <2>1, Induct
<1> QED
  BY <1>3
=============================================================================
