------------------------------- MODULE BitSet -------------------------------
(***************************************************************************)
(* What the ebitmap type promises: a few finite sets of bit numbers, each  *)
(* operation of ebitmap.c being the set operation its name says.  A call   *)
(* is told apart by its function and arguments, a failing one is "failed". *)
(* A failing ebitmap_set_bit changes nothing; every failing constructor      *)
(* leaves its destination empty.                                           *)
(***************************************************************************)
EXTENDS Naturals

CONSTANTS Reg,    \* the ebitmap_t variables of the caller
          Bit     \* the bit numbers an ebitmap can hold

VARIABLES set,    \* set[r]: the bits that are on in r
          op      \* the call that just returned, with its arguments, or Idle

Idle == <<"idle">>

TypeOK == set \in [Reg -> SUBSET Bit]

Init == set = [r \in Reg |-> {}] /\ op = Idle

Call(call, d, S) ==
    /\ op = Idle
    /\ op' = call
    /\ set' = [set EXCEPT ![d] = S]

\* The caller has looked at the result.
Done == op # Idle /\ op' = Idle /\ UNCHANGED set

Below(n) == {b \in Bit : b < n}

SetBit(d, b)       == Call(<<"set", d, b>>, d, set[d] \cup {b})
ClearBit(d, b)     == Call(<<"clear", d, b>>, d, set[d] \ {b})
Or(d, a, b)        == Call(<<"or", d, a, b>>, d, set[a] \cup set[b])
And(d, a, b)       == Call(<<"and", d, a, b>>, d, set[a] \cap set[b])
Xor(d, a, b)       == Call(<<"xor", d, a, b>>, d, (set[a] \ set[b]) \cup (set[b] \ set[a]))
Not(d, a, n)       == Call(<<"not", d, a, n>>, d, Below(n) \ set[a])
AndNot(d, a, b, n) == Call(<<"andnot", d, a, b, n>>, d, (set[a] \cap Below(n)) \ set[b])
Range(d, lo, hi)   == Call(<<"range", d, lo, hi>>, d, {b \in Bit : lo <= b /\ b <= hi})
Copy(d, a)         == Call(<<"copy", d, a>>, d, set[a])
Destroy(d)         == Call(<<"destroy", d>>, d, {})
Fail(d)            == Call(<<"failed", d>>, d, set[d]) \/ Call(<<"failed", d>>, d, {})

Next ==
    \/ Done
    \/ \E d \in Reg :
        \/ \E b \in Bit : SetBit(d, b) \/ ClearBit(d, b)
        \/ \E a, b \in Reg : Or(d, a, b) \/ And(d, a, b) \/ Xor(d, a, b)
        \/ \E a \in Reg, n \in Bit : Not(d, a, n)
        \/ \E a, b \in Reg, n \in Bit : AndNot(d, a, b, n)
        \/ \E lo, hi \in Bit : Range(d, lo, hi)
        \/ \E a \in Reg : Copy(d, a)
        \/ Destroy(d) \/ Fail(d)

Spec == Init /\ [][Next]_<<set, op>>
=============================================================================
