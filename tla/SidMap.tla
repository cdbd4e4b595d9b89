------------------------------- MODULE SidMap -------------------------------
(***************************************************************************)
(* What a SID table promises its clients: a SID names one context, the     *)
(* answer to a request is the SID of the context asked for, a context that *)
(* was given a SID keeps it, and loading another policy only drops entries *)
(* or follows a renaming.                                                  *)
(***************************************************************************)
CONSTANTS Sid, Label, Null,
          Renamings   \* how a policy names the contexts of the one before it

VARIABLES map,    \* the SIDs in use, and what they name
          asked,  \* the context whose SID is wanted next, or Null
          out     \* the SID the last call returned, or Null

Init == /\ \E S \in SUBSET Sid : map \in [S -> Label]
        /\ asked = Null
        /\ out = Null

Known == /\ \E s \in DOMAIN map : map[s] = asked /\ out' = s
         /\ UNCHANGED map

New == /\ asked \in Label
       /\ \A s \in DOMAIN map : map[s] # asked
       /\ \E s \in Sid \ DOMAIN map :
             /\ map' = [t \in DOMAIN map \cup {s} |-> IF t = s THEN asked ELSE map[t]]
             /\ out' = s

Nothing == out' = Null /\ UNCHANGED map

Reload == /\ asked = Null
          /\ \E S \in SUBSET DOMAIN map, f \in Renamings : map' = [s \in S |-> f[map[s]]]
          /\ out' = Null

Next == /\ Known \/ New \/ Nothing \/ Reload
        /\ asked' \in Label \cup {Null}

Spec == Init /\ [][Next]_<<map, asked, out>>
=============================================================================
