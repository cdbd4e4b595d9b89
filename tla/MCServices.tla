----------------------------- MODULE MCServices -----------------------------
(***************************************************************************)
(* Three policies that number four context strings differently.  In the    *)
(* first c and d are aliases; the second does not know c and swaps a and   *)
(* b; the third tells c and d apart but c is not valid in it, and it has a *)
(* class the others lack, so it cannot be replaced by them.                *)
(***************************************************************************)
EXTENDS Services, TLC

CONSTANTS a, b, c, d, k, j

MCLabels == {a, b, c, d}
MCClasses == {k, j}

First == [value |-> a :> 1 @@ b :> 2 @@ c :> 3 @@ d :> 3,
          name |-> <<a, b, c>>, valid |-> {1, 2, 3},
          isids |-> 1 :> 1 @@ 2 :> 2,
          ocontexts |-> << <<3>>, <<1, 3>> >>,
          users |-> << <<2, 3>> >>,
          classes |-> k :> 1 @@ j :> 0]

Second == [value |-> a :> 2 @@ b :> 1 @@ c :> 0 @@ d :> 3,
           name |-> <<b, a, d>>, valid |-> {1, 2, 3},
           isids |-> 1 :> 2 @@ 2 :> 1,
           ocontexts |-> << <<2>>, <<1, 3>> >>,
           users |-> << <<3>> >>,
           classes |-> k :> 1 @@ j :> 0]

Third == [value |-> a :> 1 @@ b :> 3 @@ c :> 2 @@ d :> 4,
          name |-> <<a, c, b, d>>, valid |-> {1, 3, 4},
          isids |-> 1 :> 1 @@ 2 :> 3,
          ocontexts |-> << <<1>>, <<3, 4>> >>,
          users |-> << <<4>> >>,
          classes |-> k :> 1 @@ j :> 2]

MCPolicies == {First, Second, Third}
=============================================================================
