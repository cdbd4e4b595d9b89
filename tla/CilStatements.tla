---------------------------- MODULE CilStatements ----------------------------
(* The life of a CIL statement: it is built from the source, perhaps copied  *)
(* into a block that inherits its own, resolved, resolved again when an      *)
(* optional had to be disabled, and destroyed.                               *)
(*                                                                           *)
(* The policy is a block with an optional in it.  The statement and its copy *)
(* stand on different sides of the optional, so one is destroyed with it and *)
(* the other must then be as if the optional had never been there.           *)
EXTENDS CilResolveStmt

CONSTANTS Cases,        \* [nodes, where, odd]: a statement, what it stands in and the odd name among the declarations
          NotCopied     \* flavors that are not copied

VARIABLES case, st, pc,
          inside,       \* the original is in the optional
          orig, copy,   \* the statement and its copy, 0 when there is none
          todo,         \* what is still to be resolved in this round
          disabled,     \* the optional must go: a name was not found in it
          rounds        \* how often the resolution has started
vars == <<case, st, pc, inside, orig, copy, todo, disabled, rounds>>

Statements == {orig, copy} \ {0}
InOptional(id) == (id = orig) = inside

-----------------------------------------------------------------------------
Init == /\ case \in Cases
        /\ st = [Empty EXCEPT !.odd = case.odd, !.optional = TRUE]
        /\ pc = "build"
        /\ inside \in IF case.where = "block" THEN BOOLEAN ELSE {FALSE}
        /\ orig = 0 /\ copy = 0 /\ todo = {} /\ disabled = FALSE /\ rounds = 0

Holder(isInside) == IF isInside THEN "inner" ELSE "outer"
\* a statement that cannot be built ends the compilation
Built == __cil_build_ast_node_helper(st, case.nodes, IF inside THEN "optional" ELSE case.where, Holder(inside))
BuildStatement ==
    /\ pc = "build"
    /\ \E built \in {Built} :
           /\ st' = built.st
           /\ orig' = IF built.v = NULL THEN 0 ELSE built.v[2]
           /\ pc' = IF ~built.st.ok THEN "failed" ELSE IF built.v = NULL \/ case.where # "block" THEN "done" ELSE "copy"
    /\ UNCHANGED <<case, inside, copy, todo, disabled, rounds>>

\* cil_copy_ast; the destination may declare the name of the statement already
CopyStatement ==
    /\ pc = "copy" /\ st.h[orig].kind \notin NotCopied
    /\ \E exists \in IF "datum" \in DOMAIN st.h[orig].f THEN BOOLEAN ELSE {FALSE} :
           LET s1 == IF exists THEN Alloc(st, st.h[orig].kind, Holder(~inside), st.h[orig].f) ELSE st
           IN  /\ exists => \A f \in DOMAIN st.h[orig].f : st.h[orig].f[f][1] # "own"
               /\ \E copied \in {__cil_copy_node_helper(s1, orig, IF exists THEN Last(s1) ELSE 0, Holder(~inside))} :
                      /\ st' = copied.st
                      /\ copy' = IF copied.v = NULL THEN 0 ELSE copied.v[2]
                      /\ pc' = IF copied.st.ok THEN "start" ELSE "failed"
    /\ UNCHANGED <<case, inside, orig, todo, disabled, rounds>>
NoCopy == pc = "copy" /\ pc' = "start" /\ UNCHANGED <<case, st, inside, orig, copy, todo, disabled, rounds>>

\* the pass of the statement begins
StartPass ==
    /\ pc = "start"
    /\ pc' = "resolve" /\ todo' = {id \in Statements : st.h[id].live} /\ rounds' = rounds + 1
    /\ UNCHANGED <<case, st, inside, orig, copy, disabled>>
\* the statements are resolved in the order of the tree; a name that is missing in an optional disables it
ResolveStatement ==
    /\ pc = "resolve"
    /\ \E id \in todo : \E s1 \in {Resolve(st, id)} :
           LET tolerated == s1.missing /\ InOptional(id)
           IN  /\ st' = IF tolerated THEN [s1 EXCEPT !.ok = TRUE, !.missing = FALSE] ELSE s1
               /\ pc' = IF s1.ok \/ tolerated THEN "resolve" ELSE "failed"
               /\ disabled' = (disabled \/ tolerated)
               /\ todo' = todo \ {id}
    /\ UNCHANGED <<case, inside, orig, copy, rounds>>

\* cil_tree_children_destroy of the optional
DestroyOptional(s) ==
    LET gone == {k \in DOMAIN s.h : s.h[k].live /\ s.h[k].holder = "inner"}
        freed[n \in 0..Len(s.h)] == IF n = 0 THEN s ELSE IF n \in gone THEN Destroy(freed[n - 1], n) ELSE freed[n - 1]
    IN  [freed[Len(s.h)] EXCEPT !.optional = FALSE]
\* Mutant: the other order.
DestroyAndReset(s) == cil_reset_ast(DestroyOptional(s))
\* everything is reset, then the optional is destroyed
ResetAndDestroy(s) == DestroyOptional(cil_reset_ast(s))
\* the optional is disabled at the end of a pass, by this statement or by another one in it: before
\* the pass of the statement, or at the end of it or later
Disable ==
    /\ st.optional
    /\ pc = "start" \/ (pc = "resolve" /\ todo = {})
    /\ st' = ResetAndDestroy(st)
    /\ pc' = "start" /\ disabled' = FALSE
    /\ orig' = IF inside THEN 0 ELSE orig
    /\ copy' = IF inside THEN copy ELSE 0
    /\ UNCHANGED <<case, inside, todo, rounds>>
EndPass ==
    /\ pc = "resolve" /\ todo = {} /\ ~disabled
    /\ pc' = "done"
    /\ UNCHANGED <<case, st, inside, orig, copy, todo, disabled, rounds>>

\* cil_db_destroy
DestroyAll(s) ==
    LET kept == {k \in DOMAIN s.h : s.h[k].live /\ s.h[k].holder # "part"}
        strings == {k \in kept : s.h[k].kind = "STRING"}
        freed[n \in 0..Len(s.h)] ==
            IF n = 0 THEN s
            ELSE IF n \in strings THEN Free(freed[n - 1], n)
            ELSE IF n \in kept THEN Destroy(freed[n - 1], n) ELSE freed[n - 1]
    IN  freed[Len(s.h)]
Finish ==
    /\ pc \in {"done", "failed"}
    /\ st' = DestroyAll(st) /\ pc' = "end"
    /\ UNCHANGED <<case, inside, orig, copy, todo, disabled, rounds>>

Ended == pc = "end" /\ UNCHANGED vars

Next == BuildStatement \/ CopyStatement \/ NoCopy \/ StartPass \/ ResolveStatement \/ Disable \/ EndPass \/ Finish \/ Ended
Spec == Init /\ [][Next]_vars

-----------------------------------------------------------------------------
(* Properties.                                                               *)

\* Every list, expression, level, range, context and class permission entry that is allocated while a
\* statement is built, copied or resolved belongs to exactly one live object, and nothing is freed
\* twice or read after it was freed: also when cil_gen_*, cil_copy_* or cil_resolve_* fails halfway
\* and when cil_reset_ast and the destruction of an optional undo what was resolved.  When the compiler is
\* done, whether it succeeded or not, nothing that the statement allocated is left.
OwnedOnce ==
    LET owners(k) == {<<j, f>> \in UNION {{j} \X DOMAIN st.h[j].f : j \in {i \in DOMAIN st.h : st.h[i].live}} :
                          st.h[j].f[f] = Own(k)}
    IN  /\ st.faults = {}
        /\ \A k \in DOMAIN st.h : st.h[k].live =>
               pc # "end" /\ (st.h[k].holder = "part" => Cardinality(owners(k)) = 1)

\* A copy made for an inherited block says what the original says, and owns none of what the original
\* owns: the two are resolved, reset and destroyed independently.
CopySaysTheSame ==
    pc = "start" /\ rounds = 0 /\ orig # 0 /\ copy # 0 =>
        /\ View(st, copy) = View(st, orig)
        /\ Owned(st, copy) \intersect Owned(st, orig) = {}

Left == IF inside THEN copy ELSE orig
\* a policy without the optional, with the statement if it is left
Fresh ==
    LET resolved(built) == With(Resolve(built.st, built.v[2]), built.v)
    IN  IF Left = 0 THEN With(Empty, NULL)
        ELSE resolved(__cil_build_ast_node_helper([Empty EXCEPT !.odd = case.odd], case.nodes, case.where, "outer"))
\* the declaration the destination of the copy had already
Redeclared(k) == st.h[k].kind = parse_statement(case.nodes).flavor /\ <<"s", st.h[k].f["datum"][2]>> = case.nodes[2]
\* Disabling an optional leaves no trace: the statement that is left, if any, and every declaration it or the
\* destroyed one has changed (attribute expressions, bounds, contexts of sids, categories of sensitivities,
\* permissions of classes, uses of attributes), is what it would be in a policy without the optional,
\* whatever had been resolved before the optional was disabled; and the compilation fails if and only if
\* it would have failed there.
DisablingLeavesNoTrace ==
    pc \in {"done", "failed"} /\ ~st.optional =>
        \A alone \in {Fresh} :
        LET fresh == alone.st
            same(k, j) == fresh.h[j].live /\ fresh.h[j].kind = st.h[k].kind /\ fresh.h[j].holder = "outer"
                              /\ fresh.h[j].f["datum"] = st.h[k].f["datum"]
            datums(s) == {k \in DOMAIN s.h : s.h[k].live /\ s.h[k].holder # "part" /\ "datum" \in DOMAIN s.h[k].f}
        IN  /\ st.ok = fresh.ok
            /\ st.ok /\ Left # 0 => View(st, Left) = View(fresh, alone.v[2])
            /\ st.ok => \A k \in datums(st) \ {Left} :
                   \/ \E j \in datums(fresh) : same(k, j) /\ View(st, k) = View(fresh, j)
                   \/ /\ ~\E j \in datums(fresh) : same(k, j)
                      /\ \/ st.h[k].kind = "STRING" \/ Redeclared(k)
                         \/ View(st, k) = <<"object", st.h[k].kind,
                                            [Declaration(st.h[k].kind, st.h[k].f["datum"][2] = case.odd[1] /\ case.odd[2] = "other")
                                                EXCEPT !["datum"] = st.h[k].f["datum"]]>>
==============================================================================
