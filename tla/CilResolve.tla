----------------------------- MODULE CilResolve -----------------------------
(***************************************************************************)
(* cil_resolve_ast (cil_resolve_ast.c): passes over the tree of a CIL      *)
(* policy.  Blocks are inherited and macros called by copying subtrees     *)
(* (cil_copy_ast.c); a statement in an optional that names something       *)
(* unknown disables the optional, which is emptied after the pass; if the  *)
(* pass comes after the calls, what was resolved is reset                  *)
(* (cil_reset_ast.c) and resolved again.                                   *)
(*                                                                         *)
(* The tree is a sequence of nodes, numbered in the order of creation; 0   *)
(* is the root.  A declaration's datum is named by its path: the names of  *)
(* its symbol tables.  A name has one kind, so that the symbol tables of   *)
(* a scope are one table.  Statements are abstracted to what they do to    *)
(* others:                                                                 *)
(*   use          resolved last (CIL_PASS_MISC3), only holds references    *)
(*   order        likewise in CIL_PASS_MISC1                               *)
(*   set          typeattributeset, roleattributeset, userattributeset     *)
(*   aliasactual  binds an alias                                           *)
(* Left out: in-statements, tunables, dotted names, the MLS and class      *)
(* passes between MISC1 and MISC3.                                         *)
(***************************************************************************)
EXTENDS Integers, Sequences, FiniteSets, SequencesExt

CONSTANTS Sources,         \* the trees that the builder made
          MultipleDecls,   \* db->multiple_decls
          Growth, Minimum, \* CIL_DEGENERATE_INHERITANCE_GROWTH, _MINIMUM
          NoName           \* of a statement that declares nothing

Declarative == {"block", "macro", "optional", "type", "attribute", "alias"}
Passes == <<"BLKIN_LINK", "BLKIN_COPY", "BLKABS", "CALL1", "CALL2", "ALIAS1", "ALIAS2", "MISC1", "MISC3">>
PassNo(p) == SelectInSeq(Passes, LAMBDA q : q = p)
After(p, q) == PassNo(p) > PassNo(q)

NoPath == <<>>

VARIABLES tree,       \* [flavor, name, refs, params, parent, data, target, datums, origin]
          alive,      \* the nodes that were not destroyed
          bi_nodes,   \* block->bi_nodes, for the blocks that have such a list
          abstract,   \* the blocks with is_abstract
          marked,     \* args->abstract_blocks
          actual,     \* alias->actual, for the aliases that have one
          expr_list,  \* attr->expr_list, for the attributes that have one
          detached,   \* the datums out of their symbol table
          pass, todo, \* the pass, and the nodes still to be visited or left
          disabled_optional, to_destroy, status

vars == <<tree, alive, bi_nodes, abstract, marked, actual, expr_list, detached,
          pass, todo, disabled_optional, to_destroy, status>>

-----------------------------------------------------------------------------
(***************************************************************************)
(* The tree.                                                               *)
(***************************************************************************)
Node(f, n, refs, params, parent) ==
    [flavor |-> f, name |-> n, refs |-> refs, params |-> params, parent |-> parent,
     data |-> NoPath, target |-> NoPath, datums |-> <<>>, origin |-> 0]

FlavorIn(t, n) == IF n = 0 THEN "root" ELSE t[n].flavor

Children(t, A, n) == SelectSeq([m \in DOMAIN t |-> m], LAMBDA m : m \in A /\ t[m].parent = n)

\* n and the nodes it is in, innermost first
Ancestors(t, n) ==
    LET up[k \in 0 .. Len(t)] == IF k = 0 THEN <<>> ELSE <<k>> \o up[t[k].parent]
    IN up[n]

Innermost(t, n, F) ==
    LET above == SelectSeq(Ancestors(t, n), LAMBDA k : t[k].flavor \in F)
    IN IF above = <<>> THEN 0 ELSE Head(above)

\* cil_get_symtab, for a declaration below n
Scope(t, n) == LET k == Innermost(t, n, {"block", "macro"}) IN IF k = 0 THEN <<>> ELSE t[k].data

DeclsOf(t, A, p) == {m \in A : t[m].flavor \in Declarative /\ t[m].data = p}
Declared(t, A, p) == p # NoPath /\ p \notin detached /\ DeclsOf(t, A, p) # {}

\* NODE(datum): the first of datum->nodes
NodeOf(t, A, p) == LET D == DeclsOf(t, A, p) IN CHOOSE m \in D : \A k \in D : m <= k
FlavorOf(t, A, p) == t[NodeOf(t, A, p)].flavor

Below(t, A, S) == {m \in A : \E k \in ToSet(Ancestors(t, t[m].parent)) : k \in S}

-----------------------------------------------------------------------------
(***************************************************************************)
(* cil_resolve_name.  A is the set of nodes whose declarations count,      *)
(* `hidden' a path whose datum is out of its table for the moment; Arg     *)
(* gives the value of a call's argument.                                   *)
(***************************************************************************)
RECURSIVE resolve_name_with_parents(_, _, _, _)
RECURSIVE FreshArg(_, _, _)
RECURSIVE Lookup(_, _, _, _)

\* The i-th argument of a call looked up from the call, where its own
\* declarations do not count.
FreshArg(A, n, i) ==
    LET p == Lookup(A, tree[n].parent, tree[n].refs[i + 1], NoPath)
    IN IF p # NoPath /\ n \in ToSet(Ancestors(tree, NodeOf(tree, A, p)))
       THEN Lookup(A, tree[n].parent, tree[n].refs[i + 1], p) ELSE p

\* call->args as CALL2 left them, or, on a set of nodes other than the living
\* ones, as it would leave them.
Arg(A, n, i) == IF A = alive THEN tree[n].datums[i] ELSE FreshArg(A, n, i)

resolve_name_with_parents(A, n, x, hidden) ==
    IF n = 0 THEN NoPath
    ELSE LET node == tree[n]
             Up == resolve_name_with_parents(A, node.parent, x, hidden)
             Here(p) == p # hidden /\ Declared(tree, A, p)
         IN CASE node.flavor = "block" ->
                   IF node.data \notin abstract /\ Here(Append(node.data, x)) THEN Append(node.data, x) ELSE Up
              [] node.flavor = "blockinherit" ->
                   IF Up # NoPath THEN Up
                   ELSE resolve_name_with_parents(A, tree[NodeOf(tree, A, node.target)].parent, x, hidden)
              [] node.flavor = "macro" ->
                   IF Here(Append(node.data, x)) THEN Append(node.data, x) ELSE Up
              [] node.flavor = "call" ->
                   LET macro == NodeOf(tree, A, node.target)
                       i == SelectInSeq(tree[macro].params, LAMBDA y : y = x)
                       given == IF i = 0 \/ i > Len(node.datums) THEN NoPath ELSE Arg(A, n, i)
                       outside == resolve_name_with_parents(A, tree[macro].parent, x, hidden)
                   IN IF Declared(tree, A, Append(node.target, x)) THEN Up
                      ELSE IF given # NoPath THEN given
                      ELSE IF outside # NoPath THEN outside ELSE Up
              [] OTHER -> Up

Lookup(A, n, x, hidden) ==
    LET p == resolve_name_with_parents(A, n, x, hidden)
    IN IF p # NoPath THEN p
       ELSE IF <<x>> # hidden /\ Declared(tree, A, <<x>>) THEN <<x>> ELSE NoPath

cil_resolve_name_keep_aliases(A, n, x) == Lookup(A, tree[n].parent, x, NoPath)

cil_resolve_name(A, n, x) ==
    LET p == cil_resolve_name_keep_aliases(A, n, x)
    IN IF p \in DOMAIN actual THEN actual[p] ELSE p

-----------------------------------------------------------------------------
(***************************************************************************)
(* cil_copy_ast.                                                           *)
(***************************************************************************)
RECURSIVE Preorder(_, _, _)
Preorder(t, A, n) == LET kids == Children(t, A, n)
                     IN FlattenSeq([i \in DOMAIN kids |-> <<kids[i]>> \o Preorder(t, A, kids[i])])

cil_allow_multiple_decls(new, old) ==
    new = old /\ (new = "optional" \/ (new \in {"type", "attribute"} /\ MultipleDecls))

ListOf(lists, p) == IF p \in DOMAIN lists THEN lists[p] ELSE <<>>
AddTo(lists, p, x) == [q \in DOMAIN lists \cup {p} |-> IF q = p THEN Append(ListOf(lists, p), x) ELSE lists[q]]

\* A blockinherit that is copied after the link pass is inherited for as well.
Registered(bi, node, id) ==
    IF node.flavor = "blockinherit" /\ node.target # NoPath THEN AddTo(bi, node.target, id) ELSE bi

\* One node of the subtree; acc.ids maps the nodes copied to their copies.
__cil_copy_node(acc, d, orig, dest) ==
    LET node == acc.tree[d]
        inherit == FlavorIn(acc.tree, dest) = "blockinherit"
        parent == IF node.parent = orig THEN dest ELSE acc.ids[node.parent]
        path == IF node.flavor \in Declarative THEN Append(Scope(acc.tree, parent), node.name) ELSE NoPath
        exists == Declared(acc.tree, acc.alive, path)
        old == FlavorOf(acc.tree, acc.alive, path)
        id == Len(acc.tree) + 1
        added == [tree |-> Append(acc.tree, [node EXCEPT !.parent = parent, !.data = path,
                                                         !.datums = <<>>, !.origin = d]),
                  alive |-> acc.alive \cup {id},
                  ids |-> [k \in DOMAIN acc.ids \cup {d} |-> IF k = d THEN id ELSE acc.ids[k]],
                  bi |-> Registered(acc.bi, node, id),
                  ok |-> TRUE]
        failed == [acc EXCEPT !.ok = FALSE]
    IN IF ~acc.ok \/ (node.parent # orig /\ node.parent \notin DOMAIN acc.ids) THEN acc
       ELSE CASE node.flavor = "blockabstract" /\ inherit -> acc
              [] node.flavor = "macro" /\ exists -> IF old = "macro" /\ inherit THEN acc ELSE failed
              [] node.flavor = "block" /\ exists -> IF old = "block" /\ inherit THEN added ELSE failed
              [] node.flavor \in Declarative /\ exists ->
                    IF cil_allow_multiple_decls(node.flavor, old) THEN added ELSE failed
              [] OTHER -> added

\* acc: the tree, the living nodes and the lists of blocks to be changed
cil_copy_ast(acc, orig, dest) ==
    FoldLeft(LAMBDA x, d : __cil_copy_node(x, d, orig, dest),
             [acc EXCEPT !.ids = [k \in {} |-> 0]], Preorder(acc.tree, acc.alive, orig))

Now == [tree |-> tree, alive |-> alive, ids |-> [k \in {} |-> 0], bi |-> bi_nodes, ok |-> TRUE]
Become(acc) == tree' = acc.tree /\ alive' = acc.alive /\ bi_nodes' = acc.bi

-----------------------------------------------------------------------------
(***************************************************************************)
(* The tree as the builder leaves it: cil_gen_node refuses a declaration   *)
(* that cil_add_decl_to_symtab does.                                       *)
(***************************************************************************)
cil_gen_node(acc, node) ==
    LET path == IF node.flavor \in Declarative THEN Append(Scope(acc.tree, node.parent), node.name) ELSE NoPath
        before == {m \in DOMAIN acc.tree : acc.tree[m].data = path}
    IN [tree |-> Append(acc.tree, [node EXCEPT !.data = path]),
        ok |-> /\ acc.ok
               /\ path = NoPath \/ \A m \in before : cil_allow_multiple_decls(node.flavor, acc.tree[m].flavor)]

cil_build_ast(source) == FoldLeft(cil_gen_node, [tree |-> <<>>, ok |-> TRUE], source)

ASSUME SourcesBuilt == \A s \in Sources : cil_build_ast(s).ok /\ \A m \in DOMAIN s : s[m].parent < m

-----------------------------------------------------------------------------
(***************************************************************************)
(* cil_tree_walk: `todo' holds the nodes to be visited next and, after the *)
(* children of an optional, the call of last_child for it.                 *)
(***************************************************************************)
Visits(t, A, n) == LET kids == Children(t, A, n) IN [i \in DOMAIN kids |-> [at |-> kids[i], leave |-> FALSE]]

Entered(t, A, n) ==
    LET visits == Visits(t, A, n)
    IN IF t[n].flavor = "optional" /\ visits # <<>>
       THEN Append(visits, [at |-> n, leave |-> TRUE]) ELSE visits

Init ==
    /\ \E s \in Sources : tree = cil_build_ast(s).tree
    /\ alive = DOMAIN tree
    /\ bi_nodes = <<>> /\ actual = <<>> /\ expr_list = <<>>
    /\ abstract = {} /\ marked = {} /\ detached = {}
    /\ pass = "BLKIN_LINK"
    /\ todo = Visits(tree, alive, 0)
    /\ disabled_optional = 0
    /\ to_destroy = {}
    /\ status = "running"

\* Mutant: args->optional stays at the outermost optional.
OutermostOptional(n) ==
    LET above == SelectSeq(Ancestors(tree, tree[n].parent), LAMBDA k : tree[k].flavor = "optional")
    IN IF above = <<>> THEN 0 ELSE Last(above)

\* args->optional and args->macro at node n
Optional(n) == Innermost(tree, tree[n].parent, {"optional"})
Macro(n) == Innermost(tree, tree[n].parent, {"macro"})

Forbidden(n) ==
    \/ Macro(n) # 0 /\ tree[n].flavor \in {"block", "blockinherit", "blockabstract", "macro"}
    \/ Optional(n) # 0 /\ tree[n].flavor \in {"block", "blockabstract", "macro"}

Skipped(n) ==
    /\ After(pass, "BLKABS")
    /\ tree[n].flavor = "macro" \/ (tree[n].flavor = "block" /\ tree[n].data \in abstract)

\* The statements that __cil_resolve_ast_node resolves in a pass.
Resolved(p) ==
    CASE p = "BLKIN_LINK" -> {"blockinherit"}
      [] p = "BLKIN_COPY" -> {"block"}
      [] p = "BLKABS" -> {"blockabstract"}
      [] p \in {"CALL1", "CALL2"} -> {"call"}
      [] p = "ALIAS1" -> {"aliasactual"}
      [] p = "ALIAS2" -> {"alias"}
      [] p = "MISC1" -> {"order"}
      [] p = "MISC3" -> {"use", "set"}

here == Head(todo).at

Visiting(p, f) ==
    /\ status = "running" /\ todo # <<>> /\ ~Head(todo).leave
    /\ pass = p /\ tree[here].flavor = f
    /\ ~Forbidden(here) /\ ~Skipped(here)

data == <<tree, alive, bi_nodes, abstract, marked, actual, expr_list, detached>>
walk == <<pass, todo, disabled_optional, to_destroy, status>>

\* The node is done; its children, those just made included, are next.
Continue(t, A) ==
    /\ todo' = (IF Skipped(here) THEN <<>> ELSE Entered(t, A, here)) \o Tail(todo)
    /\ UNCHANGED <<pass, disabled_optional, to_destroy, status>>

SEPOL_ERR ==
    /\ status' = "failed"
    /\ UNCHANGED data /\ UNCHANGED <<pass, todo, disabled_optional, to_destroy>>

\* The helper's treatment of SEPOL_ENOENT: only in an optional is it no error.
NotFound ==
    IF Optional(here) = 0
    THEN status' = "failed" /\ UNCHANGED <<pass, todo, disabled_optional, to_destroy>>
    ELSE /\ disabled_optional' = IF disabled_optional = 0 THEN Optional(here) ELSE disabled_optional
         /\ todo' = Entered(tree, alive, here) \o Tail(todo)
         /\ UNCHANGED <<pass, to_destroy, status>>

SEPOL_ENOENT == NotFound /\ UNCHANGED data

\* Statements that the pass has nothing to do with.
PassOver ==
    /\ status = "running" /\ todo # <<>> /\ ~Head(todo).leave
    /\ ~Forbidden(here)
    /\ Skipped(here) \/ tree[here].flavor \notin Resolved(pass)
    /\ Continue(tree, alive) /\ UNCHANGED data

Refuse ==
    /\ status = "running" /\ todo # <<>> /\ ~Head(todo).leave
    /\ Forbidden(here)
    /\ SEPOL_ERR

\* __cil_resolve_ast_last_child_helper, for an optional
LeaveOptional ==
    /\ status = "running" /\ todo # <<>> /\ Head(todo).leave
    /\ to_destroy' = IF disabled_optional = here THEN to_destroy \cup {here} ELSE to_destroy
    /\ disabled_optional' = IF disabled_optional = here THEN 0 ELSE disabled_optional
    /\ todo' = Tail(todo)
    /\ UNCHANGED data /\ UNCHANGED <<pass, status>>

-----------------------------------------------------------------------------
(***************************************************************************)
(* Blocks and macros.                                                      *)
(***************************************************************************)
Ref(i) == tree[here].refs[i]
Is(p, f) == p # NoPath /\ FlavorOf(tree, alive, p) = f
Kin == <<abstract, marked, actual, expr_list, detached>>

cil_resolve_blockinherit_link ==
    /\ Visiting("BLKIN_LINK", "blockinherit")
    /\ LET block == cil_resolve_name(alive, here, Ref(1))
       IN \/ block = NoPath /\ SEPOL_ENOENT
          \/ block # NoPath /\ ~Is(block, "block") /\ SEPOL_ERR
          \/ /\ Is(block, "block")
             /\ tree' = [tree EXCEPT ![here].target = block]
             /\ bi_nodes' = AddTo(bi_nodes, block, here)
             /\ Continue(tree, alive)
             /\ UNCHANGED alive /\ UNCHANGED Kin

\* Mutant: a block merged from a blockinherit is copied too.
AnyNode(block) == TRUE

\* "the original block and not a merged block from a blockinherit"
Original(block) == NodeOf(tree, alive, block) = here

cil_resolve_blockinherit_copy ==
    /\ Visiting("BLKIN_COPY", "block")
    /\ LET block == tree[here].data
           acc == FoldLeft(LAMBDA x, bi : IF x.ok THEN cil_copy_ast(x, here, bi) ELSE x,
                           Now, ListOf(bi_nodes, block))
       IN IF ~Original(block) THEN Continue(tree, alive) /\ UNCHANGED data
          ELSE IF acc.ok THEN Become(acc) /\ Continue(acc.tree, acc.alive) /\ UNCHANGED Kin
          ELSE SEPOL_ERR

cil_resolve_blockabstract ==
    /\ Visiting("BLKABS", "blockabstract")
    /\ LET block == cil_resolve_name(alive, here, Ref(1))
       IN \/ ~Is(block, "block") /\ SEPOL_ERR     \* it is in no optional
          \/ /\ Is(block, "block")
             /\ marked' = marked \cup {NodeOf(tree, alive, block)}
             /\ Continue(tree, alive)
             /\ UNCHANGED <<tree, alive, bi_nodes, abstract, actual, expr_list, detached>>

\* cil_check_recursive_call; calls in macros are not visited
Recursive(n, macro) ==
    \E k \in ToSet(Ancestors(tree, tree[n].parent)) :
        tree[k].flavor = "call" /\ tree[k].target = macro

cil_resolve_call ==
    /\ Visiting("CALL1", "call")
    /\ LET macro == cil_resolve_name(alive, here, Ref(1))
           node == NodeOf(tree, alive, macro)
           called == [Now EXCEPT !.tree[here].target = macro,
                                 !.tree[here].datums = [i \in DOMAIN tree[node].params |-> NoPath]]
           acc == cil_copy_ast(called, node, here)
           good == /\ Len(tree[here].refs) = Len(tree[node].params) + 1   \* cil_build_call_args
                   /\ ~Recursive(here, macro)
                   /\ acc.ok
       IN \/ macro = NoPath /\ SEPOL_ENOENT
          \/ macro # NoPath /\ ~(Is(macro, "macro") /\ good) /\ SEPOL_ERR
          \/ /\ Is(macro, "macro") /\ good
             /\ Become(acc) /\ Continue(acc.tree, acc.alive) /\ UNCHANGED Kin

(***************************************************************************)
(* Arguments are looked up from the call.  One that turns out to be        *)
(* declared by the call itself is taken out of its table and looked up     *)
(* again; if that fails it is not put back.  A datum found through the     *)
(* arguments of another call may have been destroyed with an optional,     *)
(* since cil_reset_ast leaves calls alone: then freed memory is read.      *)
(***************************************************************************)
Freed(p) == p # NoPath /\ DeclsOf(tree, alive, p) = {}

ResolveArg(acc, i) ==
    LET p == Lookup(alive, tree[here].parent, Ref(i + 1), NoPath)
        inside == here \in ToSet(Ancestors(tree, NodeOf(tree, alive, p)))
        q == Lookup(alive, tree[here].parent, Ref(i + 1), p)
    IN IF acc.rc # "OK" THEN acc
       ELSE IF p = NoPath THEN [acc EXCEPT !.rc = "ENOENT"]
       ELSE IF Freed(p) THEN [acc EXCEPT !.rc = "freed"]
       ELSE IF ~inside THEN [acc EXCEPT !.datums[i] = p]
       ELSE IF q = NoPath THEN [acc EXCEPT !.datums[i] = NoPath, !.detached = @ \cup {p}, !.rc = "ENOENT"]
       ELSE [acc EXCEPT !.datums[i] = q]

cil_resolve_call_args ==
    /\ Visiting("CALL2", "call")
    /\ LET acc == FoldLeft(ResolveArg, [datums |-> tree[here].datums, detached |-> detached, rc |-> "OK"],
                           [i \in DOMAIN tree[here].datums |-> i])
       IN /\ tree' = [tree EXCEPT ![here].datums = acc.datums]
          /\ detached' = acc.detached
          /\ \/ acc.rc = "OK" /\ Continue(tree, alive)
             \/ acc.rc = "ENOENT" /\ NotFound
             \/ acc.rc = "freed" /\ status' = "undefined" /\ UNCHANGED <<pass, todo, disabled_optional, to_destroy>>
          /\ UNCHANGED <<alive, bi_nodes, abstract, marked, actual, expr_list>>

-----------------------------------------------------------------------------
(***************************************************************************)
(* Aliases, sets and the statements that only hold references.             *)
(***************************************************************************)
Bind(f, p, v) == [q \in DOMAIN f \cup {p} |-> IF q = p THEN v ELSE f[q]]

cil_resolve_aliasactual ==
    /\ Visiting("ALIAS1", "aliasactual")
    /\ LET alias == cil_resolve_name_keep_aliases(alive, here, Ref(1))
           value == cil_resolve_name(alive, here, Ref(2))
           good == /\ Is(alias, "alias") /\ (Is(value, "type") \/ Is(value, "alias"))
                   /\ alias \notin DOMAIN actual
       IN \/ (alias = NoPath \/ (Is(alias, "alias") /\ value = NoPath)) /\ SEPOL_ENOENT
          \/ alias # NoPath /\ (~Is(alias, "alias") \/ value # NoPath) /\ ~good /\ SEPOL_ERR
          \/ /\ good
             /\ tree' = [tree EXCEPT ![here].datums = <<alias, value>>]
             /\ actual' = Bind(actual, alias, value)
             /\ Continue(tree, alive)
             /\ UNCHANGED <<alive, bi_nodes, abstract, marked, expr_list, detached>>

\* What an alias stands for in the end: itself if it is unbound, one of a circle
\* if there is one.
EndOf(p) ==
    LET chain[i \in 0 .. Cardinality(DOMAIN actual)] ==
            IF i = 0 THEN p
            ELSE IF chain[i - 1] \in DOMAIN actual THEN actual[chain[i - 1]] ELSE chain[i - 1]
    IN chain[Cardinality(DOMAIN actual)]

cil_resolve_alias_to_actual ==
    /\ Visiting("ALIAS2", "alias")
    /\ LET end == EndOf(tree[here].data)
       IN \/ ~Is(end, "type") /\ SEPOL_ERR
          \/ /\ Is(end, "type")
             /\ actual' = Bind(actual, tree[here].data, end)
             /\ Continue(tree, alive)
             /\ UNCHANGED <<tree, alive, bi_nodes, abstract, marked, expr_list, detached>>

\* What a statement that cannot be resolved has already found is left out: it
\* is destroyed with its optional.
Found == [i \in DOMAIN tree[here].refs |-> cil_resolve_name(alive, here, Ref(i))]

ResolveUse ==
    /\ Visiting("MISC1", "order") \/ Visiting("MISC3", "use")
    /\ \/ NoPath \in ToSet(Found) /\ SEPOL_ENOENT
       \/ /\ NoPath \notin ToSet(Found)
          /\ tree' = [tree EXCEPT ![here].datums = Found]
          /\ Continue(tree, alive)
          /\ UNCHANGED <<alive, bi_nodes, abstract, marked, actual, expr_list, detached>>

cil_resolve_typeattributeset ==
    /\ Visiting("MISC3", "set")
    /\ \/ (Found[1] = NoPath \/ (Is(Found[1], "attribute") /\ NoPath \in ToSet(Found))) /\ SEPOL_ENOENT
       \/ Found[1] # NoPath /\ ~Is(Found[1], "attribute") /\ SEPOL_ERR
       \/ /\ NoPath \notin ToSet(Found) /\ Is(Found[1], "attribute")
          /\ tree' = [tree EXCEPT ![here].datums = Found]
          /\ expr_list' = AddTo(expr_list, Found[1], here)
          /\ Continue(tree, alive)
          /\ UNCHANGED <<alive, bi_nodes, abstract, marked, actual, detached>>

-----------------------------------------------------------------------------
(***************************************************************************)
(* The end of a pass.                                                      *)
(***************************************************************************)
RECURSIVE cil_check_inheritances(_, _, _)
\* The blockinherits met below n, with what they would copy; above `max' if
\* the blocks on the stack are met again.
cil_check_inheritances(n, stack, max) ==
    LET bi == n # 0 /\ tree[n].flavor = "blockinherit"
        block == NodeOf(tree, alive, tree[n].target)
        copied == IF ~bi \/ tree[n].target = NoPath THEN 0
                  ELSE IF block \in stack THEN max + 1
                  ELSE cil_check_inheritances(block, stack \cup {block}, max)
    IN (IF bi THEN 1 ELSE 0) + copied
       + FoldLeft(LAMBDA c, k : c + cil_check_inheritances(k, stack, max), 0, Children(tree, alive, n))

cil_check_for_bad_inheritance ==
    LET num_actual == Cardinality({m \in alive : tree[m].flavor = "blockinherit"})
        max == IF num_actual * Growth < Minimum THEN Minimum ELSE num_actual * Growth
    IN cil_check_inheritances(0, {}, max) > max

\* cil_mark_subtree_abstract: blocks directly in blocks
Abstracted == {tree[m].data : m \in {k \in alive :
                 /\ tree[k].flavor = "block"
                 /\ \E b \in ToSet(Ancestors(tree, k)) \cap marked :
                       \A j \in ToSet(Ancestors(tree, k)) : j > b => tree[j].flavor = "block"}}

\* Mutant: nothing is destroyed.
NothingDestroyed(S) == {}

Destroyed(S) == Below(tree, alive, S)

\* Mutant: a blockinherit is freed and stays in its block's list.
StillLinked(dead) == bi_nodes

\* cil_destroy_blockinherit
Unlinked(dead) == [p \in DOMAIN bi_nodes |-> SelectSeq(bi_nodes[p], LAMBDA n : n \notin dead)]

\* cil_reset_ast; the other statements are overwritten when resolved again
ResetTree == [n \in DOMAIN tree |-> IF tree[n].flavor \in {"order", "set"}
                                    THEN [tree[n] EXCEPT !.datums = <<>>] ELSE tree[n]]
ResetActual == <<>>

\* Mutant: attributes keep the expressions of the last round.
KeepExprList == expr_list
ResetExprList == <<>>

\* The optionals that are disabled are emptied; after CALL1 the passes from
\* CALL2 on start again.  cil_tree_subtree_has_decl is asked for the optional
\* itself and always answers yes.
Again == to_destroy # {} /\ After(pass, "CALL1")

\* Mutant: the aliases are not bound again.
NextPassLate == IF Again THEN "MISC1" ELSE IF pass = "MISC3" THEN pass ELSE Passes[PassNo(pass) + 1]

NextPass == IF Again THEN "CALL2" ELSE IF pass = "MISC3" THEN pass ELSE Passes[PassNo(pass) + 1]

EndPass ==
    /\ status = "running" /\ todo = <<>>
    /\ ~(pass = "BLKIN_LINK" /\ cil_check_for_bad_inheritance)
    /\ LET dead == Destroyed(to_destroy)
           done == pass = "MISC3" /\ ~Again
       IN /\ alive' = alive \ dead
          /\ bi_nodes' = Unlinked(dead)
          /\ status' = IF done THEN "resolved" ELSE status
          /\ todo' = IF done THEN <<>> ELSE Visits(tree, alive', 0)
    /\ tree' = IF Again THEN ResetTree ELSE tree
    /\ actual' = IF Again THEN ResetActual ELSE actual
    /\ expr_list' = IF Again THEN ResetExprList ELSE expr_list
    /\ abstract' = IF pass = "BLKABS" THEN abstract \cup Abstracted ELSE abstract
    /\ pass' = NextPass
    /\ to_destroy' = {}
    /\ UNCHANGED <<marked, detached, disabled_optional>>

BadInheritance ==
    /\ status = "running" /\ todo = <<>>
    /\ pass = "BLKIN_LINK" /\ cil_check_for_bad_inheritance
    /\ SEPOL_ERR

Next ==
    \/ PassOver \/ Refuse \/ LeaveOptional
    \/ cil_resolve_blockinherit_link \/ cil_resolve_blockinherit_copy \/ cil_resolve_blockabstract
    \/ cil_resolve_call \/ cil_resolve_call_args
    \/ cil_resolve_aliasactual \/ cil_resolve_alias_to_actual
    \/ ResolveUse \/ cil_resolve_typeattributeset
    \/ EndPass \/ BadInheritance

Spec == Init /\ [][Next]_vars

\* Weak fairness of Next, which is enabled exactly while the status is "running".
FairSpec == Spec /\ ([]<>(status # "running") \/ []<><<Next>>_vars)

-----------------------------------------------------------------------------
(***************************************************************************)
(* Properties.                                                             *)
(***************************************************************************)
Types == {"type", "attribute"}

\* The statements that the passes resolve: not in a macro, not in an abstract block.
Active(n) ==
    \A k \in ToSet(Ancestors(tree, n)) :
        tree[k].flavor # "macro" /\ ~(tree[k].flavor = "block" /\ tree[k].data \in abstract)

Holding == {"use", "order", "set"}

\* After cil_resolve_ast every reference is what a lookup in the final tree
\* finds, a declaration that is still there: disabling an optional, which may
\* uncover another declaration of a name, leaves nothing of earlier rounds.
ReferencesCurrent ==
    status = "resolved" => \A n \in alive : Active(n) =>
        /\ tree[n].flavor \in Holding =>
              /\ tree[n].datums = [i \in DOMAIN tree[n].refs |-> cil_resolve_name(alive, n, tree[n].refs[i])]
              /\ \A p \in ToSet(tree[n].datums) : Declared(tree, alive, p) /\ FlavorOf(tree, alive, p) \in Types
        /\ tree[n].flavor = "call" =>
              \A i \in DOMAIN tree[n].datums : tree[n].datums[i] # NoPath /\ tree[n].datums[i] = FreshArg(alive, n, i)

\* Every attribute's list holds the statements that set it, each once, however
\* often the passes were repeated.
ExprListsExact ==
    status = "resolved" =>
        \A p \in {tree[n].data : n \in alive} :
            /\ IsInjective(ListOf(expr_list, p))
            /\ ToSet(ListOf(expr_list, p)) =
                 {n \in alive : tree[n].flavor = "set" /\ Active(n) /\ tree[n].datums[1] = p}

\* block->bi_nodes lists the blockinherits of the block that are in the tree,
\* copied ones included, each once.
BiNodesLive ==
    \A p \in {tree[n].target : n \in DOMAIN tree} \cup DOMAIN bi_nodes :
        /\ IsInjective(ListOf(bi_nodes, p))
        /\ ToSet(ListOf(bi_nodes, p)) =
             IF p = NoPath THEN {}
             ELSE {n \in alive : tree[n].flavor = "blockinherit" /\ tree[n].target = p}

\* The node of the source that a node is a copy of.
SourceOf(n) == LET from[k \in DOMAIN tree] == IF tree[k].origin = 0 THEN k ELSE from[tree[k].origin] IN from[n]

\* Whatever the order of blocks, of the blocks they inherit and of the copies of
\* blockinherits, each blockinherit gets every statement of its block once; only
\* blockabstracts, and macros that are there already, are left out.
InheritedOnce ==
    status = "resolved" => \A n \in alive : tree[n].flavor = "blockinherit" =>
        LET got == Children(tree, alive, n)
            from == [i \in DOMAIN got |-> SourceOf(got[i])]
            block == ToSet(Children(tree, alive, NodeOf(tree, alive, tree[n].target)))
        IN /\ IsInjective(from)
           /\ ToSet(from) \subseteq {SourceOf(m) : m \in block}
           /\ \A m \in block : SourceOf(m) \in ToSet(from) \/ tree[m].flavor \in {"blockabstract", "macro"}

\* What is left when only the optionals in S, and those nobody resolves, are kept.
Kept(S) == {n \in DOMAIN tree : \A o \in ToSet(Ancestors(tree, tree[n].parent)) :
                                   tree[o].flavor = "optional" => o \in S \/ ~Active(o)}

Resolves(A, n) ==
    CASE tree[n].flavor = "blockinherit" -> tree[n].target # NoPath
      [] tree[n].flavor = "call" -> /\ tree[n].target # NoPath
                                    /\ \A i \in DOMAIN tree[n].datums : FreshArg(A, n, i) # NoPath
      [] tree[n].flavor \in Holding \cup {"aliasactual"} ->
            \A i \in DOMAIN tree[n].refs : cil_resolve_name_keep_aliases(A, n, tree[n].refs[i]) # NoPath
      [] OTHER -> TRUE

\* No optional is disabled needlessly: any choice of optionals whose statements
\* would all resolve is among those kept, whatever the order of the passes in
\* which the others failed.
OptionalsGreatest ==
    status = "resolved" =>
        \A S \in SUBSET {n \in DOMAIN tree : tree[n].flavor = "optional" /\ Active(n)} :
            LET left == Kept(S)
            IN (\A n \in left : Active(n) => Resolves(left, n)) => left \subseteq alive

\* Emptying optionals and resolving again comes to an end.
Terminates == <>(status # "running")
=============================================================================
