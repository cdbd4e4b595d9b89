----------------------------- MODULE CondPolicy -----------------------------
(***************************************************************************)
(* Expansion of access vector and type rules into the two rule tables of   *)
(* a kernel policy (expand.c), and the conditional rules' life afterwards: *)
(* evaluate_conds when the expansion ends and sepol_bool_set from then on  *)
(* (conditional.c, booleans.c).                                            *)
(*                                                                         *)
(* te_avtab and te_cond_avtab map a key to the sequence of nodes with that *)
(* key, in the order avtab_search_node and avtab_search_node_next walk     *)
(* them: avtab_insert_nonunique puts a new node first.  A conditional rule *)
(* list is named by its owner <<c, branch>>, c being the conditional's     *)
(* place in the order of creation; it is the node's parse_context, and     *)
(* membership of the list is owner equality (the order inside a list, and  *)
(* cond_optimize_lists which changes only that, are left out).             *)
(*                                                                         *)
(* The source policy is a choice made step by step: blocks hold rules and  *)
(* conditionals and are expanded one after the other, so any sequence of   *)
(* the two can occur.                                                      *)
(***************************************************************************)
EXTENDS CondExpr

CONSTANTS Types, Classes, Perms, Drivers,  \* of the policy
          Rules,              \* avrule_t's, with their type sets expanded
          Conds,              \* conditionals: [expr, avtrue, avfalse]
          DisableDontaudit,   \* sepol_handle_t.disable_dontaudit
          MaxSources,         \* bound: rules and conditionals expanded
          NoOwner             \* parse_context of an unconditional node

TypeSpecs  == {"transition", "member", "change"}
AVSpecs    == {"allowed", "auditallow", "auditdeny"}
XpermSpecs == {"xallowed", "xauditallow", "xdontaudit"}
AvtabSpecs == TypeSpecs \cup AVSpecs \cup XpermSpecs
RuleSpecs  == AvtabSpecs \cup {"dontaudit", "neverallow"}

\* What a rule or a node of a given kind carries: a type, the permissions of
\* one driver (av_extended_perms_t, its `specified' being part of the driver),
\* or an access vector.
DataOf(spec) == IF spec \in TypeSpecs THEN Types
                ELSE IF spec \in XpermSpecs THEN [driver : Drivers, perms : SUBSET Perms]
                ELSE SUBSET Perms

avrule_to_avtab_spec(s) == IF s = "dontaudit" THEN "auditdeny" ELSE s

\* A rule: its pairs are the (source, target) types in the order in which
\* expand_rule_helper visits them, its perms the class_perm_node_t list.
WellFormedRule(r) ==
    /\ r.spec \in RuleSpecs
    /\ r.pairs \in Seq(Types \X Types)
    /\ r.perms \in Seq([tclass : Classes, data : DataOf(r.spec)])
    /\ r.perms # <<>>

WellFormedCond(c) ==
    /\ c.expr \in Expr
    /\ c.expr # NoOwner
    /\ validate_cond_expr(c.expr)
    /\ c.avtrue \in Seq(Rules)
    /\ c.avfalse \in Seq(Rules)

ASSUME RulesAssumption == \A r \in Rules : WellFormedRule(r)
ASSUME CondsAssumption == \A c \in Conds : WellFormedCond(c)
ASSUME OwnerAssumption == NoOwner \notin (Nat \X {"true", "false"})

\* The avtab keys the rules lead to.
KeyOf(r, pair, item) == [spec |-> avrule_to_avtab_spec(r.spec),
                         source |-> pair[1], target |-> pair[2], tclass |-> item.tclass]
Keys == UNION {{KeyOf(r, r.pairs[p], r.perms[i]) : p \in DOMAIN r.pairs, i \in DOMAIN r.perms}
               : r \in {r \in Rules : r.spec # "neverallow"}}

expand_rule_helper(stypes, ttypes, self) ==
    FlattenSeq([i \in DOMAIN stypes |->
        (IF self THEN << <<stypes[i], stypes[i]>> >> ELSE <<>>)
            \o [j \in DOMAIN ttypes |-> <<stypes[i], ttypes[j]>>]])

-----------------------------------------------------------------------------
VARIABLES te_avtab,       \* [Keys -> Seq(Node)], unconditional rules
          te_cond_avtab,  \* [Keys -> Seq(Node)], conditional rules
          cond_list,      \* Seq([expr, cur_state]), in order of creation
          bools,          \* the state of each boolean
          todo,           \* rules still to expand, with their destination
          pos,            \* pair and class reached in Head(todo)
          status,         \* "expanding", "failed" or "expanded"
          given           \* the rules and conditionals taken from the source

vars == <<te_avtab, te_cond_avtab, cond_list, bools, todo, pos, status, given>>
tables == <<te_avtab, te_cond_avtab>>

Branches == {"true", "false"}
Owners == (Nat \ {0}) \X Branches
Node(spec) == [owner : Owners \cup {NoOwner}, enabled : BOOLEAN, data : DataOf(spec)]

Lists == (1 .. Len(cond_list)) \X Branches  \* of the existing conditionals

OtherBranch(b) == IF b = "true" THEN "false" ELSE "true"
OtherList(owner) == IF owner = NoOwner THEN NoOwner ELSE <<owner[1], OtherBranch(owner[2])>>

FirstPos == [pair |-> 1, item |-> 1]

Init == /\ te_avtab = [k \in Keys |-> <<>>]
        /\ te_cond_avtab = [k \in Keys |-> <<>>]
        /\ cond_list = <<>>
        /\ bools \in Assignments
        /\ todo = <<>>
        /\ pos = FirstPos
        /\ status = "expanding"
        /\ given = <<>>

-----------------------------------------------------------------------------
(***************************************************************************)
(* The rule tables.                                                        *)
(***************************************************************************)
\* The first of a set of places in a sequence of nodes, 0 when there is none.
First(places) == IF places = {} THEN 0
                 ELSE CHOOSE i \in places : \A j \in places : i <= j

\* Mutant: an unconditional search takes the first node whatever its driver.
find_avtab_node_AnyDriver(nodes, spec, cond, data) ==
    IF cond = NoOwner THEN First(DOMAIN nodes)
    ELSE First({i \in DOMAIN nodes : nodes[i].owner = cond})

\* find_avtab_node, the search: for extended permissions the first node of the
\* same driver, otherwise the first node; for a conditional rule the search
\* goes on from there to the first node of the rule's own list.
find_avtab_node(nodes, spec, cond, data) ==
    LET start == First({i \in DOMAIN nodes :
                            spec \in XpermSpecs => nodes[i].data.driver = data.driver})
    IN IF cond = NoOwner \/ start = 0 THEN start
       ELSE First({i \in DOMAIN nodes : i >= start /\ nodes[i].owner = cond})

\* Mutant: an auditdeny vector starts empty like the others.
FreshDatum_AllEmpty(spec, data) == IF spec \in AVSpecs THEN {} ELSE data

\* The datum of a node created for a rule, before the rule is applied to it.
FreshDatum(spec, data) ==
    CASE spec = "auditdeny" -> Perms
      [] spec \in {"allowed", "auditallow"} -> {}
      [] OTHER -> data

\* How a rule changes the datum of the node that was found.
MergeDatum(rulespec, old, data) ==
    CASE rulespec \in {"allowed", "auditallow"} -> old \cup data
      [] rulespec = "dontaudit" -> old \ data
      [] rulespec = "auditdeny" -> old \cap data
      [] rulespec \in XpermSpecs -> [driver |-> data.driver, perms |-> old.perms \cup data.perms]
      [] OTHER -> data

InsertFirst(n, nodes) ==
    [i \in 1 .. Len(nodes) + 1 |-> IF i = 1 THEN n ELSE nodes[i - 1]]

\* The nodes of a key after one class of a rule was added to its table.
Store(nodes, rulespec, cond, enabled, data) ==
    LET spec == avrule_to_avtab_spec(rulespec)
        i    == find_avtab_node(nodes, spec, cond, data)
        New(old) == [owner |-> cond, enabled |-> enabled,
                     data |-> MergeDatum(rulespec, old, data)]
    IN IF i = 0 THEN InsertFirst(New(FreshDatum(spec, data)), nodes)
                ELSE [nodes EXCEPT ![i] = New(nodes[i].data)]

-----------------------------------------------------------------------------
(***************************************************************************)
(* Taking the next rule or conditional of the source policy.               *)
(***************************************************************************)
Ready == status = "expanding" /\ todo = <<>> /\ Len(given) < MaxSources

Pending(rules, owner, on) ==
    [i \in DOMAIN rules |-> [rule |-> rules[i], cond |-> owner, enabled |-> on]]

\* An avrule of a block: convert_and_expand_rule into te_avtab.
TakeRule(r) ==
    /\ Ready
    /\ todo' = Pending(<<r>>, NoOwner, FALSE)
    /\ given' = Append(given, [expr |-> NoOwner, avtrue |-> <<r>>, avfalse |-> <<>>])
    /\ UNCHANGED <<tables, cond_list, bools, pos, status>>

\* cond_node_search for a normalised conditional: the newest matching
\* conditional, or the index of the one to be created.
Matching(e) == {i \in DOMAIN cond_list : cond_expr_equal(e, cond_list[i].expr)}
cond_node_search(e) ==
    IF Matching(e) = {} THEN Len(cond_list) + 1
    ELSE CHOOSE i \in Matching(e) : \A j \in Matching(e) : j <= i

Normal(e) == StripNot(StripNot(e))

\* cond_node_copy: the conditional of the source is normalised (its lists
\* exchanged if it was negated), its copy is normalised once more by
\* cond_node_map_bools, and the rules go to the conditional found or created.
cond_node_copy(c) ==
    /\ Ready
    /\ LET e     == Normal(c.expr)
           i     == cond_node_search(e)
           list  == IF i > Len(cond_list)
                    THEN Append(cond_list, [expr |-> e, cur_state |-> cond_evaluate_expr(bools, e)])
                    ELSE cond_list
           state == list[i].cur_state
           t     == IF Negated(c.expr) THEN c.avfalse ELSE c.avtrue
           f     == IF Negated(c.expr) THEN c.avtrue ELSE c.avfalse
       IN /\ cond_list' = list
          /\ todo' = Pending(t, <<i, "true">>, state # 0) \o Pending(f, <<i, "false">>, state = 0)
    /\ given' = Append(given, c)
    /\ UNCHANGED <<tables, bools, pos, status>>

-----------------------------------------------------------------------------
(***************************************************************************)
(* Expanding the rule at the head of todo, one class of one pair a step.   *)
(***************************************************************************)
Task == Head(todo)
Busy == status = "expanding" /\ todo # <<>>

\* Rules that convert_and_expand_rule or expand_avrule_helper pass over.
Skipped(r) == \/ r.spec = "neverallow"
              \/ DisableDontaudit /\ r.spec \in {"dontaudit", "xdontaudit"}

AtItem == Busy /\ ~Skipped(Task.rule) /\ pos.pair <= Len(Task.rule.pairs)
Item == Task.rule.perms[pos.item]
TaskKey == KeyOf(Task.rule, Task.rule.pairs[pos.pair], Item)

NextPair == [pair |-> pos.pair + 1, item |-> 1]
\* Mutant: the class loop runs one class too far.
NextItem_OneMore == IF pos.item <= Len(Task.rule.perms) THEN [pos EXCEPT !.item = @ + 1] ELSE NextPair

NextItem == IF pos.item < Len(Task.rule.perms) THEN [pos EXCEPT !.item = @ + 1] ELSE NextPair

FinishRule ==
    /\ Busy
    /\ Skipped(Task.rule) \/ pos.pair > Len(Task.rule.pairs)
    /\ todo' = Tail(todo)
    /\ pos' = FirstPos
    /\ UNCHANGED <<tables, cond_list, bools, status, given>>

StoreItem ==
    LET k == TaskKey
        Stored(nodes) == Store(nodes, Task.rule.spec, Task.cond, Task.enabled, Item.data)
    IN IF Task.cond = NoOwner
       THEN /\ te_avtab' = [te_avtab EXCEPT ![k] = Stored(@)]
            /\ UNCHANGED te_cond_avtab
       ELSE /\ te_cond_avtab' = [te_cond_avtab EXCEPT ![k] = Stored(@)]
            /\ UNCHANGED te_avtab

\* expand_avrule_helper
expand_avrule_helper ==
    /\ AtItem
    /\ Task.rule.spec \notin TypeSpecs
    /\ StoreItem
    /\ pos' = NextItem
    /\ UNCHANGED <<cond_list, bools, todo, status, given>>

\* Mutants: only one of the two tables is searched.
Obstacle_OnlyUnconditional(k, owner) == te_avtab[k]
Obstacle_OnlyConditional(k, owner) ==
    IF te_cond_avtab[k] # <<>> /\ te_cond_avtab[k][1].owner # OtherList(owner)
    THEN te_cond_avtab[k] ELSE <<>>

\* expand_terule_helper: the existing node a type rule is held against, if any.
\* A first node that belongs to the other branch is no obstacle.
Obstacle(k, owner) ==
    IF te_avtab[k] # <<>> THEN te_avtab[k]
    ELSE IF te_cond_avtab[k] # <<>> /\ te_cond_avtab[k][1].owner # OtherList(owner)
    THEN te_cond_avtab[k]
    ELSE <<>>

\* Mutant: a rule found in another scope counts as a duplicate.
Duplicate_AnyScope(k, owner, data) ==
    LET o == Obstacle(k, owner) IN o # <<>> /\ o[1].data = data

Duplicate(k, owner, data) ==
    LET o == Obstacle(k, owner) IN o # <<>> /\ o[1].data = data /\ o[1].owner = owner

AtTypeItem == AtItem /\ Task.rule.spec \in TypeSpecs

expand_terule_helper ==
    /\ AtTypeItem
    /\ Obstacle(TaskKey, Task.cond) = <<>>
    /\ StoreItem
    /\ pos' = NextItem
    /\ UNCHANGED <<cond_list, bools, todo, status, given>>

\* A duplicate in the same scope ends the call: the remaining classes of the
\* pair are not looked at.
DuplicateTypeRule ==
    /\ AtTypeItem
    /\ Duplicate(TaskKey, Task.cond, Item.data)
    /\ pos' = NextPair
    /\ UNCHANGED <<tables, cond_list, bools, todo, status, given>>

\* A conflicting rule, or a duplicate in another scope, fails the expansion.
ConflictingTypeRule ==
    /\ AtTypeItem
    /\ Obstacle(TaskKey, Task.cond) # <<>>
    /\ ~Duplicate(TaskKey, Task.cond, Item.data)
    /\ status' = "failed"
    /\ UNCHANGED <<tables, cond_list, bools, todo, pos, given>>

\* A node cannot be allocated (find_avtab_node returns NULL).
OutOfMemory ==
    /\ AtItem
    /\ status' = "failed"
    /\ UNCHANGED <<tables, cond_list, bools, todo, pos, given>>

-----------------------------------------------------------------------------
(***************************************************************************)
(* evaluate_conds: a conditional's rules are switched only when its state  *)
(* changed.  An undefined result (-1) disables both lists.                 *)
(***************************************************************************)
Enables(branch, state) == IF branch = "true" THEN state \notin {0, Undefined} ELSE state = 0

\* Mutant: only the list that becomes active is switched.
evaluate_conds_KeepsOld(val) ==
    LET new == [i \in DOMAIN cond_list |-> cond_evaluate_expr(val, cond_list[i].expr)]
        Switch(n) == IF n.owner # NoOwner /\ Enables(n.owner[2], new[n.owner[1]])
                     THEN [n EXCEPT !.enabled = TRUE] ELSE n
    IN /\ cond_list' = [i \in DOMAIN cond_list |-> [cond_list[i] EXCEPT !.cur_state = new[i]]]
       /\ te_cond_avtab' = [k \in Keys |->
                [j \in DOMAIN te_cond_avtab[k] |-> Switch(te_cond_avtab[k][j])]]

evaluate_conds(val) ==
    LET new == [i \in DOMAIN cond_list |-> cond_evaluate_expr(val, cond_list[i].expr)]
        Switch(n) == IF n.owner # NoOwner /\ new[n.owner[1]] # cond_list[n.owner[1]].cur_state
                     THEN [n EXCEPT !.enabled = Enables(n.owner[2], new[n.owner[1]])]
                     ELSE n
    IN /\ cond_list' = [i \in DOMAIN cond_list |-> [cond_list[i] EXCEPT !.cur_state = new[i]]]
       /\ te_cond_avtab' = [k \in Keys |->
                [j \in DOMAIN te_cond_avtab[k] |-> Switch(te_cond_avtab[k][j])]]

\* The end of expand_module.
FinishExpansion ==
    /\ status = "expanding"
    /\ todo = <<>>
    /\ evaluate_conds(bools)
    /\ status' = "expanded"
    /\ UNCHANGED <<te_avtab, bools, todo, pos, given>>

\* sepol_bool_set: bool_update, then evaluate_conds.  (bool_update returns an
\* error and changes nothing for an unknown name or a value other than 0 and 1.)
sepol_bool_set(b, v) ==
    /\ status = "expanded"
    /\ bools' = [bools EXCEPT ![b] = v]
    /\ evaluate_conds(bools')
    /\ UNCHANGED <<te_avtab, todo, pos, status, given>>

Next == \/ \E r \in Rules : TakeRule(r)
        \/ \E c \in Conds : cond_node_copy(c)
        \/ FinishRule
        \/ expand_avrule_helper
        \/ expand_terule_helper
        \/ DuplicateTypeRule
        \/ ConflictingTypeRule
        \/ OutOfMemory
        \/ FinishExpansion
        \/ \E b \in Bools, v \in States : sepol_bool_set(b, v)

Spec == Init /\ [][Next]_vars

-----------------------------------------------------------------------------
(***************************************************************************)
(* What the tables decide: context_struct_compute_av with cond_compute_av, *)
(* and the type rule lookup of context_struct_compute_sid.                 *)
(***************************************************************************)
EnabledNodes(k) == ToSet(te_avtab[k]) \cup {n \in ToSet(te_cond_avtab[k]) : n.enabled}

ComputedVector(k) == UNION {n.data : n \in EnabledNodes(k)}
ComputedAuditdeny(k) == {p \in Perms : \A n \in EnabledNodes(k) : p \in n.data}

TypeLookup(k) ==
    IF te_avtab[k] # <<>> THEN {te_avtab[k][1].data}
    ELSE LET i == First({j \in DOMAIN te_cond_avtab[k] : te_cond_avtab[k][j].enabled})
         IN IF i = 0 THEN {} ELSE {te_cond_avtab[k][i].data}

(***************************************************************************)
(* What the source policy asks for under the present booleans.             *)
(***************************************************************************)
BranchOf(val, g) ==
    IF g.expr = NoOwner THEN g.avtrue
    ELSE IF cond_evaluate_expr(val, g.expr) = 1 THEN g.avtrue ELSE g.avfalse
ActiveRules == {r \in UNION {ToSet(BranchOf(bools, given[i])) : i \in DOMAIN given} : ~Skipped(r)}

Prescribed(rulespec, k) ==
    UNION {{r.perms[i].data : i \in {j \in DOMAIN r.perms :
                \E p \in DOMAIN r.pairs : KeyOf(r, r.pairs[p], r.perms[j]) = k}}
           : r \in {r \in ActiveRules : r.spec = rulespec}}

TypeKeys == {k \in Keys : k.spec \in TypeSpecs}

-----------------------------------------------------------------------------
(***************************************************************************)
(* Properties.                                                             *)
(***************************************************************************)
\* Every node carries the kind of datum its key calls for, every conditional
\* node belongs to a list of an existing conditional, and the cursor stays
\* inside the rule being expanded (the loops of expand.c over pairs and classes).
TypeOK ==
    /\ DOMAIN te_avtab = Keys /\ DOMAIN te_cond_avtab = Keys
    /\ \A k \in Keys : /\ te_avtab[k] \in Seq(Node(k.spec))
                       /\ te_cond_avtab[k] \in Seq(Node(k.spec))
                       /\ \A i \in DOMAIN te_cond_avtab[k] :
                             te_cond_avtab[k][i].owner \in Lists
    /\ cond_list \in Seq([expr : Expr, cur_state : States \cup {Undefined}])
    /\ bools \in Assignments
    /\ todo \in Seq([rule : Rules, cond : Lists \cup {NoOwner}, enabled : BOOLEAN])
    /\ pos \in [pair : Nat \ {0}, item : Nat \ {0}]
    /\ todo = <<>> => pos = FirstPos
    /\ todo # <<>> => pos.item <= Len(Task.rule.perms)
    /\ status \in {"expanding", "failed", "expanded"}

\* For every type rule key at most one rule is in force, whatever the booleans
\* are: expand_terule_helper must not admit a second one in another conditional,
\* in the same branch or outside conditionals (the kernel uses the first it meets).
TypeRulesUnambiguous ==
    \A k \in TypeKeys :
        /\ Len(te_avtab[k]) <= 1
        /\ \A i, j \in DOMAIN te_cond_avtab[k] :
              te_cond_avtab[k][i].enabled /\ te_cond_avtab[k][j].enabled => i = j
        /\ te_avtab[k] # <<>> => \A i \in DOMAIN te_cond_avtab[k] : ~te_cond_avtab[k][i].enabled

\* What makes TypeRulesUnambiguous inductive.  The conditional rules of a type
\* key belong to one conditional, at most one to each branch; an unconditional
\* rule excludes them.  A rule is enabled, or waits to be added as enabled, just
\* when it is on the branch its conditional's cur_state selects, and cur_state is
\* the value of the conditional's expression, which is valid and so has one.
OneConditional ==
    \A k \in TypeKeys :
        /\ Len(te_avtab[k]) <= 1
        /\ te_avtab[k] # <<>> => te_cond_avtab[k] = <<>>
        /\ \A i, j \in DOMAIN te_cond_avtab[k] :
              /\ te_cond_avtab[k][i].owner[1] = te_cond_avtab[k][j].owner[1]
              /\ te_cond_avtab[k][i].owner = te_cond_avtab[k][j].owner => i = j

Selected(list, owner) == owner[2] = "false" <=> list[owner[1]].cur_state = 0

FlagsFollowStates ==
    /\ \A k \in Keys : \A i \in DOMAIN te_cond_avtab[k] :
          te_cond_avtab[k][i].enabled <=> Selected(cond_list, te_cond_avtab[k][i].owner)
    /\ \A i \in DOMAIN todo :
          todo[i].cond # NoOwner => (todo[i].enabled <=> Selected(cond_list, todo[i].cond))
    /\ status = "expanded" => todo = <<>>

StatesCurrent ==
    \A i \in DOMAIN cond_list :
        /\ validate_cond_expr(cond_list[i].expr)
        /\ cond_list[i].cur_state = cond_evaluate_expr(bools, cond_list[i].expr)

Inv == TypeOK /\ OneConditional /\ FlagsFollowStates /\ StatesCurrent

\* After the expansion, and after every sepol_bool_set, exactly the rules of the
\* branch chosen by the present booleans are enabled, although
\* evaluate_cond_node leaves the flags alone when cur_state did not change.
FlagsAgree ==
    status = "expanded" =>
        \A k \in Keys : \A i \in DOMAIN te_cond_avtab[k] :
            LET n == te_cond_avtab[k][i]
            IN n.enabled = Enables(n.owner[2],
                                   cond_evaluate_expr(bools, cond_list[n.owner[1]].expr))

\* The access vectors computed from the tables are those of the source rules
\* in force: allow and auditallow accumulate, dontaudit and auditdeny mask,
\* across merged conditionals, branches and exchanged branches.
AccessMatchesSource ==
    status = "expanded" =>
        \A k \in Keys :
            /\ k.spec \in {"allowed", "auditallow"} =>
                  ComputedVector(k) = UNION Prescribed(k.spec, k)
            /\ k.spec = "auditdeny" =>
                  ComputedAuditdeny(k) =
                    {p \in Perms : /\ \A d \in Prescribed("dontaudit", k) : p \notin d
                                   /\ \A d \in Prescribed("auditdeny", k) : p \in d}

\* The extended permissions of the enabled nodes are those of the source rules
\* in force, driver by driver (find_avtab_node: "AVTAB_XPERMS entries are not
\* necessarily unique", the right one is to be found or created).
XpermsOf(data) == UNION {{d.driver} \X d.perms : d \in data}
XpermsMatchSource ==
    status = "expanded" =>
        \A k \in Keys : k.spec \in XpermSpecs =>
            XpermsOf({n.data : n \in EnabledNodes(k)}) = XpermsOf(Prescribed(k.spec, k))

(***************************************************************************)
(* What makes the two inductive.  A mark is a permission that a vector     *)
(* differs in from a fresh one: granted, or masked from auditing; the mark *)
(* of a type rule only says that there is one.  For every assignment of    *)
(* the booleans, not only the present one, the marks of the nodes in force *)
(* and of the rules in force that still wait are those of the source; and  *)
(* of the rule at the head of todo all items before the cursor have their  *)
(* marks in its own list.                                                  *)
(***************************************************************************)
TypeMark(spec) == <<spec>>
Marks(spec, data) ==
    CASE spec \in XpermSpecs -> {data.driver} \X data.perms
      [] spec \in TypeSpecs -> {TypeMark(spec)}
      [] spec = "auditdeny" -> Perms \ data
      [] OTHER -> data
AllMarks == Perms \cup (Drivers \X Perms) \cup {TypeMark(s) : s \in TypeSpecs}

AVKeys == {k \in Keys : k.spec \in AVSpecs}
XpermKeys == {k \in Keys : k.spec \in XpermSpecs}

InForce(val, owner) ==
    owner = NoOwner \/ (owner[2] = "true" <=> cond_evaluate_expr(val, cond_list[owner[1]].expr) = 1)

HoldsIn(nodes, spec, owner, x) ==
    \E i \in DOMAIN nodes : /\ owner # NoOwner => nodes[i].owner = owner
                            /\ x \in Marks(spec, nodes[i].data)
HoldsMark(owner, k, x) ==
    HoldsIn(IF owner = NoOwner THEN te_avtab[k] ELSE te_cond_avtab[k], k.spec, owner, x)

AsksMark(r, k, x) ==
    /\ ~Skipped(r)
    /\ \E p \in DOMAIN r.pairs, i \in DOMAIN r.perms :
          KeyOf(r, r.pairs[p], r.perms[i]) = k /\ x \in Marks(r.spec, r.perms[i].data)

StoredMark(val, k, x) ==
    \E owner \in Lists \cup {NoOwner} : InForce(val, owner) /\ HoldsMark(owner, k, x)
WaitingMark(val, k, x) ==
    \E t \in DOMAIN todo : InForce(val, todo[t].cond) /\ AsksMark(todo[t].rule, k, x)
SourceMark(val, k, x) ==
    \E i \in DOMAIN given : \E j \in DOMAIN BranchOf(val, given[i]) :
        AsksMark(BranchOf(val, given[i])[j], k, x)

MarksKept(K) ==
    \A val \in Assignments, k \in K, x \in AllMarks :
        StoredMark(val, k, x) \/ WaitingMark(val, k, x) <=> SourceMark(val, k, x)

Before(p, i) == p < pos.pair \/ (p = pos.pair /\ i < pos.item)

ItemsStored(K) ==
    todo # <<>> =>
        LET r == Task.rule IN
        \A p \in DOMAIN r.pairs, i \in DOMAIN r.perms :
            Before(p, i) /\ ~Skipped(r) /\ KeyOf(r, r.pairs[p], r.perms[i]) \in K =>
                \A x \in Marks(r.spec, r.perms[i].data) :
                    HoldsMark(Task.cond, KeyOf(r, r.pairs[p], r.perms[i]), x)

CondsFromSource ==
    /\ \A i \in DOMAIN cond_list : \E c \in Conds : cond_list[i].expr = Normal(c.expr)
    /\ given \in Seq(Conds \cup {[expr |-> NoOwner, avtrue |-> <<r>>, avfalse |-> <<>>] : r \in Rules})

AccessInv == Inv /\ CondsFromSource /\ MarksKept(AVKeys) /\ ItemsStored(AVKeys)

\* Conditionals for which the merging of cond_node_t's is sound: those that
\* cond_expr_equal takes as equal are equivalent (it may err when the booleans
\* come in another order), and no expression ends in two NOTs (the second one
\* is taken off without exchanging the branches).
SoundConds ==
    /\ \A c, d \in Conds : cond_expr_equal(Normal(c.expr), Normal(d.expr)) =>
                              Equivalent(Normal(c.expr), Normal(d.expr))
    /\ \A c \in Conds : ~Negated(c.expr) \/ ~Negated(StripNot(c.expr))

\* Extended permissions need more: the node that a conditional rule finds in its
\* own list may be one of another driver, which find_avtab_node does not look at
\* once it searches for the list.  For one key the conditionals that share a
\* cond_node_t must use one driver; all that is in their lists then does.
RulesOf(c) == ToSet(c.avtrue) \cup ToSet(c.avfalse)
AsksDriver(r, k, driver) ==
    \E p \in DOMAIN r.pairs, i \in DOMAIN r.perms :
        KeyOf(r, r.pairs[p], r.perms[i]) = k /\ r.perms[i].data.driver = driver
OneDriver ==
    \A c, d \in Conds : Equivalent(Normal(c.expr), Normal(d.expr)) =>
        \A r \in RulesOf(c), s \in RulesOf(d), k \in XpermKeys, m, n \in Drivers :
            AsksDriver(r, k, m) /\ AsksDriver(s, k, n) => m = n

ComesFrom(rule, owner) ==
    \E c \in Conds : /\ rule \in RulesOf(c)
                     /\ Equivalent(Normal(c.expr), cond_list[owner[1]].expr)
DriversFromSource ==
    /\ \A t \in DOMAIN todo : todo[t].cond # NoOwner => ComesFrom(todo[t].rule, todo[t].cond)
    /\ \A k \in XpermKeys : \A j \in DOMAIN te_cond_avtab[k] :
          LET n == te_cond_avtab[k][j] IN
          \E r \in Rules : ComesFrom(r, n.owner) /\ AsksDriver(r, k, n.data.driver)

XpermInv == /\ Inv /\ CondsFromSource /\ DriversFromSource
            /\ MarksKept(XpermKeys) /\ ItemsStored(XpermKeys)

\* The type a lookup finds is one that a source rule in force asks for, and a
\* lookup finds one whenever some source rule in force asks for one.
TypeDecisionPrescribed ==
    status = "expanded" =>
        \A k \in TypeKeys :
            /\ TypeLookup(k) \subseteq Prescribed(k.spec, k)
            /\ Prescribed(k.spec, k) # {} => TypeLookup(k) # {}

\* Type rules for which leaving a pair at the first duplicate loses nothing: no
\* rule names a class twice, and one that meets another with the same type has
\* no class that the other lacks.
TypeRulesOf(rules) == {r \in rules : r.spec \in TypeSpecs}
SameClasses ==
    /\ \A r \in TypeRulesOf(Rules) : \A i, j \in DOMAIN r.perms :
          r.perms[i].tclass = r.perms[j].tclass => i = j
    /\ \A r, s \in TypeRulesOf(Rules) :
          \A p \in DOMAIN r.pairs, i \in DOMAIN r.perms, q \in DOMAIN s.pairs, j \in DOMAIN s.perms :
             /\ KeyOf(r, r.pairs[p], r.perms[i]) = KeyOf(s, s.pairs[q], s.perms[j])
             /\ r.perms[i].data = s.perms[j].data
             => \A m \in DOMAIN r.perms : \E n \in DOMAIN s.perms : s.perms[n].tclass = r.perms[m].tclass

\* What makes TypeDecisionPrescribed inductive.  A type in a list comes from a
\* rule that the source asks for whenever the list is in force, and of that rule
\* all classes of the pair have a node in the list, or it is the rule at the head
\* of todo and its cursor is inside the pair.
SourceRules(val) == UNION {ToSet(BranchOf(val, given[i])) : i \in DOMAIN given}
FromSource(rule, owner) == \A val \in Assignments : InForce(val, owner) => rule \in SourceRules(val)

HoldsType(owner, k, d) ==
    LET nodes == IF owner = NoOwner THEN te_avtab[k] ELSE te_cond_avtab[k]
    IN \E i \in DOMAIN nodes : nodes[i].owner = owner /\ nodes[i].data = d

WholePair(owner, r, p) ==
    \A i \in DOMAIN r.perms : HoldsMark(owner, KeyOf(r, r.pairs[p], r.perms[i]), TypeMark(r.spec))

InsidePair(owner, r, p, i) ==
    todo # <<>> /\ r = Task.rule /\ owner = Task.cond /\ p = pos.pair /\ i < pos.item

Origin(owner, k, d, r, p, i) ==
    /\ KeyOf(r, r.pairs[p], r.perms[i]) = k /\ r.perms[i].data = d
    /\ FromSource(r, owner)
    /\ WholePair(owner, r, p) \/ InsidePair(owner, r, p, i)

TypesFromSource ==
    /\ \A t \in DOMAIN todo : FromSource(todo[t].rule, todo[t].cond)
    /\ \A k \in TypeKeys : \A i \in DOMAIN te_avtab[k] : te_avtab[k][i].owner = NoOwner
    /\ \A owner \in Lists \cup {NoOwner}, k \in TypeKeys, d \in Types :
          HoldsType(owner, k, d) =>
             \E r \in Rules : \E p \in DOMAIN r.pairs, i \in DOMAIN r.perms : Origin(owner, k, d, r, p, i)

TypeInv == /\ Inv /\ CondsFromSource /\ TypesFromSource
           /\ MarksKept(TypeKeys) /\ ItemsStored(TypeKeys)

\* The policy can be read back: written conditional by conditional (the newest
\* first, the true list before the false list), every type rule passes the
\* conflict tests of cond_insertf.
WrittenBefore(m, n) ==
    \/ m.owner[1] > n.owner[1]
    \/ m.owner[1] = n.owner[1] /\ m.owner[2] = "true" /\ n.owner[2] = "false"

cond_insertf(k, i) ==
    LET nodes == te_cond_avtab[k]
        before == {j \in DOMAIN nodes : WrittenBefore(nodes[j], nodes[i])
                                          \/ (nodes[j].owner = nodes[i].owner /\ j < i)}
    IN /\ te_avtab[k] = <<>>
       /\ \/ before = {}
          \/ /\ nodes[i].owner[2] = "false"
             /\ \E j \in before : before = {j} /\ nodes[j].owner = OtherList(nodes[i].owner)

KernelReadAccepts ==
    \A k \in TypeKeys : \A i \in DOMAIN te_cond_avtab[k] : cond_insertf(k, i)

=============================================================================
