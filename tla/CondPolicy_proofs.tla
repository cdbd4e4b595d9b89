-------------------------- MODULE CondPolicy_proofs --------------------------
(***************************************************************************)
(* Proofs about CondPolicy, for every policy, set of rules and conditionals*)
(***************************************************************************)
EXTENDS CondPolicy, CondExpr_proofs

(* A function on 1 .. n whose values lie in X is a sequence over X of length
   n: what the model's list comprehensions (Pending) rely on. *)
LEMMA ListedIsSeq ==
  ASSUME NEW n \in Nat, NEW X, NEW s,
         s = [j \in 1 .. n |-> s[j]], \A j \in 1 .. n : s[j] \in X
  PROVE  s \in Seq(X) /\ Len(s) = n
<1>1. s \in [1 .. n -> X]
  OBVIOUS
<1> QED
  BY <1>1

\* First is the least element of a set of places, or 0.
LEMMA FirstIsLeast ==
    ASSUME NEW S \in SUBSET Nat
    PROVE  /\ S = {} => First(S) = 0
           /\ S # {} => First(S) \in S /\ \A j \in S : First(S) <= j
<1>1. CASE S = {}
  BY <1>1 DEF First
<1>2. CASE S # {}
  <2>1. IsWellFoundedOn(OpToRel(<, Nat), Nat)
    BY NatLessThanWellFounded
  <2>2. PICK x \in S : \A y \in S : ~(<<y, x>> \in OpToRel(<, Nat))
    BY <1>2, <2>1, WFMin
  <2>3. ASSUME NEW y \in S PROVE x <= y
    <3>1. <<y, x>> \in Nat \X Nat
      OBVIOUS
    <3>2. y < x => <<y, x>> \in OpToRel(<, Nat)
      BY <3>1 DEF OpToRel
    <3>3. ~(y < x)
      BY <2>2, <3>2
    <3> QED
      BY <3>3
  <2> QED
    BY <1>2, <2>3 DEF First
<1> QED
  BY <1>1, <1>2

-----------------------------------------------------------------------------
(***************************************************************************)
(* Facts about the operators.                                              *)
(***************************************************************************)
\* An expression evaluates to false, true or undefined.
LEMMA EvaluateType ==
    ASSUME NEW val, NEW e
    PROVE  cond_evaluate_expr(val, e) \in States \cup {Undefined}
BY DEF cond_evaluate_expr, Bit, States, Undefined

\* Dropping a trailing NOT leaves an expression.
LEMMA StripNotType ==
    ASSUME NEW e \in Expr
    PROVE  StripNot(e) \in Expr
<1>1. CASE e = <<>>
  <2>1. SubSeq(e, 1, Len(e) - 1) = <<>>
    BY <1>1
  <2> QED
    BY <2>1, <1>1 DEF StripNot, Expr
<1>2. CASE e # <<>>
  <2>1. SubSeq(e, 1, Len(e) - 1) \in Seq(Tokens)
    BY <1>2 DEF Expr
  <2> QED
    BY <2>1 DEF StripNot, Expr
<1> QED
  BY <1>1, <1>2

\* A sequence without places is empty.
LEMMA EmptyDomain ==
    ASSUME NEW X, NEW s \in Seq(X), DOMAIN s = {}
    PROVE  s = <<>>
<1>1. DOMAIN s = 1 .. Len(s) /\ Len(s) \in Nat
  OBVIOUS
<1>2. Len(s) = 0
  BY <1>1
<1> QED
  BY <1>2, EmptySeq

\* Rules that are not skipped carry data of the kind their key calls for.
LEMMA RuleData ==
    ASSUME NEW spec \in RuleSpecs, spec # "neverallow"
    PROVE  /\ avrule_to_avtab_spec(spec) \in AvtabSpecs
           /\ DataOf(avrule_to_avtab_spec(spec)) = DataOf(spec)
           /\ avrule_to_avtab_spec(spec) \in TypeSpecs <=> spec \in TypeSpecs
BY DEF RuleSpecs, AvtabSpecs, avrule_to_avtab_spec, DataOf, TypeSpecs, AVSpecs, XpermSpecs

\* find_avtab_node returns 0 or the place of a node.  For a type rule of a
\* conditional, it is the place of a node of the rule's own list, and 0 only
\* if there is none; for an unconditional type rule, 0 only if there is no node;
\* for unconditional extended permissions, a node of the same driver.
LEMMA FindNode ==
    ASSUME NEW X, NEW nodes \in Seq(X), NEW spec, NEW cond, NEW data
    PROVE  LET i == find_avtab_node(nodes, spec, cond, data)
           IN /\ i \in {0} \cup DOMAIN nodes
              /\ cond # NoOwner /\ i # 0 => nodes[i].owner = cond
              /\ spec \in TypeSpecs /\ cond # NoOwner /\ i = 0 =>
                    \A j \in DOMAIN nodes : nodes[j].owner # cond
              /\ spec \in TypeSpecs /\ cond = NoOwner /\ i = 0 => nodes = <<>>
              /\ spec \in XpermSpecs /\ cond = NoOwner /\ i # 0 => nodes[i].data.driver = data.driver
<1> DEFINE S == {j \in DOMAIN nodes : spec \in XpermSpecs => nodes[j].data.driver = data.driver}
           start == First(S)
           T == {j \in DOMAIN nodes : j >= start /\ nodes[j].owner = cond}
           i == find_avtab_node(nodes, spec, cond, data)
<1>1. DOMAIN nodes = 1 .. Len(nodes) /\ Len(nodes) \in Nat
  OBVIOUS
<1>2. /\ S = {} => start = 0
      /\ S # {} => start \in S /\ \A j \in S : start <= j
  <2>1. S \in SUBSET Nat
    BY <1>1
  <2> HIDE DEF S
  <2> QED
    BY <2>1, FirstIsLeast
<1>3. /\ T = {} => First(T) = 0
      /\ T # {} => First(T) \in T
  <2>1. T \in SUBSET Nat
    BY <1>1
  <2> HIDE DEF T
  <2> QED
    BY <2>1, FirstIsLeast
<1>4. i = IF cond = NoOwner \/ start = 0 THEN start ELSE First(T)
  BY DEF find_avtab_node
<1>5. ASSUME spec \in TypeSpecs
      PROVE  S = DOMAIN nodes
  BY <1>5 DEF TypeSpecs, XpermSpecs
<1> HIDE DEF S, start, i
<1>6. S \subseteq DOMAIN nodes
  BY DEF S
<1>7. i \in {0} \cup DOMAIN nodes
  BY <1>2, <1>3, <1>4, <1>6
<1>8. ASSUME cond # NoOwner, i # 0
      PROVE  nodes[i].owner = cond
  BY <1>3, <1>4, <1>8, <1>2
<1>9. ASSUME spec \in TypeSpecs, cond # NoOwner, i = 0, NEW j \in DOMAIN nodes
      PROVE  nodes[j].owner # cond
  <2>3. S = DOMAIN nodes
    BY <1>5, <1>9
  <2>4. 1 \in S
    BY <1>1, <1>9, <2>3
  <2>1. start = 1
    BY <1>1, <1>2, <2>3, <2>4
  <2>2. T = {}
    BY <1>3, <1>4, <1>9, <2>1, <1>1
  <2> QED
    BY <2>1, <2>2, <1>1
<1>10. ASSUME spec \in TypeSpecs, cond = NoOwner, i = 0
       PROVE  nodes = <<>>
  <2>1. S = {}
    BY <1>1, <1>2, <1>4, <1>10, <1>6
  <2>2. DOMAIN nodes = {}
    BY <2>1, <1>5, <1>10
  <2>3. Len(nodes) = 0
    BY <2>2, <1>1
  <2> QED
    BY <2>3, EmptySeq
<1>11. ASSUME spec \in XpermSpecs, cond = NoOwner, i # 0
       PROVE  nodes[i].data.driver = data.driver
  BY <1>2, <1>4, <1>11 DEF S
<1> QED
  BY <1>7, <1>8, <1>9, <1>10, <1>11 DEF i

\* A rule merges its data into a datum of the right kind.
LEMMA MergeType ==
    ASSUME NEW spec \in RuleSpecs, spec # "neverallow",
           NEW data \in DataOf(spec), NEW old \in DataOf(spec)
    PROVE  MergeDatum(spec, old, data) \in DataOf(spec)
<1>1. CASE spec \in TypeSpecs
  BY <1>1 DEF MergeDatum, DataOf, TypeSpecs, XpermSpecs
<1>2. CASE spec \in XpermSpecs
  BY <1>2 DEF MergeDatum, DataOf, TypeSpecs, XpermSpecs
<1>3. CASE spec \in {"allowed", "auditallow", "auditdeny", "dontaudit"}
  BY <1>3 DEF MergeDatum, DataOf, TypeSpecs, XpermSpecs
<1> QED
  BY <1>1, <1>2, <1>3 DEF RuleSpecs, AvtabSpecs, AVSpecs

LEMMA FreshType ==
    ASSUME NEW spec \in RuleSpecs, spec # "neverallow", NEW data \in DataOf(spec)
    PROVE  FreshDatum(avrule_to_avtab_spec(spec), data) \in DataOf(spec)
<1>1. CASE spec \in TypeSpecs \cup XpermSpecs
  BY <1>1 DEF FreshDatum, DataOf, TypeSpecs, XpermSpecs, avrule_to_avtab_spec
<1>2. CASE spec \in {"allowed", "auditallow", "auditdeny", "dontaudit"}
  BY <1>2 DEF FreshDatum, DataOf, TypeSpecs, XpermSpecs, avrule_to_avtab_spec
<1> QED
  BY <1>1, <1>2 DEF RuleSpecs, AvtabSpecs, AVSpecs

\* Store rewrites the node that was found, or puts a new node in front; every
\* other node is kept.
LEMMA StoreShape ==
    ASSUME NEW spec \in RuleSpecs, spec # "neverallow",
           NEW nodes \in Seq(Node(avrule_to_avtab_spec(spec))),
           NEW cond \in Owners \cup {NoOwner}, NEW enabled \in BOOLEAN,
           NEW data \in DataOf(spec)
    PROVE  LET i == find_avtab_node(nodes, avrule_to_avtab_spec(spec), cond, data)
               new == Store(nodes, spec, cond, enabled, data)
           IN /\ new \in Seq(Node(avrule_to_avtab_spec(spec)))
              /\ i = 0 => /\ Len(new) = Len(nodes) + 1
                          /\ new[1].owner = cond /\ new[1].enabled = enabled
                          /\ \A j \in 2 .. Len(new) : new[j] = nodes[j - 1]
              /\ i # 0 => /\ i \in DOMAIN nodes /\ Len(new) = Len(nodes)
                          /\ new[i].owner = cond /\ new[i].enabled = enabled
                          /\ \A j \in DOMAIN nodes \ {i} : new[j] = nodes[j]
<1> DEFINE av == avrule_to_avtab_spec(spec)
           i == find_avtab_node(nodes, av, cond, data)
           New(old) == [owner |-> cond, enabled |-> enabled, data |-> MergeDatum(spec, old, data)]
           new == Store(nodes, spec, cond, enabled, data)
<1>1. i \in {0} \cup DOMAIN nodes
  BY FindNode
<1>2. DataOf(av) = DataOf(spec)
  BY RuleData
<1>3. ASSUME NEW old \in DataOf(spec)
      PROVE  New(old) \in Node(av)
  BY <1>2, <1>3, MergeType DEF Node
<1>4. new = IF i = 0 THEN InsertFirst(New(FreshDatum(av, data)), nodes)
                     ELSE [nodes EXCEPT ![i] = New(nodes[i].data)]
  BY DEF Store
<1>5. \A x : New(x).owner = cond /\ New(x).enabled = enabled
  OBVIOUS
<1> HIDE DEF i, new, New, av
<1>6. CASE i = 0
  <2> DEFINE n == New(FreshDatum(av, data))
  <2>1. n \in Node(av)
    BY <1>3, FreshType DEF av
  <2>2. n.owner = cond /\ n.enabled = enabled
    BY <1>5
  <2>3. new = InsertFirst(n, nodes)
    BY <1>4, <1>6
  <2> HIDE DEF n
  <2>4. nodes \in Seq(Node(av))
    BY DEF av
  <2>5. new \in Seq(Node(av)) /\ Len(new) = Len(nodes) + 1 /\ new[1] = n
    BY <2>1, <2>3, <2>4 DEF InsertFirst
  <2>6. \A j \in 2 .. Len(new) : new[j] = nodes[j - 1]
    BY <2>3, <2>4, <2>5 DEF InsertFirst
  <2> QED
    BY <1>6, <2>2, <2>5, <2>6 DEF i, new, av
<1>7. CASE i # 0
  <2>1. nodes[i].data \in DataOf(spec)
    <3>1. nodes \in Seq(Node(av))
      BY DEF av
    <3>2. nodes[i] \in Node(av)
      BY <1>1, <1>7, <3>1
    <3> QED
      BY <1>2, <3>2 DEF Node
  <2> DEFINE n == New(nodes[i].data)
  <2>2. n \in Node(av)
    BY <1>3, <2>1
  <2>3. n.owner = cond /\ n.enabled = enabled
    BY <1>5
  <2>4. new = [nodes EXCEPT ![i] = n]
    BY <1>4, <1>7
  <2> HIDE DEF n
  <2>5. nodes \in Seq(Node(av))
    BY DEF av
  <2>6. new \in Seq(Node(av)) /\ Len(new) = Len(nodes) /\ new[i] = n
    BY <1>1, <1>7, <2>2, <2>4, <2>5
  <2>7. \A j \in DOMAIN nodes \ {i} : new[j] = nodes[j]
    BY <2>4, <2>5
  <2> QED
    BY <1>1, <1>7, <2>3, <2>6, <2>7 DEF i, new, av
<1> QED
  BY <1>6, <1>7

-----------------------------------------------------------------------------
(***************************************************************************)
(* Type correctness.                                                       *)
(***************************************************************************)
TaskType == [rule : Rules, cond : Lists \cup {NoOwner}, enabled : BOOLEAN]

\* The rule at the head of todo, while one of its classes is being expanded.
LEMMA TaskFacts ==
    ASSUME TypeOK, AtItem
    PROVE  /\ Task \in TaskType
           /\ WellFormedRule(Task.rule)
           /\ Task.rule.spec # "neverallow"
           /\ Item \in [tclass : Classes, data : DataOf(Task.rule.spec)]
           /\ TaskKey \in Keys
           /\ TaskKey.spec = avrule_to_avtab_spec(Task.rule.spec)
           /\ Task.cond \in Owners \cup {NoOwner}
<1>1. Task \in TaskType
  <2>1. todo \in Seq(TaskType)
    BY DEF TypeOK, TaskType
  <2>2. todo # <<>>
    BY DEF AtItem, Busy
  <2>3. Head(todo) \in TaskType
    BY <2>1, <2>2, HeadTailProperties
  <2> QED
    BY <2>3 DEF Task
<1>2. WellFormedRule(Task.rule) /\ Task.rule \in Rules
  BY <1>1, RulesAssumption DEF TaskType
<1>3. Task.rule.spec # "neverallow"
  BY DEF AtItem, Skipped
<1>4. pos.item \in DOMAIN Task.rule.perms
  BY <1>2 DEF TypeOK, AtItem, Busy, WellFormedRule
<1>5. pos.pair \in DOMAIN Task.rule.pairs
  BY <1>2 DEF TypeOK, AtItem, WellFormedRule
<1>6. Item \in [tclass : Classes, data : DataOf(Task.rule.spec)]
  <2> DEFINE X == [tclass : Classes, data : DataOf(Task.rule.spec)]
  <2>1. Task.rule.perms \in Seq(X)
    BY <1>2 DEF WellFormedRule
  <2> HIDE DEF X
  <2>2. Task.rule.perms[pos.item] \in X
    BY <1>4, <2>1
  <2> QED
    BY <2>2 DEF Item, X
<1>7. TaskKey \in Keys
  BY <1>2, <1>3, <1>4, <1>5 DEF TaskKey, Keys, Item
<1>8. TaskKey.spec = avrule_to_avtab_spec(Task.rule.spec)
  BY DEF TaskKey, KeyOf
<1>9. Task.cond \in Owners \cup {NoOwner}
  BY <1>1 DEF TaskType, Lists, Owners, TypeOK
<1> QED
  BY <1>1, <1>2, <1>3, <1>6, <1>7, <1>8, <1>9

\* The cursor stays inside the rule.
LEMMA CursorStep ==
    ASSUME TypeOK, AtItem, UNCHANGED <<cond_list, todo>>, pos' \in {NextItem, NextPair}
    PROVE  /\ pos' \in [pair : Nat \ {0}, item : Nat \ {0}]
           /\ todo # <<>>
           /\ pos'.item <= Len(Task.rule.perms)
<1>1. Len(Task.rule.perms) \in Nat \ {0}
  BY TaskFacts, EmptySeq DEF WellFormedRule
<1>2. pos \in [pair : Nat \ {0}, item : Nat \ {0}] /\ todo # <<>>
  BY DEF TypeOK, AtItem, Busy
<1> QED
  BY <1>1, <1>2 DEF NextItem, NextPair

\* Storing one class keeps both tables well typed and changes no other key.
LEMMA StoreItemType ==
    ASSUME TypeOK, AtItem, StoreItem, UNCHANGED cond_list
    PROVE  /\ DOMAIN te_avtab' = Keys /\ DOMAIN te_cond_avtab' = Keys
           /\ \A k \in Keys : /\ te_avtab'[k] \in Seq(Node(k.spec))
                              /\ te_cond_avtab'[k] \in Seq(Node(k.spec))
                              /\ \A i \in DOMAIN te_cond_avtab'[k] :
                                    te_cond_avtab'[k][i].owner \in Lists
<1> DEFINE r == Task.rule
           Stored(nodes) == Store(nodes, r.spec, Task.cond, Task.enabled, Item.data)
           kk == TaskKey
<1>1. /\ Task \in TaskType
      /\ r.spec \in RuleSpecs /\ r.spec # "neverallow"
      /\ Item.data \in DataOf(r.spec)
      /\ kk \in Keys /\ kk.spec = avrule_to_avtab_spec(r.spec)
      /\ Task.cond \in Owners \cup {NoOwner} /\ Task.enabled \in BOOLEAN
  BY TaskFacts DEF WellFormedRule, TaskType
<1>2. /\ te_avtab[kk] \in Seq(Node(kk.spec))
      /\ te_cond_avtab[kk] \in Seq(Node(kk.spec))
  BY <1>1 DEF TypeOK
<1>3. ASSUME NEW nodes \in Seq(Node(kk.spec))
      PROVE  /\ Stored(nodes) \in Seq(Node(kk.spec))
             /\ \A j \in DOMAIN Stored(nodes) :
                   \/ Stored(nodes)[j].owner = Task.cond
                   \/ \E l \in DOMAIN nodes : Stored(nodes)[j] = nodes[l]
  <2> DEFINE i == find_avtab_node(nodes, avrule_to_avtab_spec(r.spec), Task.cond, Item.data)
             new == Stored(nodes)
  <2>1. /\ new \in Seq(Node(avrule_to_avtab_spec(r.spec)))
        /\ i = 0 => /\ Len(new) = Len(nodes) + 1
                    /\ new[1].owner = Task.cond
                    /\ \A j \in 2 .. Len(new) : new[j] = nodes[j - 1]
        /\ i # 0 => /\ i \in DOMAIN nodes /\ Len(new) = Len(nodes)
                    /\ new[i].owner = Task.cond
                    /\ \A j \in DOMAIN nodes \ {i} : new[j] = nodes[j]
    <3> HIDE DEF r
    <3> QED
      BY <1>1, StoreShape, SMTT(30)
  <2> HIDE DEF i, new
  <2>2. ASSUME NEW j \in DOMAIN new
        PROVE  new[j].owner = Task.cond \/ \E l \in DOMAIN nodes : new[j] = nodes[l]
    <3>1. CASE i = 0 /\ j # 1
      <4>1. j \in 2 .. Len(new) /\ j - 1 \in DOMAIN nodes
        BY <2>1, <3>1
      <4> QED
        BY <2>1, <3>1, <4>1
    <3>2. CASE i = 0 /\ j = 1
      BY <2>1, <3>2
    <3>3. CASE i # 0
      <4>1. j \in DOMAIN nodes
        BY <2>1, <3>3
      <4> QED
        BY <2>1, <3>3, <4>1
    <3> QED
      BY <3>1, <3>2, <3>3
  <2> QED
    BY <2>1, <2>2, <1>1 DEF new
<1> HIDE DEF r, Stored, kk
<1>4. CASE Task.cond = NoOwner
  <2>1. te_avtab' = [te_avtab EXCEPT ![kk] = Stored(@)] /\ te_cond_avtab' = te_cond_avtab
    BY <1>4 DEF StoreItem, r, Stored, kk
  <2> QED
    BY <1>1, <1>2, <1>3, <2>1 DEF TypeOK
<1>5. CASE Task.cond # NoOwner
  <2>1. te_cond_avtab' = [te_cond_avtab EXCEPT ![kk] = Stored(@)] /\ te_avtab' = te_avtab
    BY <1>5 DEF StoreItem, r, Stored, kk
  <2>2. Task.cond \in Lists
    BY <1>1, <1>5 DEF TaskType
  <2>3. te_cond_avtab'[kk] = Stored(te_cond_avtab[kk]) /\ DOMAIN te_cond_avtab' = Keys
    BY <1>1, <2>1 DEF TypeOK
  <2>4. ASSUME NEW i \in DOMAIN te_cond_avtab'[kk]
        PROVE  te_cond_avtab'[kk][i].owner \in Lists
    BY <1>1, <1>2, <1>3, <2>2, <2>3 DEF TypeOK
  <2>5. ASSUME NEW k \in Keys, k # kk
        PROVE  te_cond_avtab'[k] = te_cond_avtab[k]
    BY <2>1, <2>5 DEF TypeOK
  <2> QED
    BY <1>1, <1>2, <1>3, <2>1, <2>3, <2>4, <2>5 DEF TypeOK
<1> QED
  BY <1>4, <1>5

\* Tasks made from a list of rules.
LEMMA PendingType ==
    ASSUME NEW rules \in Seq(Rules), NEW owner, NEW S, owner \in S, NEW on \in BOOLEAN
    PROVE  /\ Pending(rules, owner, on) \in Seq([rule : Rules, cond : S, enabled : BOOLEAN])
           /\ Len(Pending(rules, owner, on)) = Len(rules)
           /\ \A i \in 1 .. Len(rules) : /\ Pending(rules, owner, on)[i].cond = owner
                                         /\ Pending(rules, owner, on)[i].enabled = on
<1> DEFINE X == [rule : Rules, cond : S, enabled : BOOLEAN]
           F(i) == [rule |-> rules[i], cond |-> owner, enabled |-> on]
<1>1. DOMAIN rules = 1 .. Len(rules) /\ Len(rules) \in Nat
  OBVIOUS
<1>2. \A i \in 1 .. Len(rules) : F(i) \in X /\ F(i).cond = owner /\ F(i).enabled = on
  BY <1>1
<1>3. Pending(rules, owner, on) = [i \in 1 .. Len(rules) |-> F(i)]
  BY <1>1 DEF Pending
<1> HIDE DEF X, F
<1>4. Pending(rules, owner, on) \in Seq(X) /\ Len(Pending(rules, owner, on)) = Len(rules)
  BY <1>1, <1>2, <1>3
<1> QED
  BY <1>2, <1>3, <1>4 DEF X

\* The cursor starts inside any rule.
LEMMA FirstPosFits ==
    ASSUME NEW tasks, NEW T, tasks \in Seq([rule : Rules, cond : T, enabled : BOOLEAN])
    PROVE  /\ FirstPos \in [pair : Nat \ {0}, item : Nat \ {0}]
           /\ tasks # <<>> => FirstPos.item <= Len(Head(tasks).rule.perms)
<1>1. ASSUME tasks # <<>>
      PROVE  FirstPos.item <= Len(Head(tasks).rule.perms)
  <2> DEFINE X == [rule : Rules, cond : T, enabled : BOOLEAN]
  <2>1. Head(tasks) \in X
    <3> HIDE DEF X
    <3>1. tasks \in Seq(X)
      BY DEF X
    <3> QED
      BY <1>1, <3>1, HeadTailProperties
  <2>2. WellFormedRule(Head(tasks).rule)
    BY <2>1, RulesAssumption
  <2>3. Len(Head(tasks).rule.perms) \in Nat \ {0}
    BY <2>2, EmptySeq DEF WellFormedRule
  <2> QED
    BY <2>3 DEF FirstPos
<1> QED
  BY <1>1 DEF FirstPos

\* A non-empty set of places in a sequence has a last one.
LEMMA GreatestExists ==
    ASSUME NEW n \in Nat, NEW M \in SUBSET (1 .. n), M # {}
    PROVE  \E m \in M : \A j \in M : j <= m
<1> DEFINE S == {n - j : j \in M}
<1>1. S \in SUBSET Nat /\ S # {}
  <2>1. \A j \in M : n - j \in Nat
    OBVIOUS
  <2> QED
    BY <2>1
<1>2. First(S) \in S /\ \A j \in S : First(S) <= j
  <2> HIDE DEF S
  <2> QED
    BY <1>1, FirstIsLeast
<1>3. PICK m \in M : First(S) = n - m
  BY <1>2
<1>4. ASSUME NEW j \in M PROVE j <= m
  <2>1. n - j \in S
    OBVIOUS
  <2>2. n - m <= n - j
    BY <1>2, <1>3, <2>1
  <2>3. j \in Nat /\ m \in Nat
    OBVIOUS
  <2> QED
    BY <2>2, <2>3
<1> QED
  BY <1>4

CondType == [expr : Expr, cur_state : States \cup {Undefined}]

\* cond_node_copy finds or creates a conditional.
LEMMA SearchType ==
    ASSUME TypeOK, NEW e
    PROVE  cond_node_search(e) \in 1 .. Len(cond_list) + 1
<1>1. Len(cond_list) \in Nat /\ DOMAIN cond_list = 1 .. Len(cond_list)
  BY DEF TypeOK
<1>2. CASE Matching(e) = {}
  BY <1>1, <1>2 DEF cond_node_search
<1>3. CASE Matching(e) # {}
  <2>1. Matching(e) \in SUBSET (1 .. Len(cond_list))
    BY <1>1 DEF Matching
  <2>2. \E m \in Matching(e) : \A j \in Matching(e) : j <= m
    BY <1>1, <1>3, <2>1, GreatestExists
  <2>3. cond_node_search(e) \in Matching(e)
    BY <1>3, <2>2 DEF cond_node_search
  <2>4. cond_node_search(e) \in 1 .. Len(cond_list)
    BY <2>1, <2>3
  <2> QED
    BY <1>1, <2>4
<1> QED
  BY <1>2, <1>3

\* evaluate_conds changes states and flags only.
LEMMA EvaluateKeepsNodes ==
    ASSUME TypeOK, NEW val, evaluate_conds(val)
    PROVE  /\ cond_list' \in Seq(CondType)
           /\ Len(cond_list') = Len(cond_list)
           /\ \A i \in DOMAIN cond_list : cond_list'[i].expr = cond_list[i].expr
           /\ DOMAIN te_cond_avtab' = Keys
           /\ \A k \in Keys : /\ te_cond_avtab'[k] \in Seq(Node(k.spec))
                              /\ DOMAIN te_cond_avtab'[k] = DOMAIN te_cond_avtab[k]
                              /\ \A i \in DOMAIN te_cond_avtab[k] :
                                   /\ te_cond_avtab'[k][i].owner = te_cond_avtab[k][i].owner
                                   /\ te_cond_avtab'[k][i].data = te_cond_avtab[k][i].data
<1> DEFINE new == [i \in DOMAIN cond_list |-> cond_evaluate_expr(val, cond_list[i].expr)]
           Changed(n) == n.owner # NoOwner /\ new[n.owner[1]] # cond_list[n.owner[1]].cur_state
           Switch(n) == IF Changed(n)
                        THEN [n EXCEPT !.enabled = Enables(n.owner[2], new[n.owner[1]])] ELSE n
<1>1. cond_list' = [i \in DOMAIN cond_list |-> [cond_list[i] EXCEPT !.cur_state = new[i]]]
  BY DEF evaluate_conds
<1>2. te_cond_avtab' = [k \in Keys |->
                [j \in DOMAIN te_cond_avtab[k] |-> Switch(te_cond_avtab[k][j])]]
  BY DEF evaluate_conds
<1>3. cond_list \in Seq(CondType)
  BY DEF TypeOK, CondType
<1>4. \A i \in DOMAIN cond_list : [cond_list[i] EXCEPT !.cur_state = new[i]] \in CondType
  <2> TAKE i \in DOMAIN cond_list
  <2>1. new[i] \in States \cup {Undefined}
    BY EvaluateType
  <2>2. cond_list[i] \in CondType
    BY <1>3
  <2> HIDE DEF new
  <2> QED
    BY <2>1, <2>2 DEF CondType
<1>5. cond_list' \in Seq(CondType) /\ Len(cond_list') = Len(cond_list)
  <2> HIDE DEF new
  <2> QED
    BY <1>1, <1>3, <1>4
<1>e. \A i \in DOMAIN cond_list : cond_list'[i].expr = cond_list[i].expr
  <2>1. \A i \in DOMAIN cond_list : cond_list[i] \in CondType
    BY <1>3
  <2> HIDE DEF new
  <2> QED
    BY <1>1, <2>1 DEF CondType
<1>6. ASSUME NEW spec, NEW n \in Node(spec)
      PROVE  Switch(n) \in Node(spec) /\ Switch(n).owner = n.owner /\ Switch(n).data = n.data
  <2>1. Enables(n.owner[2], new[n.owner[1]]) \in BOOLEAN
    BY DEF Enables
  <2> HIDE DEF Changed
  <2> QED
    BY <2>1 DEF Node
<1> HIDE DEF Switch
<1>7. ASSUME NEW k \in Keys
      PROVE  /\ te_cond_avtab'[k] \in Seq(Node(k.spec))
             /\ DOMAIN te_cond_avtab'[k] = DOMAIN te_cond_avtab[k]
             /\ \A i \in DOMAIN te_cond_avtab[k] :
                   /\ te_cond_avtab'[k][i].owner = te_cond_avtab[k][i].owner
                   /\ te_cond_avtab'[k][i].data = te_cond_avtab[k][i].data
  <2> DEFINE X == Node(k.spec)
             nodes == te_cond_avtab[k]
  <2>1. nodes \in Seq(X)
    BY DEF TypeOK
  <2>2. te_cond_avtab'[k] = [j \in DOMAIN nodes |-> Switch(nodes[j])]
    BY <1>2
  <2> HIDE DEF nodes
  <2>3. \A j \in DOMAIN nodes : /\ Switch(nodes[j]) \in X
                                /\ Switch(nodes[j]).owner = nodes[j].owner
                                /\ Switch(nodes[j]).data = nodes[j].data
    BY <1>6, <2>1
  <2> HIDE DEF X
  <2>4. te_cond_avtab'[k] \in Seq(X)
    BY <2>1, <2>2, <2>3
  <2> QED
    BY <2>2, <2>3, <2>4 DEF X, nodes
<1> QED
  BY <1>2, <1>5, <1>7, <1>e

LEMMA TypeOKInit == Init => TypeOK
<1> SUFFICES ASSUME Init PROVE TypeOK
  OBVIOUS
<1>1. \A S : <<>> \in Seq(S)
  OBVIOUS
<1>2. FirstPos \in [pair : Nat \ {0}, item : Nat \ {0}]
  BY DEF FirstPos
<1>3. DOMAIN te_avtab = Keys /\ DOMAIN te_cond_avtab = Keys
  BY DEF Init
<1>4. ASSUME NEW k \in Keys
      PROVE  te_avtab[k] = <<>> /\ te_cond_avtab[k] = <<>>
  BY DEF Init
<1> QED
  BY <1>1, <1>2, <1>3, <1>4 DEF Init, TypeOK

LEMMA TypeOKStep == TypeOK /\ [Next]_vars => TypeOK'
<1> SUFFICES ASSUME TypeOK, [Next]_vars PROVE TypeOK'
  OBVIOUS
<1>1. CASE UNCHANGED vars
  BY <1>1 DEF TypeOK, vars, Lists, Task
<1>2. ASSUME NEW r \in Rules, TakeRule(r)
      PROVE  TypeOK'
  <2>1. <<r>> \in Seq(Rules)
    OBVIOUS
  <2>2. todo' \in Seq(TaskType)
    BY <2>1, <1>2, PendingType DEF TakeRule, TaskType
  <2>3. Lists' = Lists /\ pos' = FirstPos
    BY <1>2 DEF TakeRule, Ready, Lists, TypeOK
  <2>4. pos' \in [pair : Nat \ {0}, item : Nat \ {0}]
        /\ (todo' # <<>> => pos'.item <= Len(Head(todo').rule.perms))
    BY <2>2, <2>3, FirstPosFits DEF TaskType
  <2> QED
    BY <1>2, <2>2, <2>3, <2>4 DEF TakeRule, tables, TypeOK, TaskType, Task
<1>3. ASSUME NEW c \in Conds, cond_node_copy(c)
      PROVE  TypeOK'
  <2> DEFINE e     == StripNot(StripNot(c.expr))
             i     == cond_node_search(e)
             list  == IF i > Len(cond_list)
                      THEN Append(cond_list, [expr |-> e, cur_state |-> cond_evaluate_expr(bools, e)])
                      ELSE cond_list
             state == list[i].cur_state
             t     == IF Negated(c.expr) THEN c.avfalse ELSE c.avtrue
             f     == IF Negated(c.expr) THEN c.avtrue ELSE c.avfalse
  <2>1. /\ cond_list' = list
        /\ todo' = Pending(t, <<i, "true">>, state # 0) \o Pending(f, <<i, "false">>, state = 0)
        /\ UNCHANGED <<te_avtab, te_cond_avtab, bools, pos, status>>
    BY <1>3 DEF cond_node_copy, tables, Normal
  <2>2. e \in Expr
    BY CondsAssumption, StripNotType DEF WellFormedCond
  <2>3. t \in Seq(Rules) /\ f \in Seq(Rules)
    BY CondsAssumption DEF WellFormedCond
  <2>4. i \in 1 .. Len(cond_list) + 1
    BY SearchType
  <2>5. cond_list \in Seq(CondType)
    BY DEF TypeOK, CondType
  <2>6. [expr |-> e, cur_state |-> cond_evaluate_expr(bools, e)] \in CondType
    BY <2>2, EvaluateType DEF CondType
  <2> HIDE DEF e, i, t, f
  <2>7. list \in Seq(CondType) /\ i \in 1 .. Len(list) /\ Len(list) >= Len(cond_list)
    BY <2>4, <2>5, <2>6
  <2> HIDE DEF list, state
  <2>8. <<i, "true">> \in Lists' /\ <<i, "false">> \in Lists'
    BY <2>1, <2>7 DEF Lists, Branches
  <2>9. /\ Pending(t, <<i, "true">>, state # 0) \in Seq(TaskType')
        /\ Pending(f, <<i, "false">>, state = 0) \in Seq(TaskType')
    BY <2>3, <2>8, PendingType DEF TaskType
  <2>10. todo' \in Seq(TaskType')
    <3> DEFINE X == TaskType'
    <3> HIDE DEF X
    <3>1. /\ Pending(t, <<i, "true">>, state # 0) \in Seq(X)
          /\ Pending(f, <<i, "false">>, state = 0) \in Seq(X)
      BY <2>9 DEF X
    <3>2. todo' \in Seq(X)
      BY <2>1, <3>1, ConcatProperties
    <3> QED
      BY <3>2 DEF X
  <2>11. Lists \subseteq Lists'
    BY <2>1, <2>5, <2>7 DEF Lists
  <2>12. pos' = FirstPos
    BY <1>3 DEF cond_node_copy, Ready, TypeOK
  <2>13. pos' \in [pair : Nat \ {0}, item : Nat \ {0}]
         /\ (todo' # <<>> => pos'.item <= Len(Head(todo').rule.perms))
    BY <2>10, <2>12, FirstPosFits DEF TaskType
  <2>14. cond_list' \in Seq(CondType)
    BY <2>1, <2>7
  <2> QED
    BY <2>1, <2>10, <2>11, <2>12, <2>13, <2>14 DEF TypeOK, TaskType, CondType, Task
<1>4. CASE FinishRule
  <2>1. todo' = Tail(todo) /\ pos' = FirstPos /\ todo # <<>>
        /\ UNCHANGED <<te_avtab, te_cond_avtab, cond_list, bools, status>>
    BY <1>4 DEF FinishRule, Busy, tables
  <2>2. todo \in Seq(TaskType)
    BY DEF TypeOK, TaskType
  <2>3. todo' \in Seq(TaskType)
    BY <2>1, <2>2, HeadTailProperties
  <2>4. pos' \in [pair : Nat \ {0}, item : Nat \ {0}]
        /\ (todo' # <<>> => pos'.item <= Len(Head(todo').rule.perms))
    BY <2>1, <2>3, FirstPosFits DEF TaskType
  <2> QED
    BY <2>1, <2>3, <2>4 DEF TypeOK, TaskType, Lists, Task
<1>5. ASSUME AtItem, StoreItem, pos' = NextItem, UNCHANGED <<cond_list, bools, todo, status>>
      PROVE  TypeOK'
  <2>1. UNCHANGED <<Lists, Task>>
    BY <1>5 DEF Lists, Task
  <2>2. /\ pos' \in [pair : Nat \ {0}, item : Nat \ {0}]
        /\ todo' # <<>>
        /\ pos'.item <= Len(Task'.rule.perms)
    BY <1>5, <2>1, CursorStep
  <2> QED
    BY <1>5, <2>1, <2>2, StoreItemType DEF TypeOK
<1>6. CASE expand_avrule_helper
  BY <1>5, <1>6 DEF expand_avrule_helper
<1>7. CASE expand_terule_helper
  BY <1>5, <1>7 DEF expand_terule_helper, AtTypeItem
<1>8. CASE DuplicateTypeRule
  <2>1. UNCHANGED <<Lists, Task>>
    BY <1>8 DEF DuplicateTypeRule, Lists, Task
  <2>2. /\ pos' \in [pair : Nat \ {0}, item : Nat \ {0}]
        /\ todo' # <<>>
        /\ pos'.item <= Len(Task'.rule.perms)
    BY <1>8, <2>1, CursorStep DEF DuplicateTypeRule, AtTypeItem
  <2> QED
    BY <1>8, <2>1, <2>2 DEF TypeOK, DuplicateTypeRule, tables
<1>9. CASE ConflictingTypeRule \/ OutOfMemory
  BY <1>9 DEF TypeOK, ConflictingTypeRule, OutOfMemory, tables, Lists, Task
<1>10. ASSUME NEW val \in Assignments, evaluate_conds(val), bools' = val,
              UNCHANGED <<te_avtab, todo, pos>>, status' = "expanded"
       PROVE  TypeOK'
  <2>1. UNCHANGED <<Lists, Task>>
    BY <1>10, EvaluateKeepsNodes DEF Lists, Task
  <2>2. DOMAIN te_cond_avtab' = Keys
    BY <1>10, EvaluateKeepsNodes
  <2>3. ASSUME NEW k \in Keys
        PROVE  /\ te_cond_avtab'[k] \in Seq(Node(k.spec))
               /\ \A i \in DOMAIN te_cond_avtab'[k] : te_cond_avtab'[k][i].owner \in Lists'
    BY <1>10, <2>1, EvaluateKeepsNodes DEF TypeOK
  <2>4. cond_list' \in Seq(CondType)
    BY <1>10, EvaluateKeepsNodes
  <2> QED
    BY <1>10, <2>1, <2>2, <2>3, <2>4 DEF TypeOK, CondType
<1>11. CASE FinishExpansion
  <2>1. bools \in Assignments
    BY DEF TypeOK
  <2> QED
    BY <1>10, <1>11, <2>1 DEF FinishExpansion
<1>12. ASSUME NEW b \in Bools, NEW v \in States, sepol_bool_set(b, v)
       PROVE  TypeOK'
  <2>1. bools' \in Assignments
    BY <1>12 DEF sepol_bool_set, TypeOK, Assignments
  <2>2. evaluate_conds(bools')
    BY <1>12 DEF sepol_bool_set
  <2> QED
    BY <1>10, <1>12, <2>1, <2>2 DEF sepol_bool_set
<1> QED
  BY <1>1, <1>2, <1>3, <1>4, <1>6, <1>7, <1>8, <1>9, <1>11, <1>12 DEF Next

\* Type correctness: nodes carry the datum their key calls for, belong to lists
\* of existing conditionals, and the cursor stays inside the rule.
THEOREM TypeCorrect == Spec => []TypeOK
<1>1. Init => TypeOK
  BY TypeOKInit
<1>2. TypeOK /\ [Next]_vars => TypeOK'
  BY TypeOKStep
<1> QED
  BY <1>1, <1>2, PTL DEF Spec

-----------------------------------------------------------------------------
(***************************************************************************)
(* The flags follow the states of the conditionals.                        *)
(***************************************************************************)
NodeFlags == \A k \in Keys : \A i \in DOMAIN te_cond_avtab[k] :
                te_cond_avtab[k][i].enabled <=> Selected(cond_list, te_cond_avtab[k][i].owner)
TaskFlags == \A i \in DOMAIN todo :
                todo[i].cond # NoOwner => (todo[i].enabled <=> Selected(cond_list, todo[i].cond))

\* Storing an item keeps the flags right: the node written takes the task's flag.
LEMMA StoreItemFlags ==
    ASSUME TypeOK, NodeFlags, TaskFlags, AtItem, StoreItem, UNCHANGED cond_list
    PROVE  NodeFlags'
<1> DEFINE r == Task.rule
           nodes == te_cond_avtab[TaskKey]
           en == Task.enabled
           new == Store(nodes, r.spec, Task.cond, en, Item.data)
           f == find_avtab_node(nodes, avrule_to_avtab_spec(r.spec), Task.cond, Item.data)
<1>1. /\ Task \in TaskType
      /\ r.spec \in RuleSpecs /\ r.spec # "neverallow"
      /\ Item.data \in DataOf(r.spec)
      /\ TaskKey \in Keys /\ TaskKey.spec = avrule_to_avtab_spec(r.spec)
      /\ Task.cond \in Owners \cup {NoOwner} /\ en \in BOOLEAN
  BY TaskFacts DEF WellFormedRule, TaskType
<1>2. cond_list' = cond_list
  OBVIOUS
<1>3. CASE Task.cond = NoOwner
  <2>1. te_cond_avtab' = te_cond_avtab
    BY <1>3 DEF StoreItem
  <2> QED
    BY <1>2, <2>1 DEF NodeFlags
<1>4. CASE Task.cond # NoOwner
  <2>1. te_cond_avtab' = [te_cond_avtab EXCEPT ![TaskKey] = new]
    BY <1>4 DEF StoreItem
  <2>2. en <=> Selected(cond_list, Task.cond)
    <3>1. todo \in Seq(TaskType) /\ todo # <<>>
      BY DEF TypeOK, TaskType, AtItem, Busy
    <3>2. Task = todo[1] /\ 1 \in DOMAIN todo
      BY <3>1 DEF Task
    <3> QED
      BY <1>4, <3>2 DEF TaskFlags
  <2>3. nodes \in Seq(Node(avrule_to_avtab_spec(r.spec)))
    BY <1>1 DEF TypeOK
  <2>4. /\ new \in Seq(Node(avrule_to_avtab_spec(r.spec)))
        /\ f = 0 => /\ Len(new) = Len(nodes) + 1
                    /\ new[1].owner = Task.cond /\ new[1].enabled = en
                    /\ \A j \in 2 .. Len(new) : new[j] = nodes[j - 1]
        /\ f # 0 => /\ f \in DOMAIN nodes /\ Len(new) = Len(nodes)
                    /\ new[f].owner = Task.cond /\ new[f].enabled = en
                    /\ \A j \in DOMAIN nodes \ {f} : new[j] = nodes[j]
    <3> HIDE DEF r, nodes, en
    <3> QED
      BY <1>1, <2>3, StoreShape
  <2>5. \A j \in DOMAIN nodes : nodes[j].enabled <=> Selected(cond_list, nodes[j].owner)
    BY <1>1 DEF NodeFlags
  <2> HIDE DEF r, nodes, new, f, en
  <2>6. ASSUME NEW j \in DOMAIN new
        PROVE  new[j].enabled <=> Selected(cond_list, new[j].owner)
    <3>1. CASE f = 0 /\ j # 1
      <4>1. j \in 2 .. Len(new) /\ j - 1 \in DOMAIN nodes
        BY <2>3, <2>4, <3>1
      <4> QED
        BY <2>4, <2>5, <3>1, <4>1
    <3>2. CASE f = 0 /\ j = 1
      BY <2>2, <2>4, <3>2
    <3>3. CASE f # 0
      <4>1. j \in DOMAIN nodes
        BY <2>3, <2>4, <3>3
      <4> QED
        BY <2>2, <2>4, <2>5, <3>3, <4>1
    <3> QED
      BY <3>1, <3>2, <3>3
  <2>7. te_cond_avtab'[TaskKey] = new
    BY <1>1, <2>1 DEF TypeOK
  <2>8. \A k \in Keys \ {TaskKey} : te_cond_avtab'[k] = te_cond_avtab[k]
    BY <2>1 DEF TypeOK
  <2>9. ASSUME NEW k \in Keys, NEW j \in DOMAIN te_cond_avtab'[k]
        PROVE  te_cond_avtab'[k][j].enabled <=> Selected(cond_list, te_cond_avtab'[k][j].owner)
    <3>1. CASE k = TaskKey
      BY <2>6, <2>7, <3>1
    <3>2. CASE k # TaskKey
      BY <2>8, <3>2 DEF NodeFlags
    <3> QED
      BY <3>1, <3>2
  <2> QED
    BY <1>2, <2>9 DEF NodeFlags
<1> QED
  BY <1>3, <1>4

\* evaluate_conds: where the state changed the flag is set from it, elsewhere
\* flag and state are both kept.
LEMMA EvaluateFlags ==
    ASSUME TypeOK, NodeFlags, StatesCurrent, NEW val \in Assignments, evaluate_conds(val)
    PROVE  NodeFlags'
<1> DEFINE st == [i \in DOMAIN cond_list |-> cond_evaluate_expr(val, cond_list[i].expr)]
           Changed(n) == n.owner # NoOwner /\ st[n.owner[1]] # cond_list[n.owner[1]].cur_state
           Switch(n) == IF Changed(n)
                        THEN [n EXCEPT !.enabled = Enables(n.owner[2], st[n.owner[1]])] ELSE n
<1>1. cond_list' = [i \in DOMAIN cond_list |-> [cond_list[i] EXCEPT !.cur_state = st[i]]]
  BY DEF evaluate_conds
<1>2. te_cond_avtab' = [k \in Keys |->
                [j \in DOMAIN te_cond_avtab[k] |-> Switch(te_cond_avtab[k][j])]]
  BY DEF evaluate_conds
<1>3. \A c \in DOMAIN cond_list : cond_list'[c].cur_state = st[c]
  <2>2. cond_list \in Seq(CondType)
    BY DEF TypeOK, CondType
  <2>1. \A c \in DOMAIN cond_list : cond_list[c] \in CondType
    BY <2>2
  <2> HIDE DEF st
  <2> QED
    BY <1>1, <2>1 DEF CondType
<1>s. \A c \in DOMAIN cond_list : st[c] \in States
  <2> SUFFICES ASSUME NEW c \in DOMAIN cond_list PROVE cond_evaluate_expr(val, cond_list[c].expr) \in States
    OBVIOUS
  <2>1. cond_list[c].expr \in Expr
    <3>1. cond_list \in Seq(CondType)
      BY DEF TypeOK, CondType
    <3>2. cond_list[c] \in CondType
      BY <3>1
    <3> QED
      BY <3>2 DEF CondType
  <2> QED
    BY <2>1, ValidExpressionsEvaluate DEF StatesCurrent
<1> HIDE DEF st
<1>4. ASSUME NEW spec, NEW n \in Node(spec), n.owner \in Lists, n.enabled <=> Selected(cond_list, n.owner)
      PROVE  Switch(n).enabled <=> Selected(cond_list', Switch(n).owner)
  <2>5. DOMAIN cond_list = 1 .. Len(cond_list)
    BY DEF TypeOK
  <2>1. n.owner[1] \in DOMAIN cond_list /\ n.owner[2] \in Branches
    BY <1>4, <2>5 DEF Lists
  <2>2. cond_list'[n.owner[1]].cur_state = st[n.owner[1]]
    BY <1>3, <2>1
  <2>3. CASE Changed(n)
    <3>1. Switch(n).owner = n.owner /\ Switch(n).enabled = Enables(n.owner[2], st[n.owner[1]])
      BY <2>3 DEF Node
    <3>2. Enables(n.owner[2], st[n.owner[1]]) <=>
            (n.owner[2] = "false" <=> st[n.owner[1]] = 0)
      BY <1>s, <2>1 DEF Enables, Branches, Undefined, States
    <3> QED
      BY <2>2, <3>1, <3>2 DEF Selected
  <2>4. CASE ~Changed(n)
    <3>1. n.owner # NoOwner
      BY <1>4, OwnerAssumption DEF Lists, Branches
    <3>2. st[n.owner[1]] = cond_list[n.owner[1]].cur_state
      BY <2>4, <3>1
    <3> QED
      BY <1>4, <2>2, <2>4, <3>2 DEF Selected
  <2> QED
    BY <2>3, <2>4
<1> HIDE DEF Switch
<1>5. ASSUME NEW k \in Keys, NEW j \in DOMAIN te_cond_avtab'[k]
      PROVE  te_cond_avtab'[k][j].enabled <=> Selected(cond_list', te_cond_avtab'[k][j].owner)
  <2>1. j \in DOMAIN te_cond_avtab[k] /\ te_cond_avtab'[k][j] = Switch(te_cond_avtab[k][j])
    BY <1>2
  <2>2. te_cond_avtab[k][j] \in Node(k.spec) /\ te_cond_avtab[k][j].owner \in Lists
    BY <2>1 DEF TypeOK
  <2>3. te_cond_avtab[k][j].enabled <=> Selected(cond_list, te_cond_avtab[k][j].owner)
    BY <2>1 DEF NodeFlags
  <2> QED
    BY <1>4, <2>1, <2>2, <2>3
<1> QED
  BY <1>5 DEF NodeFlags

-----------------------------------------------------------------------------
(***************************************************************************)
(* A type key is used by one conditional, once on each branch.             *)
(***************************************************************************)
OwnersAt(nodes) == \A i, j \in DOMAIN nodes :
                      /\ nodes[i].owner[1] = nodes[j].owner[1]
                      /\ nodes[i].owner = nodes[j].owner => i = j

\* A type rule that meets no obstacle keeps it so: its own list has no node of
\* the key, or the one it has is rewritten; the other nodes are of the other
\* branch of the same conditional.
LEMMA TypeRuleStored ==
    ASSUME TypeOK, OneConditional, expand_terule_helper
    PROVE  OneConditional'
<1> DEFINE r == Task.rule
           kk == TaskKey
           o == Task.cond
           en == Task.enabled
           Stored(nodes) == Store(nodes, r.spec, o, en, Item.data)
           Place(nodes) == find_avtab_node(nodes, avrule_to_avtab_spec(r.spec), o, Item.data)
<1>1. /\ Task \in TaskType
      /\ r.spec \in RuleSpecs /\ r.spec # "neverallow"
      /\ Item.data \in DataOf(r.spec)
      /\ kk \in Keys /\ kk.spec = avrule_to_avtab_spec(r.spec)
      /\ o \in Owners \cup {NoOwner} /\ en \in BOOLEAN
  BY TaskFacts DEF WellFormedRule, TaskType, expand_terule_helper, AtTypeItem
<1>2. r.spec \in TypeSpecs /\ avrule_to_avtab_spec(r.spec) \in TypeSpecs /\ kk \in TypeKeys
  BY <1>1, RuleData DEF expand_terule_helper, AtTypeItem, TypeKeys
<1>3. Obstacle(kk, o) = <<>> /\ StoreItem
  BY DEF expand_terule_helper
<1>4. /\ te_avtab[kk] \in Seq(Node(avrule_to_avtab_spec(r.spec)))
      /\ te_cond_avtab[kk] \in Seq(Node(avrule_to_avtab_spec(r.spec)))
      /\ \A i \in DOMAIN te_cond_avtab[kk] : te_cond_avtab[kk][i].owner \in Lists
  BY <1>1 DEF TypeOK
<1>5. te_avtab[kk] = <<>>
  BY <1>3 DEF Obstacle
<1>6. te_cond_avtab[kk] # <<>> => te_cond_avtab[kk][1].owner = OtherList(o)
  BY <1>3, <1>5 DEF Obstacle
<1>7. ASSUME NEW nodes \in Seq(Node(avrule_to_avtab_spec(r.spec)))
      PROVE  /\ Stored(nodes) \in Seq(Node(avrule_to_avtab_spec(r.spec)))
             /\ Place(nodes) = 0 =>
                   /\ Len(Stored(nodes)) = Len(nodes) + 1
                   /\ Stored(nodes)[1].owner = o
                   /\ \A j \in 2 .. Len(Stored(nodes)) : Stored(nodes)[j] = nodes[j - 1]
             /\ Place(nodes) # 0 =>
                   /\ Place(nodes) \in DOMAIN nodes /\ Len(Stored(nodes)) = Len(nodes)
                   /\ Stored(nodes)[Place(nodes)].owner = o
                   /\ \A j \in DOMAIN nodes \ {Place(nodes)} : Stored(nodes)[j] = nodes[j]
  <2> HIDE DEF r, o, en
  <2> QED
    BY <1>1, <1>7, StoreShape
<1>8. ASSUME NEW nodes \in Seq(Node(avrule_to_avtab_spec(r.spec)))
      PROVE  /\ o # NoOwner /\ Place(nodes) # 0 => nodes[Place(nodes)].owner = o
             /\ o # NoOwner /\ Place(nodes) = 0 => \A j \in DOMAIN nodes : nodes[j].owner # o
             /\ o = NoOwner /\ Place(nodes) = 0 => nodes = <<>>
             /\ Place(nodes) \in {0} \cup DOMAIN nodes
  <2> HIDE DEF r, o
  <2> QED
    BY <1>2, <1>8, FindNode
<1> HIDE DEF Stored, Place
<1>9. CASE o = NoOwner
  <2>1. te_avtab' = [te_avtab EXCEPT ![kk] = Stored(te_avtab[kk])] /\ te_cond_avtab' = te_cond_avtab
    BY <1>3, <1>9 DEF StoreItem, Stored
  <2>2. Place(te_avtab[kk]) = 0
    <3>1. Place(te_avtab[kk]) \in {0} \cup DOMAIN te_avtab[kk]
      BY <1>4, <1>8
    <3>2. DOMAIN te_avtab[kk] = {}
      BY <1>5
    <3> QED
      BY <3>1, <3>2
  <2>3. Len(te_avtab'[kk]) = 1
    <3>1. te_avtab'[kk] = Stored(te_avtab[kk])
      BY <1>1, <2>1 DEF TypeOK
    <3>2. Len(Stored(te_avtab[kk])) = Len(te_avtab[kk]) + 1
      BY <1>4, <1>7, <2>2
    <3>3. Len(te_avtab[kk]) = 0
      BY <1>5
    <3> QED
      BY <3>1, <3>2, <3>3
  <2>4. te_cond_avtab[kk] = <<>>
    <3> SUFFICES ASSUME te_cond_avtab[kk] # <<>> PROVE FALSE
      OBVIOUS
    <3>1. te_cond_avtab[kk][1].owner = NoOwner
      BY <1>6, <1>9 DEF OtherList
    <3>2. 1 \in DOMAIN te_cond_avtab[kk]
      BY <1>4
    <3>3. NoOwner \in Lists
      BY <1>4, <3>1, <3>2
    <3> QED
      BY <3>3, OwnerAssumption DEF Lists, Branches
  <2>5. \A k \in Keys \ {kk} : te_avtab'[k] = te_avtab[k]
    BY <2>1 DEF TypeOK
  <2>6. ASSUME NEW k \in TypeKeys
        PROVE  /\ Len(te_avtab'[k]) <= 1
               /\ te_avtab'[k] # <<>> => te_cond_avtab'[k] = <<>>
               /\ OwnersAt(te_cond_avtab'[k])
    <3>1. CASE k = kk
      <4>1. te_cond_avtab'[k] = <<>>
        BY <2>1, <2>4, <3>1
      <4>2. OwnersAt(te_cond_avtab'[k])
        BY <4>1 DEF OwnersAt
      <4>3. Len(te_avtab'[k]) <= 1
        <5>1. te_avtab'[k] = te_avtab'[kk]
          BY <3>1
        <5>2. Len(te_avtab'[k]) = 1
          BY <2>3, <5>1
        <5> QED
          BY <5>2
      <4> QED
        BY <4>1, <4>2, <4>3
    <3>2. CASE k # kk
      BY <2>1, <2>5, <3>2 DEF OneConditional, OwnersAt, TypeKeys
    <3> QED
      BY <3>1, <3>2
  <2> QED
    BY <2>6 DEF OneConditional, OwnersAt, TypeKeys
<1>10. CASE o # NoOwner
  <2> DEFINE nodes == te_cond_avtab[kk]
             new == Stored(nodes)
             f == Place(nodes)
  <2>1. te_cond_avtab' = [te_cond_avtab EXCEPT ![kk] = new] /\ te_avtab' = te_avtab
    BY <1>3, <1>10 DEF StoreItem, Stored
  <2>2. o \in Lists
    BY <1>1, <1>10 DEF TaskType
  <2>3. nodes \in Seq(Node(avrule_to_avtab_spec(r.spec))) /\ OwnersAt(nodes)
    BY <1>2, <1>4 DEF OneConditional, OwnersAt
  <2>4. \A j \in DOMAIN nodes : nodes[j].owner[1] = o[1]
    <3>1. nodes # <<>> => nodes[1].owner[1] = o[1] /\ 1 \in DOMAIN nodes
      BY <1>4, <1>6, <1>10 DEF OtherList
    <3> QED
      BY <2>3, <3>1 DEF OwnersAt
  <2>5. /\ new \in Seq(Node(avrule_to_avtab_spec(r.spec)))
        /\ f = 0 => /\ Len(new) = Len(nodes) + 1 /\ new[1].owner = o
                    /\ \A j \in 2 .. Len(new) : new[j] = nodes[j - 1]
        /\ f # 0 => /\ f \in DOMAIN nodes /\ Len(new) = Len(nodes) /\ new[f].owner = o
                    /\ \A j \in DOMAIN nodes \ {f} : new[j] = nodes[j]
    BY <1>7, <2>3
  <2>6. /\ f # 0 => nodes[f].owner = o
        /\ f = 0 => \A j \in DOMAIN nodes : nodes[j].owner # o
    BY <1>8, <1>10, <2>3
  <2> HIDE DEF nodes, new, f, o, r
  <2>7. OwnersAt(new)
    <3>1. CASE f = 0
      <4>1. \A j \in DOMAIN new : j # 1 => j \in 2 .. Len(new) /\ j - 1 \in DOMAIN nodes
        BY <2>3, <2>5, <3>1
      <4>2. \A j \in DOMAIN new : j # 1 => new[j] = nodes[j - 1] /\ new[j].owner # o
                                          /\ new[j].owner[1] = o[1]
        BY <2>4, <2>5, <2>6, <3>1, <4>1
      <4>3. ASSUME NEW i \in DOMAIN new, NEW j \in DOMAIN new, i # 1, j # 1,
                   new[i].owner = new[j].owner
            PROVE  i = j
        <5>1. i - 1 = j - 1
          BY <2>3, <4>1, <4>2, <4>3 DEF OwnersAt
        <5>2. i \in Int /\ j \in Int
          BY <2>5
        <5> QED
          BY <5>1, <5>2
      <4> QED
        BY <2>5, <3>1, <4>2, <4>3 DEF OwnersAt
    <3>2. CASE f # 0
      <4>1. DOMAIN new = DOMAIN nodes
        BY <2>3, <2>5, <3>2
      <4>2. \A j \in DOMAIN new : new[j].owner = nodes[j].owner
        BY <2>5, <2>6, <3>2, <4>1
      <4> QED
        BY <2>3, <4>1, <4>2 DEF OwnersAt
    <3> QED
      BY <3>1, <3>2
  <2>8. te_cond_avtab'[kk] = new /\ te_avtab'[kk] = <<>>
    BY <1>1, <1>5, <2>1 DEF TypeOK
  <2>9. \A k \in Keys \ {kk} : te_cond_avtab'[k] = te_cond_avtab[k]
    BY <2>1 DEF TypeOK
  <2>10. ASSUME NEW k \in TypeKeys
         PROVE  /\ Len(te_avtab'[k]) <= 1
                /\ te_avtab'[k] # <<>> => te_cond_avtab'[k] = <<>>
                /\ OwnersAt(te_cond_avtab'[k])
    <3>1. CASE k = kk
      BY <2>7, <2>8, <3>1
    <3>2. CASE k # kk
      BY <2>1, <2>9, <3>2 DEF OneConditional, OwnersAt, TypeKeys
    <3> QED
      BY <3>1, <3>2
  <2> QED
    BY <2>10 DEF OneConditional, OwnersAt, TypeKeys
<1> QED
  BY <1>9, <1>10

-----------------------------------------------------------------------------
(***************************************************************************)
(* The inductive invariant, and what follows from it.                      *)
(***************************************************************************)
LEMMA InvInit == Init => Inv
<1> SUFFICES ASSUME Init PROVE Inv
  OBVIOUS
<1>1. TypeOK
  BY TypeOKInit
<1>2. \A k \in Keys : te_avtab[k] = <<>> /\ te_cond_avtab[k] = <<>>
  BY DEF Init
<1>3. OneConditional
  BY <1>2 DEF OneConditional, TypeKeys
<1>4. FlagsFollowStates
  BY <1>2 DEF FlagsFollowStates, Init
<1>5. StatesCurrent
  BY DEF StatesCurrent, Init
<1> QED
  BY <1>1, <1>3, <1>4, <1>5 DEF Inv

\* cur_state is the value of a valid expression, through creation of conditionals
\* and changes of the booleans.
LEMMA StatesStep == ASSUME TypeOK, StatesCurrent, [Next]_vars PROVE StatesCurrent'
<1>1. CASE UNCHANGED <<cond_list, bools>>
  BY <1>1 DEF StatesCurrent
<1>2. ASSUME NEW c \in Conds, cond_node_copy(c)
      PROVE  StatesCurrent'
  <2> DEFINE e == StripNot(StripNot(c.expr))
             n == [expr |-> e, cur_state |-> cond_evaluate_expr(bools, e)]
  <2>1. validate_cond_expr(e)
    <3>1. c.expr \in Expr /\ validate_cond_expr(c.expr)
      BY CondsAssumption DEF WellFormedCond
    <3>2. StripNot(c.expr) \in Expr /\ validate_cond_expr(StripNot(c.expr))
      BY <3>1, StrippingKeepsMeaning
    <3> QED
      BY <3>2, StrippingKeepsMeaning
  <2>2. cond_list' = cond_list \/ cond_list' = Append(cond_list, n)
    BY <1>2 DEF cond_node_copy, Normal
  <2>3. bools' = bools /\ n.expr = e /\ n.cur_state = cond_evaluate_expr(bools, e)
    BY <1>2 DEF cond_node_copy
  <2>4. cond_list \in Seq(CondType)
    BY DEF TypeOK, CondType
  <2> HIDE DEF e, n
  <2>5. \A i \in DOMAIN Append(cond_list, n) :
            \/ i \in DOMAIN cond_list /\ Append(cond_list, n)[i] = cond_list[i]
            \/ Append(cond_list, n)[i] = n
    BY <2>4
  <2> QED
    BY <2>1, <2>2, <2>3, <2>5 DEF StatesCurrent
<1>3. ASSUME NEW val, evaluate_conds(val), bools' = val
      PROVE  StatesCurrent'
  <2> DEFINE st == [i \in DOMAIN cond_list |-> cond_evaluate_expr(val, cond_list[i].expr)]
  <2>1. cond_list' = [i \in DOMAIN cond_list |-> [cond_list[i] EXCEPT !.cur_state = st[i]]]
    BY <1>3 DEF evaluate_conds
  <2>2. \A i \in DOMAIN cond_list : cond_list[i] \in CondType
    <3>1. cond_list \in Seq(CondType)
      BY DEF TypeOK, CondType
    <3> QED
      BY <3>1
  <2>3. \A i \in DOMAIN cond_list : st[i] = cond_evaluate_expr(val, cond_list[i].expr)
    OBVIOUS
  <2> HIDE DEF st
  <2>4. /\ DOMAIN cond_list' = DOMAIN cond_list
        /\ \A i \in DOMAIN cond_list : /\ cond_list'[i].expr = cond_list[i].expr
                                       /\ cond_list'[i].cur_state = st[i]
    BY <2>1, <2>2 DEF CondType
  <2> QED
    BY <1>3, <2>3, <2>4 DEF StatesCurrent
<1>4. CASE FinishExpansion
  BY <1>3, <1>4 DEF FinishExpansion
<1>5. ASSUME NEW b \in Bools, NEW v \in States, sepol_bool_set(b, v)
      PROVE  StatesCurrent'
  BY <1>3, <1>5 DEF sepol_bool_set
<1> QED
  BY <1>1, <1>2, <1>4, <1>5
  DEF Next, vars, TakeRule, FinishRule, expand_avrule_helper, expand_terule_helper,
      DuplicateTypeRule, ConflictingTypeRule, OutOfMemory

LEMMA InvStep == Inv /\ [Next]_vars => Inv'
<1> SUFFICES ASSUME Inv, [Next]_vars PROVE OneConditional' /\ FlagsFollowStates'
  BY TypeOKStep, StatesStep DEF Inv
<1> USE DEF Inv
<1>0. TypeOK /\ OneConditional /\ StatesCurrent /\ NodeFlags /\ TaskFlags /\ (status = "expanded" => todo = <<>>)
  BY DEF FlagsFollowStates, NodeFlags, TaskFlags
<1>a. FlagsFollowStates' <=> NodeFlags' /\ TaskFlags' /\ (status' = "expanded" => todo' = <<>>)
  BY DEF FlagsFollowStates, NodeFlags, TaskFlags
<1>b. ASSUME UNCHANGED <<te_avtab, te_cond_avtab>>
      PROVE  OneConditional'
  BY <1>0, <1>b DEF OneConditional
<1>c. ASSUME UNCHANGED <<te_cond_avtab, cond_list>>
      PROVE  NodeFlags'
  BY <1>0, <1>c DEF NodeFlags
<1>1. CASE UNCHANGED vars
  BY <1>0, <1>1, <1>b DEF vars, FlagsFollowStates
<1>2. ASSUME NEW r \in Rules, TakeRule(r)
      PROVE  OneConditional' /\ FlagsFollowStates'
  <2>1. UNCHANGED <<te_avtab, te_cond_avtab, cond_list, status>> /\ status = "expanding"
        /\ todo' = Pending(<<r>>, NoOwner, FALSE)
    BY <1>2 DEF TakeRule, tables, Ready
  <2>2. TaskFlags'
    BY <2>1 DEF TaskFlags, Pending
  <2> QED
    BY <1>a, <1>b, <1>c, <2>1, <2>2
<1>3. ASSUME NEW c \in Conds, cond_node_copy(c)
      PROVE  OneConditional' /\ FlagsFollowStates'
  <2> DEFINE e     == StripNot(StripNot(c.expr))
             i     == cond_node_search(e)
             list  == IF i > Len(cond_list)
                      THEN Append(cond_list, [expr |-> e, cur_state |-> cond_evaluate_expr(bools, e)])
                      ELSE cond_list
             state == list[i].cur_state
             t     == IF Negated(c.expr) THEN c.avfalse ELSE c.avtrue
             f     == IF Negated(c.expr) THEN c.avtrue ELSE c.avfalse
  <2>1. /\ cond_list' = list
        /\ todo' = Pending(t, <<i, "true">>, state # 0) \o Pending(f, <<i, "false">>, state = 0)
        /\ UNCHANGED <<te_avtab, te_cond_avtab, status>> /\ status = "expanding"
    BY <1>3 DEF cond_node_copy, tables, Normal, Ready
  <2>2. t \in Seq(Rules) /\ f \in Seq(Rules)
    BY CondsAssumption DEF WellFormedCond
  <2>3. cond_list \in Seq(CondType) /\ [expr |-> e, cur_state |-> cond_evaluate_expr(bools, e)] \in CondType
    BY CondsAssumption, StripNotType, EvaluateType DEF TypeOK, CondType, WellFormedCond
  <2> HIDE DEF e, i, t, f
  <2>4. \A j \in 1 .. Len(cond_list) : list[j] = cond_list[j]
    BY <2>3
  <2> HIDE DEF list
  <2>5. NodeFlags'
    <3> SUFFICES ASSUME NEW k \in Keys, NEW j \in DOMAIN te_cond_avtab[k]
                 PROVE  te_cond_avtab[k][j].enabled <=> Selected(list, te_cond_avtab[k][j].owner)
      BY <2>1 DEF NodeFlags
    <3>1. te_cond_avtab[k][j].owner[1] \in 1 .. Len(cond_list)
      BY DEF TypeOK, Lists
    <3>2. te_cond_avtab[k][j].enabled <=> Selected(cond_list, te_cond_avtab[k][j].owner)
      BY <1>0 DEF NodeFlags
    <3> QED
      BY <2>4, <3>1, <3>2 DEF Selected
  <2>6. TaskFlags'
    <3> DEFINE bt == state # 0
               bf == state = 0
               pt == Pending(t, <<i, "true">>, bt)
               pf == Pending(f, <<i, "false">>, bf)
               T == {pt[j] : j \in 1 .. Len(t)} \cup {pf[j] : j \in 1 .. Len(f)}
    <3>0. /\ pt = [j \in 1 .. Len(t) |-> [rule |-> t[j], cond |-> <<i, "true">>, enabled |-> bt]]
          /\ pf = [j \in 1 .. Len(f) |-> [rule |-> f[j], cond |-> <<i, "false">>, enabled |-> bf]]
          /\ Len(t) \in Nat /\ Len(f) \in Nat
      BY <2>2 DEF Pending
    <3>8. /\ DOMAIN pt = 1 .. Len(t) /\ pt = [j \in 1 .. Len(t) |-> pt[j]]
          /\ DOMAIN pf = 1 .. Len(f) /\ pf = [j \in 1 .. Len(f) |-> pf[j]]
      <4> HIDE DEF bt, bf
      <4> QED
        BY <3>0, Zenon
    <3>7. pt \in Seq(T) /\ Len(pt) = Len(t) /\ pf \in Seq(T) /\ Len(pf) = Len(f)
      <4> HIDE DEF bt, bf, pt, pf
      <4>1. /\ \A j \in 1 .. Len(t) : pt[j] \in T
            /\ \A j \in 1 .. Len(f) : pf[j] \in T
        OBVIOUS
      <4> HIDE DEF T
      <4> QED
        BY <3>0, <3>8, <4>1, ListedIsSeq
    <3>1. pt \in Seq(T) /\ \A j \in 1 .. Len(pt) : pt[j].cond = <<i, "true">> /\ pt[j].enabled = bt
      <4> HIDE DEF bt, pt, T
      <4> QED
        BY <3>0, <3>7
    <3>2. pf \in Seq(T) /\ \A j \in 1 .. Len(pf) : pf[j].cond = <<i, "false">> /\ pf[j].enabled = bf
      <4> HIDE DEF bf, pf, T
      <4> QED
        BY <3>0, <3>7
    <3>6. /\ bt <=> Selected(list, <<i, "true">>)
          /\ bf <=> Selected(list, <<i, "false">>)
      BY DEF Selected
    <3> HIDE DEF bt, bf, pt, pf, T
    <3>3. \A j \in 1 .. Len(pt) : pt[j].enabled <=> Selected(list, pt[j].cond)
      BY <3>1, <3>6
    <3>4. \A j \in 1 .. Len(pf) : pf[j].enabled <=> Selected(list, pf[j].cond)
      BY <3>2, <3>6
    <3>5. ASSUME NEW j \in DOMAIN todo'
          PROVE  todo'[j].enabled <=> Selected(list, todo'[j].cond)
      <4>1. todo' = pt \o pf
        BY <2>1 DEF pt, pf, bt, bf
      <4>2. CASE j <= Len(pt)
        <5>1. j \in 1 .. Len(pt) /\ todo'[j] = pt[j]
          BY <3>1, <3>2, <4>1, <4>2
        <5> QED
          BY <3>3, <5>1
      <4>3. CASE j > Len(pt)
        <5>1. j - Len(pt) \in 1 .. Len(pf) /\ todo'[j] = pf[j - Len(pt)]
          BY <3>1, <3>2, <4>1, <4>3
        <5> QED
          BY <3>4, <5>1
      <4>4. j \in Nat /\ Len(pt) \in Nat
        BY <3>1, <3>2, <4>1
      <4> QED
        BY <4>2, <4>3, <4>4
    <3> QED
      BY <2>1, <3>5 DEF TaskFlags
  <2> QED
    BY <1>a, <1>b, <2>1, <2>5, <2>6
<1>4. CASE FinishRule
  <2>1. UNCHANGED <<te_avtab, te_cond_avtab, cond_list, status>> /\ status = "expanding"
        /\ todo' = Tail(todo) /\ todo # <<>>
    BY <1>4 DEF FinishRule, Busy, tables
  <2>2. todo \in Seq(TaskType)
    BY <1>0 DEF TypeOK, TaskType
  <2>3. \A j \in DOMAIN todo' : j + 1 \in DOMAIN todo /\ todo'[j] = todo[j + 1]
    BY <2>1, <2>2, HeadTailProperties
  <2>4. TaskFlags'
    BY <1>0, <2>1, <2>3 DEF TaskFlags
  <2> QED
    BY <1>a, <1>b, <1>c, <2>1, <2>4
<1>5. ASSUME AtItem, StoreItem, UNCHANGED <<cond_list, todo, status>>
      PROVE  FlagsFollowStates'
  <2>1. NodeFlags'
    BY <1>0, <1>5, StoreItemFlags
  <2>2. TaskFlags'
    BY <1>0, <1>5 DEF TaskFlags
  <2> QED
    BY <1>0, <1>5, <1>a, <2>1, <2>2
<1>6. CASE expand_avrule_helper
  <2>1. AtItem /\ StoreItem /\ UNCHANGED <<cond_list, todo, status>> /\ Task.rule.spec \notin TypeSpecs
    BY <1>6 DEF expand_avrule_helper
  <2>2. TaskKey \in Keys /\ TaskKey.spec \notin TypeSpecs
    BY <1>0, <2>1, TaskFacts, RuleData DEF WellFormedRule
  <2>3. \A k \in TypeKeys : te_avtab'[k] = te_avtab[k] /\ te_cond_avtab'[k] = te_cond_avtab[k]
    BY <1>0, <2>1, <2>2 DEF StoreItem, TypeKeys, TypeOK
  <2>4. OneConditional'
    BY <1>0, <2>3 DEF OneConditional, TypeKeys
  <2> QED
    BY <1>5, <2>1, <2>4
<1>7. CASE expand_terule_helper
  BY <1>0, <1>5, <1>7, TypeRuleStored DEF expand_terule_helper, AtTypeItem
<1>8. CASE DuplicateTypeRule \/ ConflictingTypeRule \/ OutOfMemory
  <2>1. UNCHANGED <<te_avtab, te_cond_avtab, cond_list, todo>> /\ status' # "expanded"
    BY <1>8 DEF DuplicateTypeRule, ConflictingTypeRule, OutOfMemory, tables, AtTypeItem, AtItem, Busy
  <2>2. TaskFlags'
    BY <1>0, <2>1 DEF TaskFlags
  <2> QED
    BY <1>a, <1>b, <1>c, <2>1, <2>2
<1>9. ASSUME NEW val \in Assignments, evaluate_conds(val), todo = <<>>, UNCHANGED <<te_avtab, todo>>
      PROVE  OneConditional' /\ FlagsFollowStates'
  <2>1. NodeFlags'
    BY <1>0, <1>9, EvaluateFlags
  <2>2. TaskFlags'
    BY <1>9 DEF TaskFlags
  <2>3. ASSUME NEW k \in TypeKeys
        PROVE  /\ Len(te_avtab'[k]) <= 1
               /\ te_avtab'[k] # <<>> => te_cond_avtab'[k] = <<>>
               /\ OwnersAt(te_cond_avtab'[k])
    <3>1. /\ DOMAIN te_cond_avtab'[k] = DOMAIN te_cond_avtab[k]
          /\ te_cond_avtab'[k] \in Seq(Node(k.spec)) /\ te_cond_avtab[k] \in Seq(Node(k.spec))
          /\ \A j \in DOMAIN te_cond_avtab[k] :
                te_cond_avtab'[k][j].owner = te_cond_avtab[k][j].owner
      BY <1>0, <1>9, EvaluateKeepsNodes DEF TypeKeys, TypeOK
    <3>2. OwnersAt(te_cond_avtab'[k])
      BY <1>0, <3>1 DEF OneConditional, OwnersAt
    <3>3. ASSUME te_cond_avtab[k] = <<>> PROVE te_cond_avtab'[k] = <<>>
      <4>1. DOMAIN te_cond_avtab'[k] = {}
        BY <3>1, <3>3
      <4> QED
        BY <3>1, <4>1, EmptyDomain
    <3> QED
      BY <1>0, <1>9, <3>2, <3>3 DEF OneConditional
  <2> QED
    BY <1>a, <1>9, <2>1, <2>2, <2>3 DEF OneConditional, OwnersAt, TypeKeys
<1>10. CASE FinishExpansion
  BY <1>0, <1>9, <1>10 DEF FinishExpansion, TypeOK
<1>11. ASSUME NEW b \in Bools, NEW v \in States, sepol_bool_set(b, v)
       PROVE  OneConditional' /\ FlagsFollowStates'
  <2>1. bools' \in Assignments /\ evaluate_conds(bools') /\ todo = <<>> /\ UNCHANGED <<te_avtab, todo>>
    BY <1>0, <1>11 DEF sepol_bool_set, TypeOK, Assignments
  <2> QED
    BY <1>9, <2>1
<1> QED
  BY <1>1, <1>2, <1>3, <1>4, <1>6, <1>7, <1>8, <1>10, <1>11 DEF Next

LEMMA InvUnambiguous == Inv => TypeRulesUnambiguous
<1> SUFFICES ASSUME Inv, NEW k \in TypeKeys
             PROVE  /\ Len(te_avtab[k]) <= 1
                    /\ \A i, j \in DOMAIN te_cond_avtab[k] :
                          te_cond_avtab[k][i].enabled /\ te_cond_avtab[k][j].enabled => i = j
                    /\ te_avtab[k] # <<>> =>
                          \A i \in DOMAIN te_cond_avtab[k] : ~te_cond_avtab[k][i].enabled
  BY DEF TypeRulesUnambiguous
<1>1. k \in Keys
  BY DEF TypeKeys
<1>2. Len(te_avtab[k]) <= 1 /\ (te_avtab[k] # <<>> => te_cond_avtab[k] = <<>>)
  BY DEF Inv, OneConditional
<1>3. ASSUME NEW i \in DOMAIN te_cond_avtab[k], NEW j \in DOMAIN te_cond_avtab[k],
             te_cond_avtab[k][i].enabled, te_cond_avtab[k][j].enabled
      PROVE  i = j
  <2> DEFINE m == te_cond_avtab[k][i].owner
             n == te_cond_avtab[k][j].owner
  <2>1. m \in Lists /\ n \in Lists
    BY <1>1 DEF Inv, TypeOK
  <2>2. Selected(cond_list, m) /\ Selected(cond_list, n)
    BY <1>1, <1>3 DEF Inv, FlagsFollowStates
  <2>3. m[1] = n[1] /\ (m = n => i = j)
    BY DEF Inv, OneConditional
  <2> HIDE DEF m, n
  <2>4. m[2] = n[2]
    BY <2>1, <2>2, <2>3 DEF Selected, Lists, Branches
  <2> QED
    BY <2>1, <2>3, <2>4 DEF Lists
<1> QED
  BY <1>2, <1>3

\* At most one type rule per key is in force in every state of every expansion
\* and after every change of the booleans.
THEOREM UnambiguousTypeRules == Spec => []TypeRulesUnambiguous
<1>1. Init => Inv
  BY InvInit
<1>2. Inv /\ [Next]_vars => Inv'
  BY InvStep
<1>3. Inv => TypeRulesUnambiguous
  BY InvUnambiguous
<1> QED
  BY <1>1, <1>2, <1>3, PTL DEF Spec

LEMMA InvReadable == Inv => KernelReadAccepts
<1> SUFFICES ASSUME Inv, NEW k \in TypeKeys, NEW i \in DOMAIN te_cond_avtab[k]
             PROVE  cond_insertf(k, i)
  BY DEF KernelReadAccepts
<1> DEFINE nodes == te_cond_avtab[k]
           before == {j \in DOMAIN nodes : WrittenBefore(nodes[j], nodes[i])
                                             \/ (nodes[j].owner = nodes[i].owner /\ j < i)}
<1>1. \A j \in DOMAIN nodes : nodes[j].owner \in Lists
  BY DEF Inv, TypeOK, TypeKeys
<1>2. \A j, l \in DOMAIN nodes : /\ nodes[j].owner[1] = nodes[l].owner[1]
                                 /\ nodes[j].owner = nodes[l].owner => j = l
  BY DEF Inv, OneConditional
<1>3. te_avtab[k] = <<>>
  <2>1. nodes # <<>>
    OBVIOUS
  <2> QED
    BY <2>1 DEF Inv, OneConditional
<1>4. \A j \in DOMAIN nodes : nodes[j].owner[1] \in Nat /\ j \in Nat
  <2>1. nodes \in Seq(Node(k.spec))
    BY DEF Inv, TypeOK, TypeKeys
  <2> QED
    BY <1>1, <2>1 DEF Lists
<1> HIDE DEF nodes
<1>5. \A j \in before : nodes[j].owner[2] = "true" /\ nodes[i].owner[2] = "false"
  BY <1>2, <1>4 DEF WrittenBefore, nodes
<1>6. \A j \in before : nodes[j].owner = OtherList(nodes[i].owner)
  <2> SUFFICES ASSUME NEW j \in before PROVE nodes[j].owner = OtherList(nodes[i].owner)
    OBVIOUS
  <2>1. nodes[i].owner # NoOwner /\ nodes[j].owner \in Lists /\ nodes[i].owner \in Lists
    BY <1>1, OwnerAssumption DEF Lists, Branches, nodes
  <2>2. nodes[j].owner[1] = nodes[i].owner[1]
    BY <1>2 DEF nodes
  <2>3. nodes[j].owner = <<nodes[j].owner[1], nodes[j].owner[2]>>
    BY <2>1 DEF Lists
  <2> QED
    BY <1>5, <2>1, <2>2, <2>3 DEF OtherList, OtherBranch
<1>7. \A j \in before : before = {j}
  BY <1>2, <1>6
<1> QED
  BY <1>3, <1>5, <1>6, <1>7 DEF cond_insertf, nodes

\* Whatever was expanded can be read back: the conflict tests of cond_insertf
\* accept every type rule of the written policy.
THEOREM ExpandedPolicyReadable == Spec => []KernelReadAccepts
<1>1. Init => Inv
  BY InvInit
<1>2. Inv /\ [Next]_vars => Inv'
  BY InvStep
<1>3. Inv => KernelReadAccepts
  BY InvReadable
<1> QED
  BY <1>1, <1>2, <1>3, PTL DEF Spec

LEMMA InvFlagsAgree == Inv => FlagsAgree
<1> SUFFICES ASSUME Inv, NEW k \in Keys, NEW i \in DOMAIN te_cond_avtab[k]
             PROVE  LET n == te_cond_avtab[k][i]
                    IN n.enabled = Enables(n.owner[2],
                                           cond_evaluate_expr(bools, cond_list[n.owner[1]].expr))
  BY DEF FlagsAgree
<1> DEFINE n == te_cond_avtab[k][i]
           c == n.owner[1]
           v == cond_evaluate_expr(bools, cond_list[c].expr)
<1>1. n \in Node(k.spec) /\ n.owner \in Lists /\ DOMAIN cond_list = 1 .. Len(cond_list)
  BY DEF Inv, TypeOK
<1>2. c \in DOMAIN cond_list /\ n.owner[2] \in Branches /\ n.enabled \in BOOLEAN
  BY <1>1 DEF Lists, Node
<1>3. v = cond_list[c].cur_state /\ validate_cond_expr(cond_list[c].expr)
  BY <1>2 DEF Inv, StatesCurrent
<1>4. cond_list[c].expr \in Expr /\ bools \in Assignments
  <2>1. cond_list \in Seq(CondType) /\ bools \in Assignments
    BY DEF Inv, TypeOK, CondType
  <2>2. cond_list[c] \in CondType
    BY <1>2, <2>1
  <2> QED
    BY <2>1, <2>2 DEF CondType
<1>5. v \in States
  BY <1>3, <1>4, ValidExpressionsEvaluate
<1>6. n.enabled <=> (n.owner[2] = "false" <=> v = 0)
  BY <1>3 DEF Inv, FlagsFollowStates, Selected
<1> HIDE DEF n, c, v
<1>7. n.enabled = Enables(n.owner[2], v)
  BY <1>2, <1>5, <1>6 DEF Enables, Branches, States, Undefined
<1> QED
  BY <1>7 DEF n, c, v

(* After the expansion and after every sepol_bool_set, a conditional rule is
   enabled just when it is on the branch that the present booleans choose,
   although evaluate_conds leaves the lists alone whose state did not change. *)
THEOREM FlagsAlwaysAgree == Spec => []FlagsAgree
<1>1. Init => Inv
  BY InvInit
<1>2. Inv /\ [Next]_vars => Inv'
  BY InvStep
<1>3. Inv => FlagsAgree
  BY InvFlagsAgree
<1> QED
  BY <1>1, <1>2, <1>3, PTL DEF Spec

-----------------------------------------------------------------------------
(***************************************************************************)
(* The expanded tables decide access vectors and extended permissions as   *)
(* the source policy asks for: AccessInv and XpermInv of CondPolicy are    *)
(* inductive.  Both are about marks, so all lemmas on the steps are stated *)
(* for a set K of keys whose data have marks.                              *)
(***************************************************************************)

-----------------------------------------------------------------------------
(***************************************************************************)
(* Marks of a node, and what storing a rule does to them.                  *)
(***************************************************************************)
MarkSpecs == AVSpecs \cup XpermSpecs \cup TypeSpecs
MarkKeys == AVKeys \cup XpermKeys \cup TypeKeys

\* Merging a rule adds the rule's marks to those of the node; a fresh node has
\* none of its own.
LEMMA MergedMarks ==
    ASSUME NEW spec \in RuleSpecs, avrule_to_avtab_spec(spec) \in MarkSpecs,
           NEW old \in DataOf(spec), NEW data \in DataOf(spec), NEW x,
           spec \in XpermSpecs => old.driver = data.driver
    PROVE  LET av == avrule_to_avtab_spec(spec)
           IN /\ x \in Marks(av, MergeDatum(spec, FreshDatum(av, data), data)) <=> x \in Marks(spec, data)
              /\ x \in Marks(av, MergeDatum(spec, old, data)) <=>
                    x \in Marks(av, old) \/ x \in Marks(spec, data)
<1>1. \/ spec \in {"allowed", "auditallow", "auditdeny", "dontaudit"}
      \/ spec \in XpermSpecs \/ spec \in TypeSpecs
  BY DEF avrule_to_avtab_spec, MarkSpecs, AVSpecs
<1>2. CASE spec \in {"allowed", "auditallow"}
  <2>1. avrule_to_avtab_spec(spec) = spec /\ FreshDatum(spec, data) = {}
    BY <1>2 DEF avrule_to_avtab_spec, FreshDatum
  <2>2. \A o : MergeDatum(spec, o, data) = o \cup data
    BY <1>2 DEF MergeDatum, XpermSpecs
  <2>3. \A d : Marks(spec, d) = d
    BY <1>2 DEF Marks, TypeSpecs, XpermSpecs
  <2> QED
    BY <2>1, <2>2, <2>3
<1>3. CASE spec = "auditdeny"
  <2>1. /\ avrule_to_avtab_spec(spec) = spec /\ FreshDatum(spec, data) = Perms
        /\ data \subseteq Perms /\ old \subseteq Perms
    BY <1>3 DEF avrule_to_avtab_spec, FreshDatum, DataOf, TypeSpecs, XpermSpecs
  <2>2. \A o : MergeDatum(spec, o, data) = o \cap data
    BY <1>3 DEF MergeDatum, XpermSpecs
  <2>3. \A d : Marks(spec, d) = Perms \ d
    BY <1>3 DEF Marks, TypeSpecs, XpermSpecs
  <2> QED
    BY <2>1, <2>2, <2>3
<1>4. CASE spec = "dontaudit"
  <2>1. /\ avrule_to_avtab_spec(spec) = "auditdeny" /\ FreshDatum("auditdeny", data) = Perms
        /\ data \subseteq Perms /\ old \subseteq Perms
    BY <1>4 DEF avrule_to_avtab_spec, FreshDatum, DataOf, TypeSpecs, XpermSpecs
  <2>2. \A o : MergeDatum(spec, o, data) = o \ data
    BY <1>4 DEF MergeDatum, XpermSpecs
  <2>3. \A d : Marks(spec, d) = d /\ Marks("auditdeny", d) = Perms \ d
    BY <1>4 DEF Marks, TypeSpecs, XpermSpecs
  <2> QED
    BY <2>1, <2>2, <2>3
<1>5. CASE spec \in XpermSpecs
  <2>1. avrule_to_avtab_spec(spec) = spec /\ FreshDatum(spec, data) = data
    BY <1>5 DEF avrule_to_avtab_spec, FreshDatum, XpermSpecs
  <2>2. \A o : MergeDatum(spec, o, data) = [driver |-> data.driver, perms |-> o.perms \cup data.perms]
    BY <1>5 DEF MergeDatum, XpermSpecs
  <2>3. \A d : Marks(spec, d) = {d.driver} \X d.perms
    BY <1>5 DEF Marks, TypeSpecs, XpermSpecs
  <2>4. \A o : /\ MergeDatum(spec, o, data).driver = data.driver
               /\ MergeDatum(spec, o, data).perms = o.perms \cup data.perms
    BY <2>2
  <2>5. old.driver = data.driver
    BY <1>5
  <2> QED
    BY <2>1, <2>3, <2>4, <2>5
<1>6. CASE spec \in TypeSpecs
  <2>1. avrule_to_avtab_spec(spec) = spec
    BY <1>6 DEF avrule_to_avtab_spec, TypeSpecs
  <2>2. \A d : Marks(spec, d) = {TypeMark(spec)}
    BY <1>6 DEF Marks, TypeSpecs, XpermSpecs
  <2> QED
    BY <2>1, <2>2
<1> QED
  BY <1>1, <1>2, <1>3, <1>4, <1>5, <1>6

\* A rule with marks is not a neverallow, and carries data of its key's kind.
LEMMA MarkData ==
    ASSUME NEW spec \in RuleSpecs, avrule_to_avtab_spec(spec) \in MarkSpecs
    PROVE  /\ spec # "neverallow" /\ DataOf(avrule_to_avtab_spec(spec)) = DataOf(spec)
           /\ spec \in XpermSpecs <=> avrule_to_avtab_spec(spec) \in XpermSpecs
           /\ \A d \in DataOf(spec) : Marks(spec, d) \subseteq AllMarks
<1>1. /\ spec # "neverallow" /\ DataOf(avrule_to_avtab_spec(spec)) = DataOf(spec)
      /\ spec \in XpermSpecs <=> avrule_to_avtab_spec(spec) \in XpermSpecs
  BY DEF avrule_to_avtab_spec, MarkSpecs, AVSpecs, DataOf, TypeSpecs, XpermSpecs
<1>2. ASSUME NEW d \in DataOf(spec) PROVE Marks(spec, d) \subseteq AllMarks
  <2>1. CASE spec \in XpermSpecs
    <3>1. d.driver \in Drivers /\ d.perms \in SUBSET Perms
      BY <2>1 DEF DataOf, TypeSpecs, XpermSpecs
    <3> QED
      BY <2>1, <3>1 DEF Marks, AllMarks, TypeSpecs, XpermSpecs
  <2>2. CASE spec \in TypeSpecs
    <3>1. Marks(spec, d) = {TypeMark(spec)}
      BY <2>2 DEF Marks, TypeSpecs, XpermSpecs
    <3> QED
      BY <2>2, <3>1 DEF AllMarks
  <2>3. CASE spec \notin XpermSpecs \cup TypeSpecs
    <3>1. d \in SUBSET Perms
      BY <2>3 DEF DataOf, TypeSpecs, MarkSpecs, AVSpecs, XpermSpecs, avrule_to_avtab_spec
    <3> QED
      BY <2>3, <3>1 DEF Marks, AllMarks, TypeSpecs, XpermSpecs
  <2> QED
    BY <2>1, <2>2, <2>3
<1> QED
  BY <1>1, <1>2

\* Store adds the marks of the rule to the rule's own list, and none elsewhere.
LEMMA StoreMarks ==
    ASSUME NEW spec \in RuleSpecs, avrule_to_avtab_spec(spec) \in MarkSpecs,
           NEW nodes \in Seq(Node(avrule_to_avtab_spec(spec))),
           NEW cond \in Owners \cup {NoOwner}, NEW enabled \in BOOLEAN, NEW data \in DataOf(spec),
           NEW owner, owner = NoOwner <=> cond = NoOwner, NEW x,
           spec \in XpermSpecs /\ cond # NoOwner =>
              \A j \in DOMAIN nodes : nodes[j].owner = cond => nodes[j].data.driver = data.driver
    PROVE  HoldsIn(Store(nodes, spec, cond, enabled, data), avrule_to_avtab_spec(spec), owner, x) <=>
             \/ HoldsIn(nodes, avrule_to_avtab_spec(spec), owner, x)
             \/ owner = cond /\ x \in Marks(spec, data)
<1> DEFINE av == avrule_to_avtab_spec(spec)
           i == find_avtab_node(nodes, av, cond, data)
           new == Store(nodes, spec, cond, enabled, data)
           Has(n) == x \in Marks(av, n.data)
<1>1. /\ spec # "neverallow" /\ DataOf(av) = DataOf(spec)
      /\ spec \in XpermSpecs <=> av \in XpermSpecs
  BY MarkData
<1>2. /\ i \in {0} \cup DOMAIN nodes
      /\ cond # NoOwner /\ i # 0 => nodes[i].owner = cond
      /\ av \in XpermSpecs /\ cond = NoOwner /\ i # 0 => nodes[i].data.driver = data.driver
  BY FindNode
<1>3. /\ new \in Seq(Node(av))
      /\ i = 0 => /\ Len(new) = Len(nodes) + 1
                  /\ new[1].owner = cond
                  /\ \A j \in 2 .. Len(new) : new[j] = nodes[j - 1]
      /\ i # 0 => /\ i \in DOMAIN nodes /\ Len(new) = Len(nodes)
                  /\ new[i].owner = cond
                  /\ \A j \in DOMAIN nodes \ {i} : new[j] = nodes[j]
  BY <1>1, StoreShape, SMTT(30)
<1>4. /\ i = 0 => new[1].data = MergeDatum(spec, FreshDatum(av, data), data)
      /\ i # 0 => new[i].data = MergeDatum(spec, nodes[i].data, data)
  <2> DEFINE New(old) == [owner |-> cond, enabled |-> enabled, data |-> MergeDatum(spec, old, data)]
  <2>1. new = IF i = 0 THEN InsertFirst(New(FreshDatum(av, data)), nodes)
                       ELSE [nodes EXCEPT ![i] = New(nodes[i].data)]
    BY DEF Store
  <2>2. \A o : New(o).data = MergeDatum(spec, o, data)
    OBVIOUS
  <2>3. Len(nodes) \in Nat
    OBVIOUS
  <2> HIDE DEF New, i, new, av
  <2>4. CASE i = 0
    <3>1. new[1] = New(FreshDatum(av, data))
      BY <2>1, <2>3, <2>4 DEF InsertFirst
    <3> QED
      BY <2>2, <2>4, <3>1
  <2>5. CASE i # 0
    <3>1. new[i] = New(nodes[i].data)
      BY <1>2, <2>1, <2>5
    <3> QED
      BY <2>2, <2>5, <3>1
  <2> QED
    BY <2>4, <2>5
<1>5. i = 0 => (Has(new[1]) <=> x \in Marks(spec, data))
  BY <1>4, MergedMarks
<1>6. i # 0 => (Has(new[i]) <=> Has(nodes[i]) \/ x \in Marks(spec, data))
  <2> SUFFICES ASSUME i # 0 PROVE Has(new[i]) <=> Has(nodes[i]) \/ x \in Marks(spec, data)
    OBVIOUS
  <2>1. nodes[i] \in Node(av)
    BY <1>2
  <2>2. nodes[i].data \in DataOf(spec)
    BY <1>1, <2>1 DEF Node
  <2>3. spec \in XpermSpecs => nodes[i].data.driver = data.driver
    BY <1>1, <1>2
  <2> HIDE DEF i
  <2> QED
    BY <1>4, <2>2, <2>3, MergedMarks
<1>7. /\ HoldsIn(new, av, owner, x) <=>
            \E j \in DOMAIN new : (owner # NoOwner => new[j].owner = owner) /\ Has(new[j])
      /\ HoldsIn(nodes, av, owner, x) <=>
            \E j \in DOMAIN nodes : (owner # NoOwner => nodes[j].owner = owner) /\ Has(nodes[j])
  BY DEF HoldsIn
<1>8. Len(nodes) \in Nat /\ DOMAIN nodes = 1 .. Len(nodes) /\ DOMAIN new = 1 .. Len(new)
  BY <1>3
<1> HIDE DEF new, i, av, Has
<1> DEFINE Own(n) == owner # NoOwner => n.owner = owner
<1>a. \A n : n.owner = cond => (Own(n) <=> owner = cond)
  OBVIOUS
<1>b. /\ HoldsIn(new, av, owner, x) <=> \E j \in DOMAIN new : Own(new[j]) /\ Has(new[j])
      /\ HoldsIn(nodes, av, owner, x) <=> \E j \in DOMAIN nodes : Own(nodes[j]) /\ Has(nodes[j])
  BY <1>7
<1>c. i # 0 => (Own(nodes[i]) <=> owner = cond)
  BY <1>2
<1> HIDE DEF Own
<1>9. CASE i = 0
  <2>1. DOMAIN new = 1 .. Len(nodes) + 1 /\ 1 \in DOMAIN new
    BY <1>3, <1>8, <1>9
  <2>2. ASSUME NEW j \in DOMAIN nodes PROVE j + 1 \in DOMAIN new /\ new[j + 1] = nodes[j]
    <3>1. j + 1 \in 2 .. Len(new) /\ j + 1 - 1 = j
      BY <1>3, <1>8, <1>9
    <3> QED
      BY <1>3, <1>8, <1>9, <2>1, <3>1
  <2>3. ASSUME NEW j \in DOMAIN new, j # 1 PROVE j - 1 \in DOMAIN nodes /\ new[j] = nodes[j - 1]
    BY <1>3, <1>8, <1>9, <2>1, <2>3
  <2>4. Own(new[1]) /\ Has(new[1]) <=> owner = cond /\ x \in Marks(spec, data)
    BY <1>3, <1>5, <1>9, <1>a
  <2>5. ASSUME NEW j \in DOMAIN new, Own(new[j]), Has(new[j])
        PROVE  (\E l \in DOMAIN nodes : Own(nodes[l]) /\ Has(nodes[l]))
                  \/ (owner = cond /\ x \in Marks(spec, data))
    <3>1. CASE j = 1
      BY <2>4, <2>5, <3>1
    <3>2. CASE j # 1
      BY <2>3, <2>5, <3>2, Zenon
    <3> QED
      BY <3>1, <3>2
  <2>6. ASSUME NEW l \in DOMAIN nodes, Own(nodes[l]), Has(nodes[l])
        PROVE  \E j \in DOMAIN new : Own(new[j]) /\ Has(new[j])
    BY <2>2, <2>6, Zenon
  <2> QED
    BY <1>b, <2>1, <2>4, <2>5, <2>6, Zenon DEF new, av
<1>10. CASE i # 0
  <2>1. DOMAIN new = DOMAIN nodes /\ i \in DOMAIN nodes
    BY <1>3, <1>8, <1>10
  <2>2. \A j \in DOMAIN nodes \ {i} : new[j] = nodes[j]
    BY <1>3, <1>10
  <2>3. Own(new[i]) <=> owner = cond
    BY <1>3, <1>10, <1>a
  <2>4. Own(new[i]) /\ Has(new[i]) <=>
           (Own(nodes[i]) /\ Has(nodes[i])) \/ (owner = cond /\ x \in Marks(spec, data))
    BY <1>6, <1>10, <1>c, <2>3
  <2>5. ASSUME NEW j \in DOMAIN nodes, j # i
        PROVE  Own(new[j]) /\ Has(new[j]) <=> Own(nodes[j]) /\ Has(nodes[j])
    BY <2>2, <2>5, Zenon
  <2> QED
    BY <1>b, <2>1, <2>4, <2>5, Zenon DEF new, av
<1> QED
  BY <1>9, <1>10 DEF new, av

-----------------------------------------------------------------------------
(***************************************************************************)
(* What the steps do to the marks held by the lists.                       *)
(***************************************************************************)
AllLists == Lists \cup {NoOwner}

LEMMA ListsAreOwners ==
    ASSUME TypeOK
    PROVE  /\ \A o \in Lists : o # NoOwner /\ o \in Owners
           /\ DOMAIN cond_list = 1 .. Len(cond_list) /\ Len(cond_list) \in Nat
           /\ \A o \in Lists : o[1] \in DOMAIN cond_list /\ o[2] \in Branches
<1>1. DOMAIN cond_list = 1 .. Len(cond_list) /\ Len(cond_list) \in Nat
  BY DEF TypeOK
<1>2. \A o \in Lists : o \in Nat \X Branches /\ o \in Owners
  BY <1>1 DEF Lists, Owners
<1> QED
  BY <1>1, <1>2, OwnerAssumption DEF Lists, Branches

\* Storing an item adds its marks to the rule's own list.
LEMMA StoreItemMarks ==
    ASSUME TypeOK, AtItem, StoreItem,
           NEW owner \in AllLists, NEW k \in MarkKeys, NEW x,
           k \in XpermKeys /\ k = TaskKey /\ Task.cond # NoOwner =>
              \A j \in DOMAIN te_cond_avtab[k] :
                 te_cond_avtab[k][j].owner = Task.cond => te_cond_avtab[k][j].data.driver = Item.data.driver
    PROVE  HoldsMark(owner, k, x)' <=>
             \/ HoldsMark(owner, k, x)
             \/ owner = Task.cond /\ k = TaskKey /\ x \in Marks(Task.rule.spec, Item.data)
<1> DEFINE r == Task.rule
           kk == TaskKey
           av == avrule_to_avtab_spec(r.spec)
           en == Task.enabled
           d == Item.data
           cond == Task.cond
           Stored(nodes) == Store(nodes, r.spec, cond, en, d)
<1>1. /\ Task \in TaskType
      /\ r.spec \in RuleSpecs /\ r.spec # "neverallow"
      /\ d \in DataOf(r.spec)
      /\ kk \in Keys /\ kk.spec = av
      /\ cond \in Owners \cup {NoOwner} /\ en \in BOOLEAN
  BY TaskFacts DEF WellFormedRule, TaskType
<1>2. k \in Keys /\ k.spec \in MarkSpecs /\ (k.spec \in XpermSpecs => k \in XpermKeys)
  BY DEF MarkKeys, MarkSpecs, AVKeys, XpermKeys, TypeKeys, AVSpecs, XpermSpecs, TypeSpecs
<1>3. ASSUME k = kk, owner = NoOwner <=> cond = NoOwner, NEW nodes \in Seq(Node(av)),
             cond # NoOwner => nodes = te_cond_avtab[k]
      PROVE  HoldsIn(Stored(nodes), k.spec, owner, x) <=>
                HoldsIn(nodes, k.spec, owner, x) \/ (owner = cond /\ x \in Marks(r.spec, d))
  <2>1. av \in MarkSpecs /\ k.spec = av
    BY <1>1, <1>2, <1>3
  <2>2. r.spec \in XpermSpecs /\ cond # NoOwner =>
          \A j \in DOMAIN nodes : nodes[j].owner = cond => nodes[j].data.driver = d.driver
    <3>1. r.spec \in XpermSpecs => av \in XpermSpecs
      BY <1>1, <2>1, MarkData
    <3> QED
      BY <1>2, <1>3, <2>1, <3>1
  <2>3. r.spec \in RuleSpecs /\ cond \in Owners \cup {NoOwner} /\ en \in BOOLEAN /\ d \in DataOf(r.spec)
    BY <1>1
  <2>4. nodes \in Seq(Node(avrule_to_avtab_spec(r.spec))) /\ avrule_to_avtab_spec(r.spec) \in MarkSpecs
    BY <1>3, <2>1
  <2> HIDE DEF r, d, en, cond
  <2>5. HoldsIn(Store(nodes, r.spec, cond, en, d), avrule_to_avtab_spec(r.spec), owner, x) <=>
           HoldsIn(nodes, avrule_to_avtab_spec(r.spec), owner, x) \/ (owner = cond /\ x \in Marks(r.spec, d))
    BY <1>3, <2>2, <2>3, <2>4, StoreMarks
  <2> QED
    BY <2>1, <2>5
<1>4. te_avtab[kk] \in Seq(Node(av)) /\ te_cond_avtab[kk] \in Seq(Node(av))
      /\ DOMAIN te_avtab = Keys /\ DOMAIN te_cond_avtab = Keys
  BY <1>1 DEF TypeOK
<1>5. /\ HoldsMark(owner, k, x) <=>
            HoldsIn(IF owner = NoOwner THEN te_avtab[k] ELSE te_cond_avtab[k], k.spec, owner, x)
      /\ HoldsMark(owner, k, x)' <=>
            HoldsIn(IF owner = NoOwner THEN te_avtab'[k] ELSE te_cond_avtab'[k], k.spec, owner, x)
  BY DEF HoldsMark, HoldsIn
<1>6. IF cond = NoOwner
      THEN te_avtab' = [te_avtab EXCEPT ![kk] = Stored(te_avtab[kk])] /\ te_cond_avtab' = te_cond_avtab
      ELSE te_cond_avtab' = [te_cond_avtab EXCEPT ![kk] = Stored(te_cond_avtab[kk])] /\ te_avtab' = te_avtab
  BY DEF StoreItem
<1> HIDE DEF r, kk, av, d, cond, Stored, en
<1>7. CASE k # kk
  <2>1. te_avtab'[k] = te_avtab[k] /\ te_cond_avtab'[k] = te_cond_avtab[k]
    BY <1>2, <1>4, <1>6, <1>7
  <2> QED
    BY <1>5, <1>7, <2>1 DEF kk
<1>8. CASE k = kk /\ (owner = NoOwner <=> cond = NoOwner)
  <2>1. /\ owner = NoOwner => te_avtab'[k] = Stored(te_avtab[k])
        /\ owner # NoOwner => te_cond_avtab'[k] = Stored(te_cond_avtab[k])
    BY <1>2, <1>4, <1>6, <1>8
  <2>2. CASE owner = NoOwner
    <3>1. HoldsIn(Stored(te_avtab[k]), k.spec, owner, x) <=>
             HoldsIn(te_avtab[k], k.spec, owner, x) \/ (owner = cond /\ x \in Marks(r.spec, d))
      BY <1>3, <1>4, <1>8, <2>2
    <3> QED
      BY <1>5, <1>8, <2>1, <2>2, <3>1 DEF kk, cond, r, d
  <2>3. CASE owner # NoOwner
    <3>1. HoldsIn(Stored(te_cond_avtab[k]), k.spec, owner, x) <=>
             HoldsIn(te_cond_avtab[k], k.spec, owner, x) \/ (owner = cond /\ x \in Marks(r.spec, d))
      BY <1>3, <1>4, <1>8
    <3> QED
      BY <1>5, <1>8, <2>1, <2>3, <3>1 DEF kk, cond, r, d
  <2> QED
    BY <2>2, <2>3
<1>9. CASE k = kk /\ ~(owner = NoOwner <=> cond = NoOwner)
  <2>1. (IF owner = NoOwner THEN te_avtab'[k] ELSE te_cond_avtab'[k])
          = IF owner = NoOwner THEN te_avtab[k] ELSE te_cond_avtab[k]
    BY <1>6, <1>9
  <2>2. owner # cond
    BY <1>9
  <2> QED
    BY <1>5, <2>1, <2>2 DEF cond
<1> QED
  BY <1>7, <1>8, <1>9

\* evaluate_conds keeps the marks and the expressions.
LEMMA EvaluateMarks ==
    ASSUME TypeOK, NEW w, evaluate_conds(w), te_avtab' = te_avtab
    PROVE  /\ Lists' = Lists
           /\ \A owner \in AllLists, k \in Keys : \A x :
                 HoldsMark(owner, k, x)' <=> HoldsMark(owner, k, x)
           /\ \A owner \in AllLists, val \in Assignments : InForce(val, owner)' <=> InForce(val, owner)
<1>1. Lists' = Lists
  BY EvaluateKeepsNodes DEF Lists
<1>2. ASSUME NEW owner \in AllLists, NEW k \in Keys, NEW x
      PROVE  HoldsMark(owner, k, x)' <=> HoldsMark(owner, k, x)
  <2>1. /\ DOMAIN te_cond_avtab'[k] = DOMAIN te_cond_avtab[k]
        /\ \A i \in DOMAIN te_cond_avtab[k] :
              /\ te_cond_avtab'[k][i].owner = te_cond_avtab[k][i].owner
              /\ te_cond_avtab'[k][i].data = te_cond_avtab[k][i].data
    BY EvaluateKeepsNodes
  <2> QED
    BY <2>1 DEF HoldsMark, HoldsIn
<1>3. ASSUME NEW owner \in AllLists, NEW val \in Assignments
      PROVE  InForce(val, owner)' <=> InForce(val, owner)
  <2>1. owner # NoOwner => owner[1] \in DOMAIN cond_list
    BY ListsAreOwners DEF AllLists
  <2>2. \A i \in DOMAIN cond_list : cond_list'[i].expr = cond_list[i].expr
    BY EvaluateKeepsNodes
  <2> QED
    BY <2>1, <2>2 DEF InForce
<1> QED
  BY <1>1, <1>2, <1>3

-----------------------------------------------------------------------------
(***************************************************************************)
(* The steps.                                                              *)
(***************************************************************************)
\* A list in which nothing is before the cursor has nothing to show.
LEMMA NothingBefore ==
    ASSUME NEW K, pos' = FirstPos, todo' \in Seq(TaskType')
    PROVE  ItemsStored(K)'
<1> SUFFICES ASSUME todo' # <<>>,
                    NEW p \in DOMAIN Task'.rule.pairs, NEW i \in DOMAIN Task'.rule.perms, Before(p, i)'
             PROVE  FALSE
  BY DEF ItemsStored
<1>1. Task' \in TaskType'
  <2> DEFINE X == TaskType'
  <2> HIDE DEF X
  <2>1. todo' \in Seq(X)
    BY DEF X
  <2> QED
    BY <2>1, HeadTailProperties DEF Task, X
<1>2. WellFormedRule(Task'.rule)
  BY <1>1, RulesAssumption DEF TaskType
<1>3. p \in Nat \ {0} /\ i \in Nat \ {0}
  <2>1. p \in 1 .. Len(Task'.rule.pairs) /\ i \in 1 .. Len(Task'.rule.perms)
    BY <1>2 DEF WellFormedRule
  <2> QED
    BY <2>1
<1>4. p < 1 \/ (p = 1 /\ i < 1)
  BY DEF Before, FirstPos
<1> QED
  BY <1>3, <1>4

\* A rule asks for marks of a key only with a rule of the key's kind.
LEMMA Asked ==
    ASSUME NEW r \in Rules, NEW p \in DOMAIN r.pairs, NEW i \in DOMAIN r.perms, ~Skipped(r)
    PROVE  /\ KeyOf(r, r.pairs[p], r.perms[i]) \in Keys
           /\ KeyOf(r, r.pairs[p], r.perms[i]).spec = avrule_to_avtab_spec(r.spec)
           /\ r.spec \in RuleSpecs /\ r.perms[i].data \in DataOf(r.spec)
           /\ KeyOf(r, r.pairs[p], r.perms[i]) \in MarkKeys =>
                 /\ avrule_to_avtab_spec(r.spec) \in MarkSpecs
                 /\ Marks(r.spec, r.perms[i].data) \subseteq AllMarks
<1>1. r.spec # "neverallow" /\ WellFormedRule(r)
  BY RulesAssumption DEF Skipped
<1>2. KeyOf(r, r.pairs[p], r.perms[i]) \in Keys
  BY <1>1 DEF Keys
<1>3. KeyOf(r, r.pairs[p], r.perms[i]).spec = avrule_to_avtab_spec(r.spec)
  BY DEF KeyOf
<1>4. r.perms[i].data \in DataOf(r.spec) /\ r.spec \in RuleSpecs
  <2> DEFINE X == [tclass : Classes, data : DataOf(r.spec)]
  <2>1. r.perms \in Seq(X) /\ r.spec \in RuleSpecs
    BY <1>1 DEF WellFormedRule
  <2> HIDE DEF X
  <2>2. r.perms[i] \in X
    BY <2>1
  <2> QED
    BY <2>1, <2>2 DEF X
<1>5. KeyOf(r, r.pairs[p], r.perms[i]) \in MarkKeys => avrule_to_avtab_spec(r.spec) \in MarkSpecs
  BY <1>3 DEF MarkKeys, AVKeys, XpermKeys, TypeKeys, MarkSpecs
<1> QED
  BY <1>2, <1>3, <1>4, <1>5, MarkData

\* The nodes in the list of the rule at hand are of the driver it is about.
FindsDriver(K) ==
    TaskKey \in K \cap XpermKeys /\ Task.cond # NoOwner =>
        \A j \in DOMAIN te_cond_avtab[TaskKey] : te_cond_avtab[TaskKey][j].owner = Task.cond =>
            te_cond_avtab[TaskKey][j].data.driver = Item.data.driver

\* The pair that a duplicate leaves has all its marks stored.
PairStored(K) ==
    LET r == Task.rule IN
    \A i \in DOMAIN r.perms : KeyOf(r, r.pairs[pos.pair], r.perms[i]) \in K =>
        \A x \in Marks(r.spec, r.perms[i].data) :
            HoldsMark(Task.cond, KeyOf(r, r.pairs[pos.pair], r.perms[i]), x)

\* Storing one class: the marks that become stored were waiting, and the item
\* passed by the cursor has its marks stored.
LEMMA StoreKeeps ==
    ASSUME NEW K \in SUBSET MarkKeys, TypeOK, MarksKept(K), ItemsStored(K), FindsDriver(K),
           AtItem, StoreItem, pos' = NextItem,
           UNCHANGED <<cond_list, bools, todo, status, given>>
    PROVE  MarksKept(K)' /\ ItemsStored(K)'
<1> DEFINE r == Task.rule
           d == Item.data
           kk == TaskKey
           cond == Task.cond
<1>1. /\ Lists' = Lists /\ Task' = Task
      /\ \A o, val : InForce(val, o)' <=> InForce(val, o)
  BY DEF Lists, Task, InForce
<1>2. /\ Task \in TaskType /\ WellFormedRule(r) /\ r \in Rules /\ kk \in Keys
      /\ cond \in AllLists
      /\ kk = KeyOf(r, r.pairs[pos.pair], r.perms[pos.item]) /\ d = r.perms[pos.item].data
  BY TaskFacts DEF TaskType, AllLists, TaskKey, Item
<1>3. /\ todo # <<>> /\ ~Skipped(r)
      /\ pos.pair \in 1 .. Len(r.pairs) /\ pos.item \in 1 .. Len(r.perms)
      /\ DOMAIN r.pairs = 1 .. Len(r.pairs) /\ DOMAIN r.perms = 1 .. Len(r.perms)
      /\ Len(r.pairs) \in Nat /\ Len(r.perms) \in Nat
  BY <1>2, SMTT(30) DEF TypeOK, AtItem, Busy, WellFormedRule
<1>4. todo \in Seq(TaskType) /\ 1 \in DOMAIN todo /\ todo[1] = Task
  <2>1. todo \in Seq(TaskType)
    BY DEF TypeOK, TaskType
  <2> HIDE DEF TaskType
  <2> QED
    BY <1>3, <2>1 DEF Task
<1>5. \A o \in AllLists, k \in K, x \in AllMarks :
         HoldsMark(o, k, x)' <=>
            HoldsMark(o, k, x) \/ (o = cond /\ k = kk /\ x \in Marks(r.spec, d))
  <2> SUFFICES ASSUME NEW o \in AllLists, NEW k \in K, NEW x
               PROVE  HoldsMark(o, k, x)' <=>
                         HoldsMark(o, k, x) \/ (o = cond /\ k = kk /\ x \in Marks(r.spec, d))
    OBVIOUS
  <2>1. k \in MarkKeys
    OBVIOUS
  <2>2. k \in XpermKeys /\ k = TaskKey /\ Task.cond # NoOwner =>
          \A j \in DOMAIN te_cond_avtab[k] :
             te_cond_avtab[k][j].owner = Task.cond => te_cond_avtab[k][j].data.driver = Item.data.driver
    BY DEF FindsDriver
  <2> QED
    BY <2>1, <2>2, StoreItemMarks
<1> HIDE DEF r, d, kk, cond
<1>6. MarksKept(K)'
  <2> SUFFICES ASSUME NEW val \in Assignments, NEW k \in K, NEW x \in AllMarks
               PROVE  (StoredMark(val, k, x) \/ WaitingMark(val, k, x) <=> SourceMark(val, k, x))'
    BY DEF MarksKept
  <2>1. WaitingMark(val, k, x)' <=> WaitingMark(val, k, x)
    BY <1>1 DEF WaitingMark, AsksMark
  <2>2. SourceMark(val, k, x)' <=> SourceMark(val, k, x)
    BY DEF SourceMark
  <2>3. StoredMark(val, k, x)' <=>
           StoredMark(val, k, x) \/ (InForce(val, cond) /\ k = kk /\ x \in Marks(r.spec, d))
    BY <1>1, <1>2, <1>5 DEF StoredMark, AllLists
  <2>4. ASSUME InForce(val, cond), k = kk, x \in Marks(r.spec, d)
        PROVE  WaitingMark(val, k, x)
    <3>1. AsksMark(r, k, x)
      BY <1>2, <1>3, <2>4 DEF AsksMark
    <3> QED
      BY <1>4, <2>4, <3>1 DEF WaitingMark, r, cond
  <2>5. StoredMark(val, k, x) \/ WaitingMark(val, k, x) <=> SourceMark(val, k, x)
    BY DEF MarksKept
  <2> QED
    BY <2>1, <2>2, <2>3, <2>4, <2>5
<1>7. ItemsStored(K)'
  <2> DEFINE Held(o, k, x) ==
               HoldsIn(IF o = NoOwner THEN te_avtab'[k] ELSE te_cond_avtab'[k], k.spec, o, x)
  <2>a. \A o, k, x : HoldsMark(o, k, x)' <=> Held(o, k, x)
    BY DEF HoldsMark, HoldsIn
  <2>b. ItemsStored(K)' <=>
          \A p \in DOMAIN r.pairs, i \in DOMAIN r.perms :
             Before(p, i)' /\ ~Skipped(r) /\ KeyOf(r, r.pairs[p], r.perms[i]) \in K =>
                \A x \in Marks(r.spec, r.perms[i].data) :
                    Held(cond, KeyOf(r, r.pairs[p], r.perms[i]), x)
    BY <1>1, <1>3 DEF ItemsStored, HoldsMark, r, cond
  <2> HIDE DEF Held
  <2> SUFFICES ASSUME NEW p \in DOMAIN r.pairs, NEW i \in DOMAIN r.perms, Before(p, i)',
                      KeyOf(r, r.pairs[p], r.perms[i]) \in K,
                      NEW x \in Marks(r.spec, r.perms[i].data)
               PROVE  Held(cond, KeyOf(r, r.pairs[p], r.perms[i]), x)
    BY <2>b
  <2>1. KeyOf(r, r.pairs[p], r.perms[i]) \in MarkKeys /\ x \in AllMarks
    BY <1>2, <1>3, Asked
  <2>2. Before(p, i) \/ (p = pos.pair /\ i = pos.item)
    <3>1. p \in 1 .. Len(r.pairs) /\ i \in 1 .. Len(r.perms) /\ pos \in [pair : Nat \ {0}, item : Nat \ {0}]
      BY <1>3 DEF TypeOK
    <3>2. pos' = IF pos.item < Len(r.perms) THEN [pos EXCEPT !.item = @ + 1]
                                            ELSE [pair |-> pos.pair + 1, item |-> 1]
      BY DEF NextItem, NextPair, r
    <3>3. p < pos'.pair \/ (p = pos'.pair /\ i < pos'.item)
      BY DEF Before
    <3>4. CASE pos.item < Len(r.perms)
      <4>1. pos'.pair = pos.pair /\ pos'.item = pos.item + 1
        BY <3>1, <3>2, <3>4
      <4> QED
        BY <1>3, <3>1, <3>3, <4>1 DEF Before
    <3>5. CASE ~(pos.item < Len(r.perms))
      <4>1. pos'.pair = pos.pair + 1 /\ pos'.item = 1
        BY <3>2, <3>5
      <4> QED
        BY <1>3, <3>1, <3>3, <3>5, <4>1 DEF Before
    <3> QED
      BY <3>4, <3>5
  <2>3. CASE Before(p, i)
    <3>1. HoldsMark(cond, KeyOf(r, r.pairs[p], r.perms[i]), x)
      BY <1>3, <2>3 DEF ItemsStored, r, cond
    <3> QED
      BY <1>2, <1>5, <2>a, <2>1, <3>1
  <2>4. CASE p = pos.pair /\ i = pos.item
    BY <1>2, <1>5, <2>a, <2>1, <2>4
  <2> QED
    BY <2>2, <2>3, <2>4
<1> QED
  BY <1>6, <1>7

\* A rule that is finished has its marks stored.
LEMMA FinishRuleKeeps ==
    ASSUME NEW K \in SUBSET MarkKeys, TypeOK, MarksKept(K), ItemsStored(K), FinishRule
    PROVE  MarksKept(K)' /\ ItemsStored(K)'
<1> DEFINE r == Task.rule
           cond == Task.cond
<1>1. /\ UNCHANGED <<te_avtab, te_cond_avtab, cond_list, given>> /\ todo' = Tail(todo) /\ pos' = FirstPos
      /\ todo # <<>>
      /\ (Skipped(r) \/ pos.pair > Len(r.pairs))
  BY DEF FinishRule, tables, Busy
<1>2. Lists' = Lists /\ TaskType' = TaskType
      /\ \A o, val : InForce(val, o)' <=> InForce(val, o)
  BY <1>1 DEF Lists, TaskType, InForce
<1>3. /\ todo \in Seq(TaskType) /\ Task \in TaskType /\ Tail(todo) \in Seq(TaskType)
      /\ Len(todo) \in Nat \ {0} /\ Len(Tail(todo)) = Len(todo) - 1
      /\ todo[1] = Task
      /\ \A t \in 1 .. Len(todo) - 1 : Tail(todo)[t] = todo[t + 1]
  <2>1. todo \in Seq(TaskType)
    BY DEF TypeOK, TaskType
  <2> HIDE DEF TaskType
  <2>2. Len(todo) \in Nat /\ Len(todo) # 0 /\ Head(todo) = todo[1]
    BY <1>1, <2>1, EmptySeq
  <2>3. Head(todo) \in TaskType /\ Tail(todo) \in Seq(TaskType)
    BY <1>1, <2>1, HeadTailProperties
  <2>4. Len(Tail(todo)) = Len(todo) - 1 /\ \A t \in 1 .. Len(todo) - 1 : Tail(todo)[t] = todo[t + 1]
    BY <1>1, <2>1, <2>2
  <2> QED
    BY <2>1, <2>2, <2>3, <2>4 DEF Task
<1>4. r \in Rules /\ WellFormedRule(r) /\ cond \in AllLists
  BY <1>3, RulesAssumption DEF TaskType, AllLists
<1>5. /\ DOMAIN r.pairs = 1 .. Len(r.pairs) /\ DOMAIN r.perms = 1 .. Len(r.perms)
      /\ Len(r.pairs) \in Nat /\ Len(r.perms) \in Nat /\ pos.pair \in Nat
  BY <1>4 DEF WellFormedRule, TypeOK
<1> HIDE DEF r, cond
<1>6. ASSUME NEW k \in K, NEW x \in AllMarks, AsksMark(r, k, x)
      PROVE  HoldsMark(cond, k, x)
  <2>1. PICK p \in DOMAIN r.pairs, i \in DOMAIN r.perms :
           KeyOf(r, r.pairs[p], r.perms[i]) = k /\ x \in Marks(r.spec, r.perms[i].data)
    BY <1>6 DEF AsksMark
  <2>2. ~Skipped(r)
    BY <1>6 DEF AsksMark
  <2>3. p < pos.pair
    BY <1>1, <1>5, <2>2
  <2> QED
    BY <1>1, <2>1, <2>2, <2>3 DEF ItemsStored, Before, r, cond
<1>7. MarksKept(K)'
  <2> SUFFICES ASSUME NEW val \in Assignments, NEW k \in K, NEW x \in AllMarks
               PROVE  (StoredMark(val, k, x) \/ WaitingMark(val, k, x) <=> SourceMark(val, k, x))'
    BY DEF MarksKept
  <2>1. SourceMark(val, k, x)' <=> SourceMark(val, k, x)
    BY <1>1 DEF SourceMark
  <2>2. StoredMark(val, k, x)' <=> StoredMark(val, k, x)
    BY <1>1, <1>2 DEF StoredMark, HoldsMark
  <2> DEFINE Waits(t) == InForce(val, t.cond) /\ AsksMark(t.rule, k, x)
  <2>3. /\ WaitingMark(val, k, x) <=> \E t \in DOMAIN todo : Waits(todo[t])
        /\ WaitingMark(val, k, x)' <=> \E t \in DOMAIN Tail(todo) : Waits(Tail(todo)[t])
    BY <1>1, <1>2 DEF WaitingMark, AsksMark
  <2>4. Waits(Task) => StoredMark(val, k, x)
    BY <1>4, <1>6 DEF StoredMark, AllLists, r, cond
  <2>5. DOMAIN todo = 1 .. Len(todo) /\ DOMAIN Tail(todo) = 1 .. Len(todo) - 1
    <3> HIDE DEF TaskType
    <3> QED
      BY <1>3
  <2> HIDE DEF Waits
  <2>6. (\E t \in DOMAIN todo : Waits(todo[t])) <=>
           Waits(Task) \/ \E t \in DOMAIN Tail(todo) : Waits(Tail(todo)[t])
    <3>1. ASSUME NEW t \in DOMAIN todo, Waits(todo[t])
          PROVE  Waits(Task) \/ \E u \in DOMAIN Tail(todo) : Waits(Tail(todo)[u])
      <4>1. CASE t = 1
        BY <1>3, <3>1, <4>1
      <4>2. CASE t # 1
        <5>1. t - 1 \in 1 .. Len(todo) - 1 /\ t - 1 + 1 = t
          BY <1>3, <2>5, <4>2
        <5>2. Tail(todo)[t - 1] = todo[t]
          BY <1>3, <5>1
        <5> QED
          BY <2>5, <3>1, <5>1, <5>2
      <4> QED
        BY <4>1, <4>2
    <3>2. ASSUME NEW u \in DOMAIN Tail(todo), Waits(Tail(todo)[u])
          PROVE  \E t \in DOMAIN todo : Waits(todo[t])
      <4>1. u + 1 \in DOMAIN todo /\ Tail(todo)[u] = todo[u + 1]
        BY <1>3, <2>5
      <4> QED
        BY <3>2, <4>1
    <3>3. 1 \in DOMAIN todo
      BY <1>3, <2>5
    <3> QED
      BY <1>3, <3>1, <3>2, <3>3
  <2>7. StoredMark(val, k, x) \/ WaitingMark(val, k, x) <=> SourceMark(val, k, x)
    BY DEF MarksKept
  <2> QED
    BY <2>1, <2>2, <2>3, <2>4, <2>6, <2>7
<1>8. ItemsStored(K)'
  BY <1>1, <1>2, <1>3, NothingBefore
<1> QED
  BY <1>7, <1>8

Sources == Conds \cup {[expr |-> NoOwner, avtrue |-> <<r>>, avfalse |-> <<>>] : r \in Rules}

\* The source of the policy grows by one entry.
LEMMA SourceGrows ==
    ASSUME CondsFromSource, NEW g \in Sources, given' = Append(given, g),
           NEW val, NEW k, NEW x
    PROVE  /\ given' \in Seq(Sources)
           /\ SourceMark(val, k, x)' <=>
                 \/ SourceMark(val, k, x)
                 \/ \E j \in DOMAIN BranchOf(val, g) : AsksMark(BranchOf(val, g)[j], k, x)
<1> DEFINE Asks(h) == \E j \in DOMAIN BranchOf(val, h) : AsksMark(BranchOf(val, h)[j], k, x)
<1>1. given \in Seq(Sources)
  BY DEF CondsFromSource, Sources
<1>2. /\ SourceMark(val, k, x) <=> \E i \in DOMAIN given : Asks(given[i])
      /\ SourceMark(val, k, x)' <=> \E i \in DOMAIN given' : Asks(given'[i])
  BY DEF SourceMark
<1> HIDE DEF Asks, Sources
<1>3. /\ given' \in Seq(Sources) /\ Len(given) \in Nat
      /\ DOMAIN given = 1 .. Len(given) /\ DOMAIN given' = 1 .. Len(given) + 1
      /\ given'[Len(given) + 1] = g
      /\ \A i \in 1 .. Len(given) : given'[i] = given[i]
  BY <1>1
<1>4. ASSUME NEW i \in DOMAIN given', Asks(given'[i])
      PROVE  (\E l \in DOMAIN given : Asks(given[l])) \/ Asks(g)
  <2>1. CASE i = Len(given) + 1
    BY <1>3, <1>4, <2>1
  <2>2. CASE i # Len(given) + 1
    <3>1. i \in 1 .. Len(given)
      BY <1>3, <2>2
    <3> QED
      BY <1>3, <1>4, <3>1
  <2> QED
    BY <2>1, <2>2
<1>5. ASSUME NEW l \in DOMAIN given, Asks(given[l]) PROVE \E i \in DOMAIN given' : Asks(given'[i])
  <2>1. l \in DOMAIN given' /\ given'[l] = given[l]
    BY <1>3
  <2> QED
    BY <1>5, <2>1
<1>6. Asks(g) => \E i \in DOMAIN given' : Asks(given'[i])
  <2>1. Len(given) + 1 \in DOMAIN given'
    BY <1>3
  <2> QED
    BY <1>3, <2>1
<1>7. SourceMark(val, k, x)' <=> SourceMark(val, k, x) \/ Asks(g)
  BY <1>2, <1>4, <1>5, <1>6
<1> QED
  BY <1>3, <1>7 DEF Asks

\* An unconditional rule waits as soon as the source has it.
LEMMA TakeRuleKeeps ==
    ASSUME NEW K \in SUBSET MarkKeys, TypeOK, CondsFromSource, MarksKept(K), NEW r \in Rules, TakeRule(r)
    PROVE  CondsFromSource' /\ MarksKept(K)' /\ ItemsStored(K)'
<1> DEFINE g == [expr |-> NoOwner, avtrue |-> <<r>>, avfalse |-> <<>>]
<1>1. /\ UNCHANGED <<te_avtab, te_cond_avtab, cond_list>> /\ todo = <<>> /\ given' = Append(given, g)
      /\ pos' = pos
  BY DEF TakeRule, tables, Ready
<1>2. DOMAIN todo' = {1} /\ todo'[1].rule = r /\ todo'[1].cond = NoOwner
  <2>1. todo' = Pending(<<r>>, NoOwner, FALSE) /\ DOMAIN <<r>> = {1} /\ <<r>>[1] = r
    BY DEF TakeRule
  <2>2. todo' = [i \in {1} |-> [rule |-> <<r>>[i], cond |-> NoOwner, enabled |-> FALSE]]
    BY <2>1 DEF Pending
  <2>3. todo'[1] = [rule |-> r, cond |-> NoOwner, enabled |-> FALSE] /\ DOMAIN todo' = {1}
    BY <2>1, <2>2
  <2> QED
    BY <2>3
<1>3. g \in Sources /\ g.expr = NoOwner /\ g.avtrue = <<r>>
  BY DEF Sources
<1> HIDE DEF g
<1>4. CondsFromSource'
  <2>1. given' \in Seq(Sources)
    BY <1>1, <1>3, SourceGrows
  <2> QED
    BY <1>1, <2>1 DEF CondsFromSource, Sources
<1>5. MarksKept(K)'
  <2> SUFFICES ASSUME NEW val \in Assignments, NEW k \in K, NEW x \in AllMarks
               PROVE  (StoredMark(val, k, x) \/ WaitingMark(val, k, x) <=> SourceMark(val, k, x))'
    BY DEF MarksKept
  <2>1. StoredMark(val, k, x)' <=> StoredMark(val, k, x)
    BY <1>1 DEF StoredMark, HoldsMark, Lists, InForce
  <2>2. ~WaitingMark(val, k, x)
    BY <1>1 DEF WaitingMark
  <2>3. WaitingMark(val, k, x)' <=> AsksMark(r, k, x)
    BY <1>2 DEF WaitingMark, InForce, AsksMark
  <2>4. BranchOf(val, g) = <<r>>
    BY <1>3 DEF BranchOf
  <2>5. SourceMark(val, k, x)' <=> SourceMark(val, k, x) \/ AsksMark(r, k, x)
    <3>1. SourceMark(val, k, x)' <=>
                 \/ SourceMark(val, k, x)
                 \/ \E j \in DOMAIN BranchOf(val, g) : AsksMark(BranchOf(val, g)[j], k, x)
      BY <1>1, <1>3, SourceGrows
    <3>2. DOMAIN <<r>> = {1} /\ <<r>>[1] = r
      OBVIOUS
    <3> QED
      BY <2>4, <3>1, <3>2
  <2>6. StoredMark(val, k, x) \/ WaitingMark(val, k, x) <=> SourceMark(val, k, x)
    BY DEF MarksKept
  <2> QED
    BY <2>1, <2>2, <2>3, <2>5, <2>6
<1>6. ItemsStored(K)'
  <2>1. pos' = FirstPos
    BY <1>1 DEF TypeOK
  <2>2. todo' \in Seq(TaskType')
    <3>1. <<r>> \in Seq(Rules) /\ todo' = Pending(<<r>>, NoOwner, FALSE)
      BY DEF TakeRule
    <3> QED
      BY <3>1, PendingType DEF TaskType
  <2> QED
    BY <2>1, <2>2, NothingBefore
<1> QED
  BY <1>4, <1>5, <1>6

\* The normalised expression chooses the branch of a conditional, exchanged
\* when a NOT was dropped.
LEMMA NormalBranch ==
    ASSUME SoundConds, NEW c \in Conds, NEW val \in Assignments
    PROVE  LET t == IF Negated(c.expr) THEN c.avfalse ELSE c.avtrue
               f == IF Negated(c.expr) THEN c.avtrue ELSE c.avfalse
           IN BranchOf(val, c) = IF cond_evaluate_expr(val, Normal(c.expr)) = 1 THEN t ELSE f
<1> DEFINE e == c.expr
           s == StripNot(e)
<1>1. e \in Expr /\ validate_cond_expr(e) /\ e # NoOwner
  BY CondsAssumption DEF WellFormedCond
<1>2. s \in Expr /\ validate_cond_expr(s)
      /\ cond_evaluate_expr(val, e) = IF Negated(e) THEN 1 - cond_evaluate_expr(val, s)
                                      ELSE cond_evaluate_expr(val, s)
  BY <1>1, Stripped
<1>3. cond_evaluate_expr(val, s) \in States
  BY <1>2, ValidExpressionsEvaluate
<1>4. Normal(e) = s
  <2>1. ~Negated(s)
    <3>1. CASE Negated(e)
      BY <3>1 DEF SoundConds
    <3>2. CASE ~Negated(e)
      BY <3>2 DEF StripNot
    <3> QED
      BY <3>1, <3>2
  <2> QED
    BY <2>1 DEF Normal, StripNot
<1>5. BranchOf(val, c) = IF cond_evaluate_expr(val, e) = 1 THEN c.avtrue ELSE c.avfalse
  BY <1>1 DEF BranchOf
<1> HIDE DEF e, s
<1>6. cond_evaluate_expr(val, e) = 1 <=> (Negated(e) <=> cond_evaluate_expr(val, s) # 1)
  BY <1>2, <1>3 DEF States
<1> QED
  BY <1>4, <1>5, <1>6 DEF e

\* A sequence made of two: its elements are those of both.
LEMMA Joined ==
    ASSUME NEW X, NEW a \in Seq(X), NEW b \in Seq(X)
    PROVE  ToSet(a \o b) = ToSet(a) \cup ToSet(b)
<1>1. /\ DOMAIN a = 1 .. Len(a) /\ DOMAIN b = 1 .. Len(b) /\ Len(a) \in Nat /\ Len(b) \in Nat
      /\ DOMAIN (a \o b) = 1 .. Len(a) + Len(b)
      /\ \A i \in 1 .. Len(a) + Len(b) : (a \o b)[i] = IF i <= Len(a) THEN a[i] ELSE b[i - Len(a)]
  BY ConcatProperties
<1> DEFINE s == a \o b
<1> HIDE DEF s
<1>2. ASSUME NEW y \in ToSet(s) PROVE y \in ToSet(a) \cup ToSet(b)
  <2>1. PICK i \in DOMAIN s : y = s[i]
    BY DEF ToSet
  <2>2. CASE i <= Len(a)
    <3>1. i \in DOMAIN a /\ s[i] = a[i]
      BY <1>1, <2>2 DEF s
    <3> QED
      BY <2>1, <3>1 DEF ToSet
  <2>3. CASE ~(i <= Len(a))
    <3>1. i - Len(a) \in DOMAIN b /\ s[i] = b[i - Len(a)]
      BY <1>1, <2>3 DEF s
    <3> QED
      BY <2>1, <3>1 DEF ToSet
  <2> QED
    BY <2>2, <2>3
<1>3. ASSUME NEW y \in ToSet(a) PROVE y \in ToSet(s)
  <2>1. PICK i \in DOMAIN a : y = a[i]
    BY DEF ToSet
  <2>2. i \in DOMAIN s /\ s[i] = a[i]
    BY <1>1 DEF s
  <2> QED
    BY <2>1, <2>2 DEF ToSet
<1>4. ASSUME NEW y \in ToSet(b) PROVE y \in ToSet(s)
  <2>1. PICK i \in DOMAIN b : y = b[i]
    BY DEF ToSet
  <2>2. i + Len(a) \in DOMAIN s /\ s[i + Len(a)] = b[i]
    BY <1>1 DEF s
  <2> QED
    BY <2>1, <2>2 DEF ToSet
<1> QED
  BY <1>2, <1>3, <1>4 DEF s

\* cond_node_copy finds or creates a conditional that decides alike.
LEMMA FoundConditional ==
    ASSUME TypeOK, CondsFromSource, SoundConds, NEW c \in Conds, cond_node_copy(c)
    PROVE  LET i == cond_node_search(Normal(c.expr))
           IN /\ \A o \in Lists : cond_list'[o[1]].expr = cond_list[o[1]].expr
              /\ i \in 1 .. Len(cond_list') /\ Lists \subseteq Lists'
              /\ \A o \in Lists' : o \in Lists \/ o[1] = Len(cond_list) + 1
              /\ cond_list' \in Seq(CondType)
              /\ \A j \in DOMAIN cond_list' : \E d \in Conds : cond_list'[j].expr = Normal(d.expr)
              /\ \A val \in Assignments : cond_evaluate_expr(val, cond_list'[i].expr)
                                             = cond_evaluate_expr(val, Normal(c.expr))
              /\ \A j \in DOMAIN cond_list : cond_list'[j].expr = cond_list[j].expr
<1> DEFINE e == Normal(c.expr)
           i == cond_node_search(e)
           n == [expr |-> e, cur_state |-> cond_evaluate_expr(bools, e)]
<1>1. cond_list' = IF i > Len(cond_list) THEN Append(cond_list, n) ELSE cond_list
  BY DEF cond_node_copy
<1>2. cond_list \in Seq(CondType) /\ n \in CondType /\ n.expr = e
  <2>1. e \in Expr
    BY CondsAssumption, StripNotType DEF Normal, WellFormedCond
  <2> QED
    BY <2>1, EvaluateType DEF TypeOK, CondType
<1>3. i \in 1 .. Len(cond_list) + 1
  BY SearchType
<1>4. \A j \in DOMAIN cond_list : \E d \in Conds : cond_list[j].expr = Normal(d.expr)
  BY DEF CondsFromSource
<1>5. i <= Len(cond_list) => cond_expr_equal(e, cond_list[i].expr)
  <2> SUFFICES ASSUME i <= Len(cond_list) PROVE cond_expr_equal(e, cond_list[i].expr)
    OBVIOUS
  <2>1. Len(cond_list) \in Nat /\ DOMAIN cond_list = 1 .. Len(cond_list)
    BY <1>2
  <2>2. Matching(e) # {}
    <3>1. i # Len(cond_list) + 1
      BY <1>3, <2>1
    <3> QED
      BY <3>1 DEF cond_node_search
  <2>3. Matching(e) \in SUBSET (1 .. Len(cond_list))
    BY <2>1 DEF Matching
  <2>4. \E m \in Matching(e) : \A j \in Matching(e) : j <= m
    BY <2>1, <2>2, <2>3, GreatestExists
  <2>5. i \in Matching(e)
    BY <2>2, <2>4 DEF cond_node_search
  <2> QED
    BY <2>5 DEF Matching
<1> HIDE DEF i, n
<1>6. /\ Len(cond_list) \in Nat /\ DOMAIN cond_list = 1 .. Len(cond_list)
      /\ cond_list' \in Seq(CondType)
      /\ \A j \in 1 .. Len(cond_list) : cond_list'[j] = cond_list[j]
      /\ i \in 1 .. Len(cond_list') /\ DOMAIN cond_list' = 1 .. Len(cond_list')
      /\ Len(cond_list') \in {Len(cond_list), Len(cond_list) + 1}
      /\ i > Len(cond_list) => /\ i = Len(cond_list) + 1 /\ cond_list'[i] = n
                               /\ Len(cond_list') = Len(cond_list) + 1
      /\ i <= Len(cond_list) => cond_list' = cond_list
  <2> HIDE DEF CondType
  <2> QED
    BY <1>1, <1>2, <1>3
<1>a. /\ Len(cond_list) \in Nat /\ i \in Nat /\ (i > Len(cond_list) \/ i <= Len(cond_list))
  <2>1. Len(cond_list) \in Nat
    BY <1>2
  <2> QED
    BY <1>3, <2>1
<1>b. Len(cond_list) \in Nat /\ Len(cond_list') \in {Len(cond_list), Len(cond_list) + 1}
  BY <1>6
<1>7. Lists \subseteq Lists' /\ \A o \in Lists' : o \in Lists \/ o[1] = Len(cond_list) + 1
  <2>1. 1 .. Len(cond_list) \subseteq 1 .. Len(cond_list')
        /\ \A j \in 1 .. Len(cond_list') : j \in 1 .. Len(cond_list) \/ j = Len(cond_list) + 1
    BY <1>b
  <2> QED
    BY <2>1 DEF Lists
<1>8. \A o \in Lists : cond_list'[o[1]].expr = cond_list[o[1]].expr
  BY <1>6 DEF Lists
<1>9. ASSUME NEW j \in DOMAIN cond_list' PROVE \E d \in Conds : cond_list'[j].expr = Normal(d.expr)
  <2>1. CASE j \in 1 .. Len(cond_list)
    BY <1>4, <1>6, <2>1
  <2>2. CASE j \notin 1 .. Len(cond_list)
    <3>1. j \in 1 .. Len(cond_list')
      BY <1>6
    <3>2. j = Len(cond_list) + 1 /\ Len(cond_list') = Len(cond_list) + 1
      BY <1>b, <2>2, <3>1
    <3>3. Len(cond_list') # Len(cond_list)
      BY <1>b, <3>2
    <3>4. i > Len(cond_list)
      BY <1>6, <1>a, <3>3
    <3>5. cond_list'[j] = n
      BY <1>6, <3>2, <3>4
    <3> QED
      BY <1>2, <3>5
  <2> QED
    BY <2>1, <2>2
<1>10. ASSUME NEW val \in Assignments
       PROVE  cond_evaluate_expr(val, cond_list'[i].expr) = cond_evaluate_expr(val, e)
  <2>1. CASE i > Len(cond_list)
    BY <1>2, <1>6, <2>1
  <2>2. CASE i <= Len(cond_list)
    <3>1. PICK d \in Conds : cond_list[i].expr = Normal(d.expr)
      BY <1>3, <1>4, <1>6, <2>2
    <3>2. Equivalent(e, Normal(d.expr))
      BY <1>5, <2>2, <3>1 DEF SoundConds
    <3> QED
      BY <1>6, <2>2, <3>1, <3>2 DEF Equivalent
  <2> QED
    BY <1>a, <2>1, <2>2
<1>11. \A j \in DOMAIN cond_list : cond_list'[j].expr = cond_list[j].expr
  BY <1>6
<1> QED
  BY <1>6, <1>7, <1>8, <1>9, <1>10, <1>11 DEF i

\* What waits because of a list of rules.
LEMMA PendingAsks ==
    ASSUME NEW rules \in Seq(Rules), NEW owner, NEW on \in BOOLEAN
    PROVE  ToSet(Pending(rules, owner, on))
              = {[rule |-> rules[j], cond |-> owner, enabled |-> on] : j \in DOMAIN rules}
<1> DEFINE P == Pending(rules, owner, on)
           F(j) == [rule |-> rules[j], cond |-> owner, enabled |-> on]
<1>1. P = [j \in DOMAIN rules |-> F(j)]
  BY DEF Pending
<1> HIDE DEF P, F
<1>2. DOMAIN P = DOMAIN rules /\ \A j \in DOMAIN rules : P[j] = F(j)
  BY <1>1
<1>3. ToSet(P) = {F(j) : j \in DOMAIN rules}
  BY <1>2 DEF ToSet
<1> QED
  BY <1>3 DEF P, F

\* The rules of a conditional wait in the lists in force just when the source's
\* branch is chosen.
LEMMA CondNodeCopyKeeps ==
    ASSUME NEW K \in SUBSET MarkKeys, TypeOK, CondsFromSource, MarksKept(K), SoundConds, NEW c \in Conds, cond_node_copy(c)
    PROVE  CondsFromSource' /\ MarksKept(K)' /\ ItemsStored(K)'
<1> DEFINE e == Normal(c.expr)
           i == cond_node_search(e)
           list == cond_list'
           state == list[i].cur_state
           t == IF Negated(c.expr) THEN c.avfalse ELSE c.avtrue
           f == IF Negated(c.expr) THEN c.avtrue ELSE c.avfalse
           lt == <<i, "true">>
           lf == <<i, "false">>
           bt == state # 0
           bf == state = 0
           pt == Pending(t, lt, bt)
           pf == Pending(f, lf, bf)
<1>1. /\ UNCHANGED <<te_avtab, te_cond_avtab>> /\ todo = <<>> /\ given' = Append(given, c)
      /\ pos' = pos /\ todo' = pt \o pf
  BY DEF cond_node_copy, tables, Ready
<1>2. /\ \A o \in Lists : cond_list'[o[1]].expr = cond_list[o[1]].expr
      /\ i \in 1 .. Len(cond_list') /\ Lists \subseteq Lists'
      /\ \A o \in Lists' : o \in Lists \/ o[1] = Len(cond_list) + 1
      /\ cond_list' \in Seq(CondType)
      /\ \A j \in DOMAIN cond_list' : \E d \in Conds : cond_list'[j].expr = Normal(d.expr)
      /\ \A val \in Assignments : cond_evaluate_expr(val, cond_list'[i].expr)
                                     = cond_evaluate_expr(val, e)
  BY FoundConditional
<1>3. t \in Seq(Rules) /\ f \in Seq(Rules)
  BY CondsAssumption DEF WellFormedCond
<1>4. \A val \in Assignments :
         BranchOf(val, c) = IF cond_evaluate_expr(val, e) = 1 THEN t ELSE f
  BY NormalBranch
<1>5. bt \in BOOLEAN /\ bf \in BOOLEAN /\ lt[1] = i /\ lf[1] = i /\ lt[2] = "true" /\ lf[2] = "false"
      /\ lt \in Lists' /\ lf \in Lists'
  BY <1>2 DEF Lists, Branches
<1>6. lt # NoOwner /\ lf # NoOwner
  <2>1. lt \in Nat \X Branches /\ lf \in Nat \X Branches
    <3>1. i \in Nat
      BY <1>2
    <3> HIDE DEF i
    <3> QED
      BY <3>1 DEF Branches
  <2> QED
    BY <2>1, OwnerAssumption DEF Branches
<1> HIDE DEF e, i, list, state, t, f, lt, lf, bt, bf
<1>7. /\ pt \in Seq(TaskType') /\ pf \in Seq(TaskType')
      /\ ToSet(pt) = {[rule |-> t[j], cond |-> lt, enabled |-> bt] : j \in DOMAIN t}
      /\ ToSet(pf) = {[rule |-> f[j], cond |-> lf, enabled |-> bf] : j \in DOMAIN f}
  <2> DEFINE L == Lists' \cup {NoOwner}
  <2>1. lt \in L /\ lf \in L
    BY <1>5
  <2> HIDE DEF L
  <2>2. /\ pt \in Seq([rule : Rules, cond : L, enabled : BOOLEAN])
        /\ pf \in Seq([rule : Rules, cond : L, enabled : BOOLEAN])
    BY <1>3, <1>5, <2>1, PendingType
  <2>3. TaskType' = [rule : Rules, cond : L, enabled : BOOLEAN]
    BY DEF TaskType, L
  <2> QED
    BY <1>3, <1>5, <2>2, <2>3, PendingAsks
<1> HIDE DEF pt, pf
<1>8. todo' \in Seq(TaskType') /\ ToSet(todo') = ToSet(pt) \cup ToSet(pf)
  <2> DEFINE X == TaskType'
  <2> HIDE DEF X
  <2>1. pt \in Seq(X) /\ pf \in Seq(X)
    BY <1>7 DEF X
  <2>2. todo' \in Seq(X) /\ ToSet(pt \o pf) = ToSet(pt) \cup ToSet(pf)
    BY <1>1, <2>1, Joined, ConcatProperties
  <2> QED
    BY <1>1, <2>2 DEF X
<1>9. CondsFromSource'
  <2>1. c \in Sources
    BY DEF Sources
  <2>2. given' \in Seq(Sources)
    BY <1>1, <2>1, SourceGrows
  <2> QED
    BY <1>2, <2>2 DEF CondsFromSource, Sources
<1>10. ItemsStored(K)'
  <2>1. pos' = FirstPos
    BY <1>1 DEF TypeOK
  <2> QED
    BY <1>8, <2>1, NothingBefore
<1>11. ASSUME NEW val \in Assignments, NEW k \in K, NEW x \in AllMarks
       PROVE  (StoredMark(val, k, x) \/ WaitingMark(val, k, x) <=> SourceMark(val, k, x))'
  <2> DEFINE chosen == cond_evaluate_expr(val, e) = 1
             Holds(o) == o = NoOwner \/ (o[2] = "true" <=> cond_evaluate_expr(val, cond_list'[o[1]].expr) = 1)
             Asks(s) == \E j \in DOMAIN s : AsksMark(s[j], k, x)
  <2>1. /\ \A o : InForce(val, o)' <=> Holds(o)
        /\ \A o \in AllLists : Holds(o) <=> InForce(val, o)
    BY <1>2 DEF InForce, AllLists
  <2>2. \A o : HoldsMark(o, k, x)' <=> HoldsMark(o, k, x)
    BY <1>1 DEF HoldsMark
  <2>3. ASSUME NEW o \in Lists', o \notin Lists PROVE ~HoldsMark(o, k, x)
    <3>1. o # NoOwner
      <4>1. o \in Nat \X Branches
        BY <1>2 DEF Lists
      <4> QED
        BY <4>1, OwnerAssumption DEF Branches
    <3>2. \A j \in DOMAIN te_cond_avtab[k] : te_cond_avtab[k][j].owner \in Lists
      BY DEF TypeOK, MarkKeys, AVKeys, XpermKeys, TypeKeys
    <3> QED
      BY <2>3, <3>1, <3>2 DEF HoldsMark, HoldsIn
  <2>4. StoredMark(val, k, x)' <=> \E o \in Lists' \cup {NoOwner} : Holds(o) /\ HoldsMark(o, k, x)
    BY <2>1, <2>2 DEF StoredMark
  <2>5. StoredMark(val, k, x) <=> \E o \in AllLists : InForce(val, o) /\ HoldsMark(o, k, x)
    BY DEF StoredMark, AllLists
  <2>6. StoredMark(val, k, x)' <=> StoredMark(val, k, x)
    <3> HIDE DEF Holds
    <3> QED
      BY <1>2, <2>1, <2>3, <2>4, <2>5 DEF AllLists
  <2>7. ~WaitingMark(val, k, x)
    BY <1>1 DEF WaitingMark
  <2>8. Holds(lt) <=> chosen
    BY <1>2, <1>5, <1>6
  <2>9. Holds(lf) <=> ~chosen
    BY <1>2, <1>5, <1>6
  <2>10. WaitingMark(val, k, x)' <=> (chosen /\ Asks(t)) \/ (~chosen /\ Asks(f))
    <3> HIDE DEF Holds
    <3>1. WaitingMark(val, k, x)' <=> \E w \in ToSet(todo') : Holds(w.cond) /\ AsksMark(w.rule, k, x)
      BY <2>1 DEF WaitingMark, ToSet, AsksMark
    <3>2. (\E w \in ToSet(pt) : Holds(w.cond) /\ AsksMark(w.rule, k, x)) <=> Holds(lt) /\ Asks(t)
      <4> DEFINE W(j) == [rule |-> t[j], cond |-> lt, enabled |-> bt]
      <4>1. \A j : W(j).rule = t[j] /\ W(j).cond = lt
        OBVIOUS
      <4>2. ToSet(pt) = {W(j) : j \in DOMAIN t}
        BY <1>7
      <4> HIDE DEF W
      <4>3. (\E w \in ToSet(pt) : Holds(w.cond) /\ AsksMark(w.rule, k, x)) <=>
               \E j \in DOMAIN t : Holds(W(j).cond) /\ AsksMark(W(j).rule, k, x)
        BY <4>2, Zenon
      <4> QED
        BY <4>1, <4>3, Zenon
    <3>3. (\E w \in ToSet(pf) : Holds(w.cond) /\ AsksMark(w.rule, k, x)) <=> Holds(lf) /\ Asks(f)
      <4> DEFINE W(j) == [rule |-> f[j], cond |-> lf, enabled |-> bf]
      <4>1. \A j : W(j).rule = f[j] /\ W(j).cond = lf
        OBVIOUS
      <4>2. ToSet(pf) = {W(j) : j \in DOMAIN f}
        BY <1>7
      <4> HIDE DEF W
      <4>3. (\E w \in ToSet(pf) : Holds(w.cond) /\ AsksMark(w.rule, k, x)) <=>
               \E j \in DOMAIN f : Holds(W(j).cond) /\ AsksMark(W(j).rule, k, x)
        BY <4>2, Zenon
      <4> QED
        BY <4>1, <4>3, Zenon
    <3> HIDE DEF chosen, Asks
    <3> QED
      BY <1>8, <2>8, <2>9, <3>1, <3>2, <3>3
  <2>11. SourceMark(val, k, x)' <=> SourceMark(val, k, x) \/ Asks(BranchOf(val, c))
    <3>1. c \in Sources
      BY DEF Sources
    <3> QED
      BY <1>1, <3>1, SourceGrows
  <2>12. Asks(BranchOf(val, c)) <=> (chosen /\ Asks(t)) \/ (~chosen /\ Asks(f))
    <3>1. BranchOf(val, c) = IF chosen THEN t ELSE f
      BY <1>4
    <3> HIDE DEF chosen, Asks
    <3>2. CASE chosen
      BY <3>1, <3>2
    <3>3. CASE ~chosen
      BY <3>1, <3>3
    <3> QED
      BY <3>2, <3>3
  <2>13. StoredMark(val, k, x) \/ WaitingMark(val, k, x) <=> SourceMark(val, k, x)
    BY DEF MarksKept
  <2> HIDE DEF chosen, Asks
  <2> QED
    BY <2>6, <2>7, <2>10, <2>11, <2>12, <2>13
<1> QED
  BY <1>9, <1>10, <1>11 DEF MarksKept

-----------------------------------------------------------------------------
(***************************************************************************)
(* The invariant is inductive, and decides the access vectors.             *)
(***************************************************************************)
LEMMA MarksInit ==
    ASSUME NEW K \in SUBSET MarkKeys, Init
    PROVE  Inv /\ CondsFromSource /\ MarksKept(K) /\ ItemsStored(K)
<1>1. Inv
  BY InvInit
<1>2. CondsFromSource
  BY DEF Init, CondsFromSource
<1>3. ItemsStored(K)
  BY DEF Init, ItemsStored
<1>4. ASSUME NEW val, NEW k \in K, NEW x
      PROVE  ~StoredMark(val, k, x) /\ ~WaitingMark(val, k, x) /\ ~SourceMark(val, k, x)
  <2>1. te_avtab[k] = <<>> /\ te_cond_avtab[k] = <<>> /\ todo = <<>> /\ given = <<>>
    BY DEF Init, MarkKeys, AVKeys, XpermKeys, TypeKeys
  <2> QED
    BY <2>1 DEF StoredMark, HoldsMark, HoldsIn, WaitingMark, SourceMark
<1> QED
  BY <1>1, <1>2, <1>3, <1>4 DEF MarksKept

LEMMA MarksStep ==
    ASSUME NEW K \in SUBSET MarkKeys, SoundConds, Inv, CondsFromSource,
           MarksKept(K), ItemsStored(K), AtItem => FindsDriver(K), [Next]_vars,
           DuplicateTypeRule => PairStored(K)
    PROVE  CondsFromSource' /\ MarksKept(K)' /\ ItemsStored(K)'
<1>0. TypeOK /\ (status = "expanded" => todo = <<>>)
  BY DEF Inv, FlagsFollowStates
<1>a. ASSUME UNCHANGED <<te_avtab, te_cond_avtab, cond_list, todo, given>>
      PROVE  CondsFromSource' /\ MarksKept(K)'
  <2>1. CondsFromSource'
    BY <1>a DEF CondsFromSource
  <2>2. \A val, k, x : /\ StoredMark(val, k, x)' <=> StoredMark(val, k, x)
                       /\ WaitingMark(val, k, x)' <=> WaitingMark(val, k, x)
                       /\ SourceMark(val, k, x)' <=> SourceMark(val, k, x)
    BY <1>a DEF StoredMark, WaitingMark, SourceMark, HoldsMark, InForce, Lists
  <2> QED
    BY <2>1, <2>2 DEF MarksKept
<1>b. ASSUME UNCHANGED <<cond_list, given>>
      PROVE  CondsFromSource'
  BY <1>b DEF CondsFromSource
<1>1. CASE UNCHANGED <<te_avtab, te_cond_avtab, cond_list, todo, given, pos>>
  <2>1. ItemsStored(K)'
    BY <1>1, ZenonT(60) DEF ItemsStored, Task, Before, HoldsMark
  <2> QED
    BY <1>1, <1>a, <2>1
<1>2. ASSUME NEW r \in Rules, TakeRule(r)
      PROVE  CondsFromSource' /\ MarksKept(K)' /\ ItemsStored(K)'
  BY <1>0, <1>2, TakeRuleKeeps
<1>3. ASSUME NEW c \in Conds, cond_node_copy(c)
      PROVE  CondsFromSource' /\ MarksKept(K)' /\ ItemsStored(K)'
  BY <1>0, <1>3, CondNodeCopyKeeps
<1>4. CASE FinishRule
  BY <1>0, <1>4, <1>b, FinishRuleKeeps DEF FinishRule
<1>5. CASE expand_avrule_helper
  BY <1>0, <1>5, <1>b, StoreKeeps DEF expand_avrule_helper
<1>6. CASE expand_terule_helper
  BY <1>0, <1>6, <1>b, StoreKeeps DEF expand_terule_helper, AtTypeItem
<1>7. CASE DuplicateTypeRule
  <2>1. /\ UNCHANGED <<te_avtab, te_cond_avtab, cond_list, todo, given>>
        /\ pos' = NextPair /\ AtItem
    BY <1>7 DEF DuplicateTypeRule, tables, AtTypeItem
  <2>2. PairStored(K)
    BY <1>7
  <2>3. ItemsStored(K)'
    <3>1. Task' = Task /\ pos'.pair = pos.pair + 1 /\ pos'.item = 1
      BY <2>1 DEF Task, NextPair
    <3>2. \A o, k, x : HoldsMark(o, k, x)' <=> HoldsMark(o, k, x)
      BY <2>1 DEF HoldsMark
    <3> DEFINE r == Task.rule
    <3> SUFFICES ASSUME NEW p \in DOMAIN r.pairs, NEW i \in DOMAIN r.perms, Before(p, i)', ~Skipped(r),
                        KeyOf(r, r.pairs[p], r.perms[i]) \in K,
                        NEW x \in Marks(r.spec, r.perms[i].data)
                 PROVE  HoldsMark(Task.cond, KeyOf(r, r.pairs[p], r.perms[i]), x)
      BY <3>1, <3>2 DEF ItemsStored
    <3>3. todo # <<>> /\ p \in Nat /\ pos.pair \in Nat /\ i \in Nat \ {0}
      <4>1. WellFormedRule(r) /\ todo # <<>>
        BY <1>0, <2>1, TaskFacts, RulesAssumption DEF TaskType, AtItem, Busy
      <4>2. DOMAIN r.pairs \subseteq Nat /\ DOMAIN r.perms \subseteq Nat \ {0}
        BY <4>1 DEF WellFormedRule
      <4> QED
        BY <1>0, <4>1, <4>2 DEF TypeOK
    <3>4. p < pos.pair \/ p = pos.pair
      BY <3>1, <3>3 DEF Before
    <3>5. CASE p < pos.pair
      BY <3>3, <3>5 DEF ItemsStored, Before
    <3>6. CASE p = pos.pair
      BY <2>2, <3>6 DEF PairStored
    <3> QED
      BY <3>4, <3>5, <3>6
  <2> QED
    BY <1>a, <2>1, <2>3
<1>8. CASE ConflictingTypeRule \/ OutOfMemory
  BY <1>1, <1>8 DEF ConflictingTypeRule, OutOfMemory, tables
<1>9. ASSUME NEW w, evaluate_conds(w), todo = <<>>, UNCHANGED <<te_avtab, todo, given>>
      PROVE  CondsFromSource' /\ MarksKept(K)' /\ ItemsStored(K)'
  <2>1. /\ Lists' = Lists
        /\ \A owner \in AllLists, k \in Keys : \A x :
              HoldsMark(owner, k, x)' <=> HoldsMark(owner, k, x)
        /\ \A owner \in AllLists, val \in Assignments : InForce(val, owner)' <=> InForce(val, owner)
    BY <1>0, <1>9, EvaluateMarks
  <2>2. CondsFromSource'
    <3>1. /\ DOMAIN cond_list' = DOMAIN cond_list
          /\ \A i \in DOMAIN cond_list : cond_list'[i].expr = cond_list[i].expr
      <4>1. /\ cond_list' \in Seq(CondType) /\ cond_list \in Seq(CondType)
            /\ Len(cond_list') = Len(cond_list)
            /\ \A i \in DOMAIN cond_list : cond_list'[i].expr = cond_list[i].expr
        BY <1>0, <1>9, EvaluateKeepsNodes DEF TypeOK, CondType
      <4> HIDE DEF CondType
      <4> QED
        BY <4>1
    <3> QED
      BY <1>9, <3>1 DEF CondsFromSource
  <2>3. ItemsStored(K)'
    BY <1>9 DEF ItemsStored
  <2>4. ASSUME NEW val \in Assignments, NEW k \in K, NEW x \in AllMarks
        PROVE  (StoredMark(val, k, x) \/ WaitingMark(val, k, x) <=> SourceMark(val, k, x))'
    <3>1. StoredMark(val, k, x)' <=> StoredMark(val, k, x)
      BY <2>1 DEF StoredMark, AllLists, MarkKeys, AVKeys, XpermKeys, TypeKeys
    <3>2. ~WaitingMark(val, k, x) /\ ~WaitingMark(val, k, x)'
      BY <1>9 DEF WaitingMark
    <3>3. SourceMark(val, k, x)' <=> SourceMark(val, k, x)
      BY <1>9 DEF SourceMark
    <3> QED
      BY <3>1, <3>2, <3>3 DEF MarksKept
  <2> QED
    BY <2>2, <2>3, <2>4 DEF MarksKept
<1>10. CASE FinishExpansion
  BY <1>9, <1>10 DEF FinishExpansion
<1>11. ASSUME NEW b \in Bools, NEW v \in States, sepol_bool_set(b, v)
       PROVE  CondsFromSource' /\ MarksKept(K)' /\ ItemsStored(K)'
  BY <1>0, <1>9, <1>11 DEF sepol_bool_set
<1> QED
  BY <1>1, <1>2, <1>3, <1>4, <1>5, <1>6, <1>7, <1>8, <1>10, <1>11 DEF Next, vars

\* A duplicate type rule leaves nothing behind at keys of another kind.
LEMMA DuplicateElsewhere ==
    ASSUME NEW K, \A k \in K : k.spec \notin TypeSpecs, DuplicateTypeRule
    PROVE  PairStored(K)
<1>1. Task.rule.spec \in TypeSpecs
  BY DEF DuplicateTypeRule, AtTypeItem
<1>2. avrule_to_avtab_spec(Task.rule.spec) \in TypeSpecs
  BY <1>1 DEF avrule_to_avtab_spec, TypeSpecs
<1>3. \A pair, item : KeyOf(Task.rule, pair, item) \notin K
  BY <1>2 DEF KeyOf
<1> QED
  BY <1>3 DEF PairStored

LEMMA AccessStep == SoundConds /\ AccessInv /\ [Next]_vars => AccessInv'
<1> SUFFICES ASSUME SoundConds, AccessInv, [Next]_vars PROVE AccessInv'
  OBVIOUS
<1>1. AVKeys \in SUBSET MarkKeys /\ AVKeys \cap XpermKeys = {}
  BY DEF MarkKeys, AVKeys, XpermKeys, TypeKeys, AVSpecs, XpermSpecs
<1>2. FindsDriver(AVKeys)
  BY <1>1 DEF FindsDriver
<1>3. Inv /\ CondsFromSource /\ MarksKept(AVKeys) /\ ItemsStored(AVKeys)
  BY DEF AccessInv
<1>a. DuplicateTypeRule => PairStored(AVKeys)
  BY DuplicateElsewhere DEF AVKeys, AVSpecs, TypeSpecs
<1>4. CondsFromSource' /\ MarksKept(AVKeys)' /\ ItemsStored(AVKeys)'
  <2> HIDE DEF AVKeys
  <2> QED
    BY <1>1, <1>2, <1>3, <1>a, MarksStep
<1> QED
  BY <1>3, <1>4, InvStep DEF AccessInv

\* The nodes in force are the enabled ones.
LEMMA EnabledMarks ==
    ASSUME Inv, NEW k \in MarkKeys, NEW x
    PROVE  StoredMark(bools, k, x) <=> \E n \in EnabledNodes(k) : x \in Marks(k.spec, n.data)
<1> DEFINE u == te_avtab[k]
           c == te_cond_avtab[k]
           Has(n) == x \in Marks(k.spec, n.data)
<1>0. TypeOK /\ k \in Keys
  BY DEF Inv, MarkKeys, AVKeys, XpermKeys, TypeKeys
<1>1. \A o \in Lists : o # NoOwner
  BY <1>0, ListsAreOwners
<1>2. \A j \in DOMAIN c : c[j].owner \in Lists
  BY <1>0 DEF TypeOK
<1>3. ASSUME NEW j \in DOMAIN c
      PROVE  c[j].enabled <=> InForce(bools, c[j].owner)
  <2> DEFINE o == c[j].owner
             v == cond_evaluate_expr(bools, cond_list[o[1]].expr)
  <2>1. o[1] \in DOMAIN cond_list /\ o[2] \in Branches /\ o # NoOwner
    BY <1>0, <1>2, ListsAreOwners
  <2>2. v = cond_list[o[1]].cur_state /\ validate_cond_expr(cond_list[o[1]].expr)
    BY <2>1 DEF Inv, StatesCurrent
  <2>3. cond_list[o[1]].expr \in Expr /\ bools \in Assignments
    <3>1. cond_list \in Seq(CondType) /\ bools \in Assignments
      BY <1>0 DEF TypeOK, CondType
    <3>2. cond_list[o[1]] \in CondType
      BY <2>1, <3>1
    <3> QED
      BY <3>1, <3>2 DEF CondType
  <2>4. v \in States
    BY <2>2, <2>3, ValidExpressionsEvaluate
  <2>5. c[j].enabled <=> (o[2] = "false" <=> v = 0)
    BY <1>0, <2>2 DEF Inv, FlagsFollowStates, Selected
  <2>6. InForce(bools, o) <=> (o[2] = "true" <=> v = 1)
    BY <2>1 DEF InForce
  <2> HIDE DEF o, v
  <2> QED
    BY <2>1, <2>4, <2>5, <2>6 DEF Branches, States, o
<1>4. /\ HoldsMark(NoOwner, k, x) <=> \E n \in ToSet(u) : Has(n)
      /\ \A o \in Lists : HoldsMark(o, k, x) <=> \E j \in DOMAIN c : c[j].owner = o /\ Has(c[j])
  BY <1>1 DEF HoldsMark, HoldsIn, ToSet
<1>5. EnabledNodes(k) = ToSet(u) \cup {n \in ToSet(c) : n.enabled}
  BY DEF EnabledNodes
<1>6. StoredMark(bools, k, x) <=>
         \/ \E n \in ToSet(u) : Has(n)
         \/ \E o \in Lists : InForce(bools, o) /\ HoldsMark(o, k, x)
  BY <1>4 DEF StoredMark, InForce
<1> HIDE DEF u, c, Has
<1>7. (\E o \in Lists : InForce(bools, o) /\ HoldsMark(o, k, x)) <=>
         \E j \in DOMAIN c : c[j].enabled /\ Has(c[j])
  BY <1>2, <1>3, <1>4
<1>8. (\E j \in DOMAIN c : c[j].enabled /\ Has(c[j])) <=> \E n \in ToSet(c) : n.enabled /\ Has(n)
  BY DEF ToSet
<1>9. (\E n \in EnabledNodes(k) : Has(n)) <=>
         (\E n \in ToSet(u) : Has(n)) \/ (\E n \in ToSet(c) : n.enabled /\ Has(n))
  BY <1>5
<1> QED
  BY <1>6, <1>7, <1>8, <1>9 DEF Has

\* The source's marks are those its active rules ask for, and Prescribed holds
\* the data of these rules.
LEMMA ActiveMarks ==
    ASSUME NEW k, NEW x
    PROVE  SourceMark(bools, k, x) <=> \E r \in ActiveRules : AsksMark(r, k, x)
<1> DEFINE B(i) == BranchOf(bools, given[i])
           Asks(r) == AsksMark(r, k, x)
<1>1. SourceMark(bools, k, x) <=> \E i \in DOMAIN given : \E j \in DOMAIN B(i) : Asks(B(i)[j])
  BY DEF SourceMark
<1>2. ActiveRules = {r \in UNION {ToSet(B(i)) : i \in DOMAIN given} : ~Skipped(r)}
  BY DEF ActiveRules
<1>3. \A r : Asks(r) => ~Skipped(r)
  BY DEF AsksMark
<1> HIDE DEF B, Asks
<1>4. \A i : (\E j \in DOMAIN B(i) : Asks(B(i)[j])) <=> \E r \in ToSet(B(i)) : Asks(r)
  BY DEF ToSet
<1>5. (\E r \in ActiveRules : Asks(r)) <=> \E i \in DOMAIN given : \E r \in ToSet(B(i)) : Asks(r)
  BY <1>2, <1>3
<1> QED
  BY <1>1, <1>4, <1>5 DEF Asks

LEMMA DataPrescribed ==
    ASSUME NEW k, NEW s, NEW d
    PROVE  d \in Prescribed(s, k) <=>
              \E r \in ActiveRules : \E i \in DOMAIN r.perms, p \in DOMAIN r.pairs :
                  r.spec = s /\ KeyOf(r, r.pairs[p], r.perms[i]) = k /\ d = r.perms[i].data
<1> DEFINE I(r) == {j \in DOMAIN r.perms : \E p \in DOMAIN r.pairs : KeyOf(r, r.pairs[p], r.perms[j]) = k}
           D(r) == {r.perms[i].data : i \in I(r)}
<1>1. Prescribed(s, k) = UNION {D(r) : r \in {r \in ActiveRules : r.spec = s}}
  BY DEF Prescribed
<1>2. ASSUME NEW r
      PROVE  d \in D(r) <=> \E i \in DOMAIN r.perms, p \in DOMAIN r.pairs :
                              KeyOf(r, r.pairs[p], r.perms[i]) = k /\ d = r.perms[i].data
  <2>1. \A i : i \in I(r) <=> i \in DOMAIN r.perms /\ \E p \in DOMAIN r.pairs :
                                 KeyOf(r, r.pairs[p], r.perms[i]) = k
    OBVIOUS
  <2> HIDE DEF I
  <2> QED
    BY <2>1
<1> HIDE DEF D
<1>3. d \in Prescribed(s, k) <=> \E r \in ActiveRules : r.spec = s /\ d \in D(r)
  BY <1>1
<1> QED
  BY <1>2, <1>3

\* The active rules are rules of the policy.
LEMMA ActiveAreRules ==
    ASSUME CondsFromSource
    PROVE  ActiveRules \subseteq Rules
<1>1. given \in Seq(Sources)
  BY DEF CondsFromSource, Sources
<1>2. ASSUME NEW g \in Sources PROVE g.avtrue \in Seq(Rules) /\ g.avfalse \in Seq(Rules)
  <2>1. CASE g \in Conds
    BY <2>1, CondsAssumption DEF WellFormedCond
  <2>2. CASE g \notin Conds
    <3>1. PICK r \in Rules : g = [expr |-> NoOwner, avtrue |-> <<r>>, avfalse |-> <<>>]
      BY <2>2 DEF Sources
    <3> QED
      BY <3>1
  <2> QED
    BY <2>1, <2>2
<1>3. ASSUME NEW i \in DOMAIN given PROVE BranchOf(bools, given[i]) \in Seq(Rules)
  <2>1. given[i] \in Sources
    BY <1>1
  <2> QED
    BY <1>2, <2>1 DEF BranchOf
<1>4. \A i \in DOMAIN given : ToSet(BranchOf(bools, given[i])) \subseteq Rules
  BY <1>3 DEF ToSet
<1> QED
  BY <1>4 DEF ActiveRules

LEMMA KindOfData ==
    ASSUME NEW spec \in RuleSpecs, avrule_to_avtab_spec(spec) \in AVSpecs
    PROVE  DataOf(spec) = SUBSET Perms
BY DEF avrule_to_avtab_spec, AVSpecs, DataOf, TypeSpecs, XpermSpecs

\* At the end of the expansion nothing waits: the nodes in force have the marks
\* that the active rules ask for.
LEMMA MarksDecided ==
    ASSUME NEW K \in SUBSET MarkKeys, Inv, MarksKept(K), status = "expanded", NEW k \in K, NEW x \in AllMarks
    PROVE  (\E n \in EnabledNodes(k) : x \in Marks(k.spec, n.data)) <=>
              \E r \in ActiveRules : AsksMark(r, k, x)
<1>1. todo = <<>> /\ bools \in Assignments
  BY DEF Inv, FlagsFollowStates, TypeOK
<1>2. ~WaitingMark(bools, k, x)
  BY <1>1 DEF WaitingMark
<1>3. StoredMark(bools, k, x) <=> SourceMark(bools, k, x)
  BY <1>1, <1>2 DEF MarksKept
<1>4. k \in MarkKeys
  OBVIOUS
<1> QED
  BY <1>3, <1>4, EnabledMarks, ActiveMarks

LEMMA AccessDecided == AccessInv => AccessMatchesSource
<1> SUFFICES ASSUME AccessInv, status = "expanded", NEW k \in Keys, k.spec \in AVSpecs
             PROVE  /\ k.spec \in {"allowed", "auditallow"} =>
                          ComputedVector(k) = UNION Prescribed(k.spec, k)
                    /\ k.spec = "auditdeny" =>
                          ComputedAuditdeny(k) =
                            {p \in Perms : /\ \A d \in Prescribed("dontaudit", k) : p \notin d
                                           /\ \A d \in Prescribed("auditdeny", k) : p \in d}
  BY DEF AccessMatchesSource, AVSpecs
<1>0. Inv /\ TypeOK /\ CondsFromSource /\ MarksKept(AVKeys) /\ todo = <<>> /\ k \in AVKeys /\ bools \in Assignments
  BY DEF AccessInv, Inv, FlagsFollowStates, AVKeys, TypeOK
<1>1. ASSUME NEW x \in Perms
      PROVE  (\E n \in EnabledNodes(k) : x \in Marks(k.spec, n.data)) <=>
                \E r \in ActiveRules : AsksMark(r, k, x)
  BY <1>0, MarksDecided DEF MarkKeys, AllMarks
<1>2. \A n \in EnabledNodes(k) : n.data \in SUBSET Perms
  <2>1. te_avtab[k] \in Seq(Node(k.spec)) /\ te_cond_avtab[k] \in Seq(Node(k.spec))
    BY <1>0 DEF TypeOK
  <2>2. \A n \in Node(k.spec) : n.data \in SUBSET Perms
    BY DEF Node, DataOf, AVSpecs, TypeSpecs, XpermSpecs
  <2>3. EnabledNodes(k) \subseteq Node(k.spec)
    <3> DEFINE X == Node(k.spec)
    <3> HIDE DEF X
    <3>1. te_avtab[k] \in Seq(X) /\ te_cond_avtab[k] \in Seq(X)
      BY <2>1 DEF X
    <3>2. ToSet(te_avtab[k]) \subseteq X /\ ToSet(te_cond_avtab[k]) \subseteq X
      BY <3>1 DEF ToSet
    <3> QED
      BY <3>2 DEF X, EnabledNodes
  <2> QED
    BY <2>2, <2>3
<1>3. ASSUME NEW r \in ActiveRules, NEW i \in DOMAIN r.perms, NEW p \in DOMAIN r.pairs,
             KeyOf(r, r.pairs[p], r.perms[i]) = k
      PROVE  /\ ~Skipped(r) /\ avrule_to_avtab_spec(r.spec) = k.spec
             /\ r.perms[i].data \in SUBSET Perms
  <2>1. r \in Rules /\ ~Skipped(r)
    BY <1>0, ActiveAreRules DEF ActiveRules
  <2> QED
    BY <1>3, <2>1, Asked, KindOfData
<1>4. ASSUME k.spec \in {"allowed", "auditallow"}
      PROVE  ComputedVector(k) = UNION Prescribed(k.spec, k)
  <2>1. \A d : Marks(k.spec, d) = d
    BY <1>4 DEF Marks, TypeSpecs, XpermSpecs
  <2>2. \A x : x \in ComputedVector(k) <=> \E n \in EnabledNodes(k) : x \in n.data
    BY DEF ComputedVector
  <2>3. ASSUME NEW r, avrule_to_avtab_spec(r.spec) = k.spec PROVE r.spec = k.spec
    BY <1>4, <2>3 DEF avrule_to_avtab_spec
  <2>4. ASSUME NEW x \in Perms, NEW r \in ActiveRules, AsksMark(r, k, x)
        PROVE  x \in UNION Prescribed(k.spec, k)
    <3>1. PICK p \in DOMAIN r.pairs, i \in DOMAIN r.perms :
             KeyOf(r, r.pairs[p], r.perms[i]) = k /\ x \in Marks(r.spec, r.perms[i].data)
      BY <2>4 DEF AsksMark
    <3>2. r.spec = k.spec
      BY <1>3, <2>3, <3>1
    <3>3. r.perms[i].data \in Prescribed(k.spec, k)
      BY <3>1, <3>2, DataPrescribed
    <3> QED
      BY <2>1, <3>1, <3>2, <3>3
  <2>5. ASSUME NEW d \in Prescribed(k.spec, k), NEW x \in d
        PROVE  x \in Perms /\ \E r \in ActiveRules : AsksMark(r, k, x)
    <3>1. PICK r \in ActiveRules : \E i \in DOMAIN r.perms, p \in DOMAIN r.pairs :
             r.spec = k.spec /\ KeyOf(r, r.pairs[p], r.perms[i]) = k /\ d = r.perms[i].data
      BY DataPrescribed
    <3>2. PICK i \in DOMAIN r.perms, p \in DOMAIN r.pairs :
             r.spec = k.spec /\ KeyOf(r, r.pairs[p], r.perms[i]) = k /\ d = r.perms[i].data
      BY <3>1
    <3>3. ~Skipped(r) /\ d \in SUBSET Perms
      BY <1>3, <3>2
    <3>4. AsksMark(r, k, x)
      BY <2>1, <3>2, <3>3 DEF AsksMark
    <3> QED
      BY <3>3, <3>4
  <2>6. ASSUME NEW x \in ComputedVector(k) PROVE x \in UNION Prescribed(k.spec, k)
    <3>1. x \in Perms
      BY <1>2, <2>2
    <3> QED
      BY <1>1, <2>1, <2>2, <2>4, <3>1
  <2>7. ASSUME NEW x \in UNION Prescribed(k.spec, k) PROVE x \in ComputedVector(k)
    BY <1>1, <2>1, <2>2, <2>5
  <2> QED
    BY <2>6, <2>7
<1>5. ASSUME k.spec = "auditdeny"
      PROVE  ComputedAuditdeny(k) =
                {p \in Perms : /\ \A d \in Prescribed("dontaudit", k) : p \notin d
                               /\ \A d \in Prescribed("auditdeny", k) : p \in d}
  <2>1. ASSUME NEW x \in Perms
        PROVE  x \in ComputedAuditdeny(k) <=> ~\E n \in EnabledNodes(k) : x \in Marks(k.spec, n.data)
    BY <1>5 DEF ComputedAuditdeny, Marks, TypeSpecs, XpermSpecs
  <2>2. ASSUME NEW x \in Perms, NEW r \in ActiveRules, AsksMark(r, k, x)
        PROVE  \/ \E d \in Prescribed("dontaudit", k) : x \in d
               \/ \E d \in Prescribed("auditdeny", k) : x \notin d
    <3>1. PICK p \in DOMAIN r.pairs, i \in DOMAIN r.perms :
             KeyOf(r, r.pairs[p], r.perms[i]) = k /\ x \in Marks(r.spec, r.perms[i].data)
      BY <2>2 DEF AsksMark
    <3>2. r.spec \in {"dontaudit", "auditdeny"}
      <4>1. avrule_to_avtab_spec(r.spec) = "auditdeny"
        BY <1>3, <1>5, <3>1
      <4> QED
        BY <4>1 DEF avrule_to_avtab_spec
    <3>3. r.perms[i].data \in Prescribed(r.spec, k)
      BY <3>1, DataPrescribed
    <3>4. IF r.spec = "dontaudit" THEN x \in r.perms[i].data ELSE x \notin r.perms[i].data
      BY <3>1, <3>2 DEF Marks, TypeSpecs, XpermSpecs
    <3> QED
      BY <3>2, <3>3, <3>4
  <2>3. ASSUME NEW s \in {"dontaudit", "auditdeny"}, NEW d \in Prescribed(s, k), NEW x \in Perms,
               x \in Marks(s, d)
        PROVE  \E r \in ActiveRules : AsksMark(r, k, x)
    <3>1. PICK r \in ActiveRules : \E i \in DOMAIN r.perms, p \in DOMAIN r.pairs :
             r.spec = s /\ KeyOf(r, r.pairs[p], r.perms[i]) = k /\ d = r.perms[i].data
      BY DataPrescribed
    <3>2. PICK i \in DOMAIN r.perms, p \in DOMAIN r.pairs :
             r.spec = s /\ KeyOf(r, r.pairs[p], r.perms[i]) = k /\ d = r.perms[i].data
      BY <3>1
    <3>3. ~Skipped(r)
      BY <1>3, <3>2
    <3>4. AsksMark(r, k, x)
      BY <2>3, <3>2, <3>3 DEF AsksMark
    <3> QED
      BY <3>4
  <2>4. ASSUME NEW x \in Perms
        PROVE  x \in ComputedAuditdeny(k) <=> /\ \A d \in Prescribed("dontaudit", k) : x \notin d
                                              /\ \A d \in Prescribed("auditdeny", k) : x \in d
    <3>1. x \in ComputedAuditdeny(k) <=> ~\E r \in ActiveRules : AsksMark(r, k, x)
      BY <1>1, <2>1
    <3>2. \A d : /\ x \in Marks("dontaudit", d) <=> x \in d
                 /\ x \in Marks("auditdeny", d) <=> x \notin d
      BY DEF Marks, TypeSpecs, XpermSpecs
    <3> QED
      BY <2>2, <2>3, <3>1, <3>2
  <2>5. ComputedAuditdeny(k) \subseteq Perms
    BY DEF ComputedAuditdeny
  <2> QED
    BY <2>4, <2>5
<1> QED
  BY <1>4, <1>5

(* The access vectors that the expanded tables decide, under every setting of
   the booleans, are those the source rules in force ask for, whatever the
   rules and conditionals are and in whatever order they come, as long as the
   conditionals that cond_node_search merges are equivalent and none ends in
   two NOTs. *)
THEOREM AccessVectorsMatch == SoundConds => (Spec => []AccessMatchesSource)
<1> SUFFICES ASSUME SoundConds PROVE Spec => []AccessMatchesSource
  OBVIOUS
<1>1. Init => AccessInv
  BY MarksInit DEF AccessInv, MarkKeys
<1>2. AccessInv /\ [Next]_vars => AccessInv'
  BY AccessStep
<1>3. AccessInv => AccessMatchesSource
  BY AccessDecided
<1> QED
  BY <1>1, <1>2, <1>3, PTL DEF Spec

-----------------------------------------------------------------------------
(***************************************************************************)
(* Extended permissions.  A list holds, for one key, nodes of one driver:  *)
(* every node comes from a rule of a conditional that shares the list.     *)
(***************************************************************************)
LEMMA DriverType ==
    ASSUME NEW spec \in XpermSpecs, NEW d \in DataOf(spec)
    PROVE  d.driver \in Drivers /\ d.perms \subseteq Perms
<1>1. DataOf(spec) = [driver : Drivers, perms : SUBSET Perms]
  BY DEF DataOf, TypeSpecs, XpermSpecs
<1> QED
  BY <1>1

\* The datum that Store leaves in the node of the rule.
LEMMA StoredDriver ==
    ASSUME NEW spec \in XpermSpecs, NEW nodes \in Seq(Node(spec)),
           NEW cond \in Owners \cup {NoOwner}, NEW enabled \in BOOLEAN, NEW data \in DataOf(spec)
    PROVE  LET new == Store(nodes, spec, cond, enabled, data)
           IN \A j \in DOMAIN new : \/ new[j].owner = cond /\ new[j].data.driver = data.driver
                                    \/ \E i \in DOMAIN nodes : new[j] = nodes[i]
<1> DEFINE i == find_avtab_node(nodes, spec, cond, data)
           new == Store(nodes, spec, cond, enabled, data)
           New(old) == [owner |-> cond, enabled |-> enabled, data |-> MergeDatum(spec, old, data)]
<1>1. avrule_to_avtab_spec(spec) = spec /\ spec \in RuleSpecs /\ spec # "neverallow"
  BY DEF avrule_to_avtab_spec, XpermSpecs, RuleSpecs, AvtabSpecs
<1>2. /\ new \in Seq(Node(spec))
      /\ i = 0 => /\ Len(new) = Len(nodes) + 1
                  /\ new[1].owner = cond
                  /\ \A j \in 2 .. Len(new) : new[j] = nodes[j - 1]
      /\ i # 0 => /\ i \in DOMAIN nodes /\ Len(new) = Len(nodes)
                  /\ new[i].owner = cond
                  /\ \A j \in DOMAIN nodes \ {i} : new[j] = nodes[j]
  <2> DEFINE av == avrule_to_avtab_spec(spec)
  <2>1. nodes \in Seq(Node(av))
    BY <1>1
  <2>2. LET a == find_avtab_node(nodes, av, cond, data)
        IN /\ new \in Seq(Node(av))
           /\ a = 0 => /\ Len(new) = Len(nodes) + 1
                       /\ new[1].owner = cond
                       /\ \A j \in 2 .. Len(new) : new[j] = nodes[j - 1]
           /\ a # 0 => /\ a \in DOMAIN nodes /\ Len(new) = Len(nodes)
                       /\ new[a].owner = cond
                       /\ \A j \in DOMAIN nodes \ {a} : new[j] = nodes[j]
    <3>1. spec \in RuleSpecs /\ spec # "neverallow"
      BY <1>1
    <3> HIDE DEF av, new
    <3>2. PICK s \in RuleSpecs : s = spec
      BY <3>1
    <3>3. nodes \in Seq(Node(avrule_to_avtab_spec(s))) /\ s # "neverallow" /\ data \in DataOf(s)
      BY <2>1, <3>1, <3>2 DEF av
    <3> QED
      BY <3>2, <3>3, StoreShape, SMTT(30) DEF av, new
  <2> QED
    BY <1>1, <2>2
<1>3. new = IF i = 0 THEN InsertFirst(New(FreshDatum(spec, data)), nodes)
                     ELSE [nodes EXCEPT ![i] = New(nodes[i].data)]
  BY <1>1 DEF Store
<1>4. \A o : New(o).data.driver = data.driver
  <2>1. \A o : MergeDatum(spec, o, data) = [driver |-> data.driver, perms |-> o.perms \cup data.perms]
    BY DEF MergeDatum, XpermSpecs
  <2> QED
    BY <2>1
<1>5. Len(nodes) \in Nat /\ DOMAIN nodes = 1 .. Len(nodes) /\ DOMAIN new = 1 .. Len(new)
  BY <1>2
<1> HIDE DEF i, new, New
<1> SUFFICES ASSUME NEW j \in DOMAIN new
             PROVE  \/ new[j].owner = cond /\ new[j].data.driver = data.driver
                    \/ \E l \in DOMAIN nodes : new[j] = nodes[l]
  BY DEF new
<1>6. CASE i = 0
  <2>1. CASE j = 1
    <3>1. new[1] = New(FreshDatum(spec, data))
      BY <1>3, <1>5, <1>6 DEF InsertFirst
    <3> QED
      BY <1>2, <1>4, <1>6, <2>1, <3>1
  <2>2. CASE j # 1
    <3>1. j \in 2 .. Len(new) /\ j - 1 \in DOMAIN nodes
      BY <1>2, <1>5, <1>6, <2>2
    <3> QED
      BY <1>2, <1>6, <3>1
  <2> QED
    BY <2>1, <2>2
<1>7. CASE i # 0
  <2>1. CASE j = i
    <3>1. new[i] = New(nodes[i].data)
      BY <1>2, <1>3, <1>7
    <3> QED
      BY <1>2, <1>4, <1>7, <2>1, <3>1
  <2>2. CASE j # i
    <3>1. j \in DOMAIN nodes \ {i}
      BY <1>2, <1>5, <1>7, <2>2
    <3> QED
      BY <1>2, <1>7, <3>1
  <2> QED
    BY <2>1, <2>2
<1> QED
  BY <1>6, <1>7

\* So the node that a conditional rule finds in its own list has its driver.
LEMMA DriverIsFound ==
    ASSUME TypeOK, DriversFromSource, OneDriver, AtItem
    PROVE  FindsDriver(XpermKeys)
<1> DEFINE k == TaskKey
           cond == Task.cond
<1> SUFFICES ASSUME k \in XpermKeys, cond # NoOwner,
                    NEW j \in DOMAIN te_cond_avtab[k], te_cond_avtab[k][j].owner = cond
             PROVE  te_cond_avtab[k][j].data.driver = Item.data.driver
  BY DEF FindsDriver
<1> DEFINE n == te_cond_avtab[k][j]
<1>1. /\ Task.rule \in Rules /\ Item.data \in DataOf(Task.rule.spec) /\ k \in Keys
      /\ k.spec = avrule_to_avtab_spec(Task.rule.spec) /\ Task.rule.spec \in RuleSpecs
  BY TaskFacts DEF TaskType, WellFormedRule
<1>2. k.spec \in XpermSpecs /\ Task.rule.spec = k.spec
  <2>1. k.spec \in XpermSpecs
    BY DEF XpermKeys
  <2> HIDE DEF k
  <2> QED
    BY <1>1, <2>1 DEF avrule_to_avtab_spec, XpermSpecs
<1>3. Item.data.driver \in Drivers
  BY <1>1, <1>2, DriverType
<1>4. n.data.driver \in Drivers
  <2>1. te_cond_avtab[k] \in Seq(Node(k.spec))
    BY <1>1 DEF TypeOK
  <2>2. n \in Node(k.spec)
    BY <2>1
  <2>3. n.data \in DataOf(k.spec)
    BY <2>2 DEF Node
  <2> HIDE DEF n, k
  <2> QED
    BY <1>2, <2>3, DriverType
<1>5. AsksDriver(Task.rule, k, Item.data.driver)
  <2>1. pos.pair \in DOMAIN Task.rule.pairs /\ pos.item \in DOMAIN Task.rule.perms
    <3>1. WellFormedRule(Task.rule)
      BY TaskFacts
    <3> QED
      BY <3>1 DEF TypeOK, AtItem, Busy, WellFormedRule
  <2> QED
    BY <2>1 DEF AsksDriver, TaskKey, Item
<1>6. PICK c \in Conds : /\ Task.rule \in RulesOf(c)
                         /\ Equivalent(Normal(c.expr), cond_list[cond[1]].expr)
  <2>1. 1 \in DOMAIN todo /\ todo[1] = Task
    <3>1. todo \in Seq(TaskType) /\ todo # <<>>
      BY DEF TypeOK, TaskType, AtItem, Busy
    <3> HIDE DEF TaskType
    <3> QED
      BY <3>1 DEF Task
  <2>2. ComesFrom(Task.rule, cond)
    BY <2>1 DEF DriversFromSource
  <2> QED
    BY <2>2 DEF ComesFrom
<1>7. PICK r \in Rules : ComesFrom(r, n.owner) /\ AsksDriver(r, k, n.data.driver)
  BY DEF DriversFromSource
<1>8. PICK d \in Conds : /\ r \in RulesOf(d)
                         /\ Equivalent(Normal(d.expr), cond_list[cond[1]].expr)
  BY <1>7 DEF ComesFrom
<1>9. Equivalent(Normal(c.expr), Normal(d.expr))
  BY <1>6, <1>8 DEF Equivalent
<1> HIDE DEF k, n
<1> QED
  BY <1>3, <1>4, <1>5, <1>6, <1>7, <1>8, <1>9 DEF OneDriver, n, k

\* Where a rule or a node comes from stays known while the expressions of the
\* conditionals are kept.
LEMMA OriginKept ==
    ASSUME TypeOK, \A i \in DOMAIN cond_list : cond_list'[i].expr = cond_list[i].expr
    PROVE  \A r, o : o \in Lists /\ ComesFrom(r, o) => ComesFrom(r, o)'
<1> SUFFICES ASSUME NEW r, NEW o \in Lists, ComesFrom(r, o) PROVE ComesFrom(r, o)'
  OBVIOUS
<1>1. cond_list'[o[1]].expr = cond_list[o[1]].expr
  BY ListsAreOwners
<1> QED
  BY <1>1 DEF ComesFrom

TodoFromSource == \A t \in DOMAIN todo : todo[t].cond # NoOwner => ComesFrom(todo[t].rule, todo[t].cond)
NodesFromSource ==
    \A k \in XpermKeys : \A j \in DOMAIN te_cond_avtab[k] :
        \E r \in Rules : /\ ComesFrom(r, te_cond_avtab[k][j].owner)
                         /\ AsksDriver(r, k, te_cond_avtab[k][j].data.driver)

\* A step that leaves the rules that wait or takes from them keeps their origin,
\* and so does one that changes no owner and no datum.
LEMMA TodoKept ==
    ASSUME TypeOK, TodoFromSource, ToSet(todo') \subseteq ToSet(todo),
           \A i \in DOMAIN cond_list : cond_list'[i].expr = cond_list[i].expr
    PROVE  TodoFromSource'
<1>1. todo \in Seq(TaskType)
  BY DEF TypeOK, TaskType
<1>2. \A w \in ToSet(todo) : w.cond \in Lists \cup {NoOwner} /\ (w.cond # NoOwner => ComesFrom(w.rule, w.cond))
  <2>1. \A t \in DOMAIN todo : todo[t] \in TaskType
    <3> HIDE DEF TaskType
    <3> QED
      BY <1>1
  <2> QED
    BY <2>1 DEF ToSet, TaskType, TodoFromSource
<1> DEFINE From(r, o) == \E c \in Conds : /\ r \in RulesOf(c)
                                          /\ Equivalent(Normal(c.expr), cond_list'[o[1]].expr)
<1>3. \A r, o : ComesFrom(r, o)' <=> From(r, o)
  BY DEF ComesFrom
<1>4. \A r, o : o \in Lists /\ ComesFrom(r, o) => ComesFrom(r, o)'
  BY OriginKept
<1>5. TodoFromSource' <=> \A t \in DOMAIN todo' : todo'[t].cond # NoOwner => From(todo'[t].rule, todo'[t].cond)
  BY DEF TodoFromSource, ComesFrom
<1> HIDE DEF From
<1>6. ASSUME NEW t \in DOMAIN todo', todo'[t].cond # NoOwner
      PROVE  From(todo'[t].rule, todo'[t].cond)
  <2>1. todo'[t] \in ToSet(todo)
    BY DEF ToSet
  <2> QED
    BY <1>2, <1>3, <1>4, <1>6, <2>1
<1> QED
  BY <1>5, <1>6

LEMMA NodesKept ==
    ASSUME TypeOK, NodesFromSource,
           \A i \in DOMAIN cond_list : cond_list'[i].expr = cond_list[i].expr,
           \A k \in XpermKeys : \A j \in DOMAIN te_cond_avtab'[k] :
              \/ \E i \in DOMAIN te_cond_avtab[k] : /\ te_cond_avtab'[k][j].owner = te_cond_avtab[k][i].owner
                                                    /\ te_cond_avtab'[k][j].data = te_cond_avtab[k][i].data
              \/ \E r \in Rules : /\ te_cond_avtab'[k][j].owner \in Lists
                                  /\ ComesFrom(r, te_cond_avtab'[k][j].owner)
                                  /\ AsksDriver(r, k, te_cond_avtab'[k][j].data.driver)
    PROVE  NodesFromSource'
<1> DEFINE From(r, o) == \E c \in Conds : /\ r \in RulesOf(c)
                                          /\ Equivalent(Normal(c.expr), cond_list'[o[1]].expr)
<1>1. \A r, o : ComesFrom(r, o)' <=> From(r, o)
  BY DEF ComesFrom
<1>2. \A r, o : o \in Lists /\ ComesFrom(r, o) => From(r, o)
  <2>1. \A r, o : o \in Lists /\ ComesFrom(r, o) => ComesFrom(r, o)'
    BY OriginKept
  <2> HIDE DEF From
  <2> QED
    BY <1>1, <2>1
<1>3. ASSUME NEW k \in XpermKeys, NEW j \in DOMAIN te_cond_avtab'[k]
      PROVE  \E r \in Rules : From(r, te_cond_avtab'[k][j].owner) /\ AsksDriver(r, k, te_cond_avtab'[k][j].data.driver)
  <2> DEFINE n == te_cond_avtab'[k][j]
  <2> HIDE DEF From
  <2>1. CASE \E i \in DOMAIN te_cond_avtab[k] : n.owner = te_cond_avtab[k][i].owner /\ n.data = te_cond_avtab[k][i].data
    <3>1. PICK i \in DOMAIN te_cond_avtab[k] : n.owner = te_cond_avtab[k][i].owner /\ n.data = te_cond_avtab[k][i].data
      BY <2>1
    <3>2. te_cond_avtab[k][i].owner \in Lists
      BY DEF TypeOK, XpermKeys
    <3>3. PICK r \in Rules : ComesFrom(r, te_cond_avtab[k][i].owner) /\ AsksDriver(r, k, te_cond_avtab[k][i].data.driver)
      BY DEF NodesFromSource
    <3> QED
      BY <1>2, <3>1, <3>2, <3>3
  <2>2. CASE \E r \in Rules : n.owner \in Lists /\ ComesFrom(r, n.owner) /\ AsksDriver(r, k, n.data.driver)
    BY <1>2, <2>2
  <2> QED
    BY <2>1, <2>2
<1> QED
  BY <1>3 DEF NodesFromSource, ComesFrom

LEMMA DriversSplit == DriversFromSource <=> TodoFromSource /\ NodesFromSource
BY DEF DriversFromSource, TodoFromSource, NodesFromSource

\* The step that stores an item.
LEMMA StoreKeepsDrivers ==
    ASSUME TypeOK, TodoFromSource, NodesFromSource, AtItem, StoreItem, UNCHANGED <<cond_list, todo>>
    PROVE  TodoFromSource' /\ NodesFromSource'
<1> DEFINE r == Task.rule
           kk == TaskKey
           d == Item.data
           cond == Task.cond
           en == Task.enabled
<1>1. /\ Task \in TaskType /\ r \in Rules
      /\ r.spec \in RuleSpecs /\ d \in DataOf(r.spec)
      /\ kk \in Keys /\ kk.spec = avrule_to_avtab_spec(r.spec)
      /\ cond \in Owners \cup {NoOwner} /\ cond \in Lists \cup {NoOwner} /\ en \in BOOLEAN
  BY TaskFacts DEF WellFormedRule, TaskType
<1>2. IF cond = NoOwner
      THEN te_cond_avtab' = te_cond_avtab
      ELSE te_cond_avtab' = [te_cond_avtab EXCEPT ![kk] = Store(te_cond_avtab[kk], r.spec, cond, en, d)]
  BY DEF StoreItem
<1>3. AsksDriver(r, kk, d.driver)
  <2>1. pos.pair \in DOMAIN r.pairs /\ pos.item \in DOMAIN r.perms
    <3>1. WellFormedRule(r)
      BY TaskFacts
    <3> QED
      BY <3>1 DEF TypeOK, AtItem, Busy, WellFormedRule
  <2> QED
    BY <2>1 DEF AsksDriver, TaskKey, Item
<1>4. cond # NoOwner => ComesFrom(r, cond)
  <2>1. 1 \in DOMAIN todo /\ todo[1] = Task
    <3>1. todo \in Seq(TaskType) /\ todo # <<>>
      BY DEF TypeOK, TaskType, AtItem, Busy
    <3> HIDE DEF TaskType
    <3> QED
      BY <3>1 DEF Task
  <2> QED
    BY <2>1 DEF TodoFromSource
<1>5. DOMAIN te_cond_avtab = Keys /\ te_cond_avtab[kk] \in Seq(Node(kk.spec))
  BY <1>1 DEF TypeOK
<1>6. \A i \in DOMAIN cond_list : cond_list'[i].expr = cond_list[i].expr
  OBVIOUS
<1>7. TodoFromSource'
  BY <1>6, TodoKept
<1> HIDE DEF r, kk, d, cond, en
<1>8. ASSUME NEW k \in XpermKeys, NEW j \in DOMAIN te_cond_avtab'[k]
      PROVE  \/ \E i \in DOMAIN te_cond_avtab[k] : /\ te_cond_avtab'[k][j].owner = te_cond_avtab[k][i].owner
                                                   /\ te_cond_avtab'[k][j].data = te_cond_avtab[k][i].data
             \/ \E s \in Rules : /\ te_cond_avtab'[k][j].owner \in Lists
                                 /\ ComesFrom(s, te_cond_avtab'[k][j].owner)
                                 /\ AsksDriver(s, k, te_cond_avtab'[k][j].data.driver)
  <2>0. k \in Keys /\ k.spec \in XpermSpecs
    BY DEF XpermKeys
  <2>1. CASE cond = NoOwner \/ k # kk
    <3>1. te_cond_avtab'[k] = te_cond_avtab[k]
      BY <1>2, <1>5, <2>0, <2>1
    <3> QED
      BY <3>1
  <2>2. CASE cond # NoOwner /\ k = kk
    <3>1. te_cond_avtab'[k] = Store(te_cond_avtab[k], r.spec, cond, en, d)
      BY <1>2, <1>5, <2>0, <2>2
    <3>2. r.spec \in XpermSpecs /\ r.spec = k.spec
      BY <1>1, <2>0, <2>2 DEF avrule_to_avtab_spec, XpermSpecs
    <3>3. \/ te_cond_avtab'[k][j].owner = cond /\ te_cond_avtab'[k][j].data.driver = d.driver
          \/ \E i \in DOMAIN te_cond_avtab[k] : te_cond_avtab'[k][j] = te_cond_avtab[k][i]
      <4>1. te_cond_avtab[k] \in Seq(Node(r.spec))
        BY <1>5, <2>2, <3>2
      <4>2. \A l \in DOMAIN Store(te_cond_avtab[k], r.spec, cond, en, d) :
               \/ /\ Store(te_cond_avtab[k], r.spec, cond, en, d)[l].owner = cond
                  /\ Store(te_cond_avtab[k], r.spec, cond, en, d)[l].data.driver = d.driver
               \/ \E i \in DOMAIN te_cond_avtab[k] :
                     Store(te_cond_avtab[k], r.spec, cond, en, d)[l] = te_cond_avtab[k][i]
        BY <1>1, <3>2, <4>1, StoredDriver
      <4> QED
        BY <3>1, <4>2
    <3> QED
      BY <1>1, <1>3, <1>4, <2>2, <3>3
  <2> QED
    BY <2>1, <2>2
<1>9. NodesFromSource'
  BY <1>6, <1>8, NodesKept
<1> QED
  BY <1>7, <1>9

\* The rules of a conditional wait in the lists of one that is equivalent.
LEMMA CopyKeepsDrivers ==
    ASSUME TypeOK, CondsFromSource, SoundConds, NodesFromSource, NEW c \in Conds, cond_node_copy(c)
    PROVE  TodoFromSource' /\ NodesFromSource'
<1> DEFINE e == Normal(c.expr)
           i == cond_node_search(e)
           state == cond_list'[i].cur_state
           t == IF Negated(c.expr) THEN c.avfalse ELSE c.avtrue
           f == IF Negated(c.expr) THEN c.avtrue ELSE c.avfalse
           lt == <<i, "true">>
           lf == <<i, "false">>
           bt == state # 0
           bf == state = 0
           pt == Pending(t, lt, bt)
           pf == Pending(f, lf, bf)
           From(r, o) == \E a \in Conds : /\ r \in RulesOf(a)
                                          /\ Equivalent(Normal(a.expr), cond_list'[o[1]].expr)
<1>1. te_cond_avtab' = te_cond_avtab /\ todo' = pt \o pf
  BY DEF cond_node_copy, tables
<1>2. /\ \A j \in DOMAIN cond_list : cond_list'[j].expr = cond_list[j].expr
      /\ i \in 1 .. Len(cond_list')
      /\ \A val \in Assignments : cond_evaluate_expr(val, cond_list'[i].expr) = cond_evaluate_expr(val, e)
  BY FoundConditional
<1>3. t \in Seq(Rules) /\ f \in Seq(Rules)
  BY CondsAssumption DEF WellFormedCond
<1>4. \A r \in ToSet(t) \cup ToSet(f) : r \in RulesOf(c)
  BY DEF RulesOf
<1>5. Equivalent(e, cond_list'[i].expr)
  BY <1>2 DEF Equivalent
<1>6. lt[1] = i /\ lf[1] = i
  OBVIOUS
<1>7. bt \in BOOLEAN /\ bf \in BOOLEAN
  OBVIOUS
<1>8. \A r \in RulesOf(c) : From(r, lt) /\ From(r, lf)
  BY <1>5, <1>6
<1>9. NodesFromSource'
  BY <1>1, <1>2, NodesKept
<1>10. TodoFromSource' <=> \A w \in ToSet(todo') : w.cond # NoOwner => From(w.rule, w.cond)
  BY DEF TodoFromSource, ComesFrom, ToSet
<1> HIDE DEF e, i, state, t, f, lt, lf, bt, bf, From
<1>11. /\ ToSet(pt) = {[rule |-> t[j], cond |-> lt, enabled |-> bt] : j \in DOMAIN t}
       /\ ToSet(pf) = {[rule |-> f[j], cond |-> lf, enabled |-> bf] : j \in DOMAIN f}
  BY <1>3, <1>7, PendingAsks
<1>12. ToSet(todo') = ToSet(pt) \cup ToSet(pf)
  <2> DEFINE X == [rule : Rules, cond : {lt, lf}, enabled : BOOLEAN]
  <2>1. pt \in Seq(X) /\ pf \in Seq(X)
    BY <1>3, <1>7, PendingType
  <2> HIDE DEF X, pt, pf
  <2> QED
    BY <1>1, <2>1, Joined
<1>13. ASSUME NEW w \in ToSet(todo') PROVE From(w.rule, w.cond)
  <2>1. CASE w \in ToSet(pt)
    <3>1. PICK j \in DOMAIN t : w = [rule |-> t[j], cond |-> lt, enabled |-> bt]
      BY <1>11, <2>1
    <3>2. w.rule = t[j] /\ w.cond = lt
      BY <3>1
    <3>3. t[j] \in RulesOf(c)
      BY <1>4 DEF ToSet
    <3> QED
      BY <1>8, <3>2, <3>3
  <2>2. CASE w \in ToSet(pf)
    <3>1. PICK j \in DOMAIN f : w = [rule |-> f[j], cond |-> lf, enabled |-> bf]
      BY <1>11, <2>2
    <3>2. w.rule = f[j] /\ w.cond = lf
      BY <3>1
    <3>3. f[j] \in RulesOf(c)
      BY <1>4 DEF ToSet
    <3> QED
      BY <1>8, <3>2, <3>3
  <2> QED
    BY <1>12, <2>1, <2>2
<1> QED
  BY <1>9, <1>10, <1>13

LEMMA DriversStep ==
    ASSUME SoundConds, Inv, CondsFromSource, DriversFromSource, [Next]_vars
    PROVE  DriversFromSource'
<1> SUFFICES TodoFromSource' /\ NodesFromSource'
  BY DEF DriversFromSource, TodoFromSource, NodesFromSource, ComesFrom
<1>0. TypeOK /\ TodoFromSource /\ NodesFromSource
  BY DriversSplit DEF Inv
<1>1. ASSUME UNCHANGED <<te_cond_avtab, cond_list>>, ToSet(todo') \subseteq ToSet(todo)
      PROVE  TodoFromSource' /\ NodesFromSource'
  BY <1>0, <1>1, TodoKept, NodesKept
<1>2. ASSUME NEW r \in Rules, TakeRule(r)
      PROVE  TodoFromSource' /\ NodesFromSource'
  <2>1. UNCHANGED <<te_cond_avtab, cond_list>> /\ todo' = Pending(<<r>>, NoOwner, FALSE)
    BY <1>2 DEF TakeRule, tables
  <2>2. NodesFromSource'
    BY <1>0, <2>1, NodesKept
  <2>3. \A t \in DOMAIN todo' : todo'[t].cond = NoOwner
    BY <2>1 DEF Pending
  <2> QED
    BY <2>2, <2>3 DEF TodoFromSource
<1>3. ASSUME NEW c \in Conds, cond_node_copy(c)
      PROVE  TodoFromSource' /\ NodesFromSource'
  BY <1>0, <1>3, CopyKeepsDrivers
<1>4. CASE FinishRule
  <2>1. UNCHANGED <<te_cond_avtab, cond_list>> /\ todo' = Tail(todo) /\ todo # <<>>
    BY <1>4 DEF FinishRule, tables, Busy
  <2>2. todo \in Seq(TaskType)
    BY <1>0 DEF TypeOK, TaskType
  <2> HIDE DEF TaskType
  <2>3. \A t \in DOMAIN Tail(todo) : t + 1 \in DOMAIN todo /\ Tail(todo)[t] = todo[t + 1]
    BY <2>1, <2>2
  <2>4. ToSet(todo') \subseteq ToSet(todo)
    BY <2>1, <2>3 DEF ToSet
  <2> QED
    BY <1>1, <2>1, <2>4
<1>5. CASE expand_avrule_helper
  BY <1>0, <1>5, StoreKeepsDrivers DEF expand_avrule_helper
<1>6. CASE expand_terule_helper
  BY <1>0, <1>6, StoreKeepsDrivers DEF expand_terule_helper, AtTypeItem
<1>7. CASE UNCHANGED <<te_cond_avtab, cond_list, todo>>
  BY <1>1, <1>7
<1>8. CASE DuplicateTypeRule \/ ConflictingTypeRule \/ OutOfMemory
  BY <1>7, <1>8 DEF DuplicateTypeRule, ConflictingTypeRule, OutOfMemory, tables
<1>9. ASSUME NEW w, evaluate_conds(w), todo' = todo
      PROVE  TodoFromSource' /\ NodesFromSource'
  <2>1. /\ \A i \in DOMAIN cond_list : cond_list'[i].expr = cond_list[i].expr
        /\ \A k \in Keys : /\ DOMAIN te_cond_avtab'[k] = DOMAIN te_cond_avtab[k]
                           /\ \A i \in DOMAIN te_cond_avtab[k] :
                                /\ te_cond_avtab'[k][i].owner = te_cond_avtab[k][i].owner
                                /\ te_cond_avtab'[k][i].data = te_cond_avtab[k][i].data
    BY <1>0, <1>9, EvaluateKeepsNodes
  <2>2. XpermKeys \subseteq Keys
    BY DEF XpermKeys
  <2>3. NodesFromSource'
    BY <1>0, <2>1, <2>2, NodesKept
  <2> QED
    BY <1>0, <1>9, <2>1, <2>3, TodoKept
<1>10. CASE FinishExpansion
  BY <1>9, <1>10 DEF FinishExpansion
<1>11. ASSUME NEW b \in Bools, NEW v \in States, sepol_bool_set(b, v)
       PROVE  TodoFromSource' /\ NodesFromSource'
  BY <1>9, <1>11 DEF sepol_bool_set
<1> QED
  BY <1>2, <1>3, <1>4, <1>5, <1>6, <1>7, <1>8, <1>10, <1>11 DEF Next, vars

LEMMA XpermStep == SoundConds /\ OneDriver /\ XpermInv /\ [Next]_vars => XpermInv'
<1> SUFFICES ASSUME SoundConds, OneDriver, XpermInv, [Next]_vars PROVE XpermInv'
  OBVIOUS
<1>1. /\ Inv /\ TypeOK /\ CondsFromSource /\ DriversFromSource
      /\ MarksKept(XpermKeys) /\ ItemsStored(XpermKeys)
  BY DEF XpermInv, Inv
<1>2. XpermKeys \in SUBSET MarkKeys
  BY DEF MarkKeys
<1>3. AtItem => FindsDriver(XpermKeys)
  BY <1>1, DriverIsFound
<1>a. DuplicateTypeRule => PairStored(XpermKeys)
  BY DuplicateElsewhere DEF XpermKeys, XpermSpecs, TypeSpecs
<1>4. CondsFromSource' /\ MarksKept(XpermKeys)' /\ ItemsStored(XpermKeys)'
  <2> HIDE DEF XpermKeys
  <2> QED
    BY <1>1, <1>2, <1>3, <1>a, MarksStep
<1>5. DriversFromSource'
  BY <1>1, DriversStep
<1> QED
  BY <1>1, <1>4, <1>5, InvStep DEF XpermInv

LEMMA XpermDecided == CondsFromSource /\ Inv /\ MarksKept(XpermKeys) => XpermsMatchSource
<1> SUFFICES ASSUME CondsFromSource, Inv, MarksKept(XpermKeys), status = "expanded",
                    NEW k \in Keys, k.spec \in XpermSpecs
             PROVE  XpermsOf({n.data : n \in EnabledNodes(k)}) = XpermsOf(Prescribed(k.spec, k))
  BY DEF XpermsMatchSource
<1>1. k \in XpermKeys /\ XpermKeys \in SUBSET MarkKeys
  BY DEF XpermKeys, MarkKeys
<1>2. \A d : Marks(k.spec, d) = {d.driver} \X d.perms
  BY DEF Marks, TypeSpecs, XpermSpecs
<1>3. ASSUME NEW data, NEW x PROVE x \in XpermsOf(data) <=> \E d \in data : x \in Marks(k.spec, d)
  BY <1>2 DEF XpermsOf
<1>4. \A x \in AllMarks : (\E n \in EnabledNodes(k) : x \in Marks(k.spec, n.data)) <=>
                             \E r \in ActiveRules : AsksMark(r, k, x)
  <2> HIDE DEF XpermKeys
  <2> QED
    BY <1>1, MarksDecided
<1>5. \A n \in EnabledNodes(k) : Marks(k.spec, n.data) \subseteq AllMarks
  <2> DEFINE X == Node(k.spec)
  <2>1. te_avtab[k] \in Seq(X) /\ te_cond_avtab[k] \in Seq(X)
    BY DEF Inv, TypeOK
  <2>2. \A n \in X : n.data \in DataOf(k.spec)
    BY DEF Node
  <2>3. \A d \in DataOf(k.spec) : Marks(k.spec, d) \subseteq AllMarks
    <3>1. \A d \in DataOf(k.spec) : d.driver \in Drivers /\ d.perms \subseteq Perms
      BY DriverType
    <3> QED
      BY <1>2, <3>1 DEF AllMarks
  <2> HIDE DEF X
  <2>4. ToSet(te_avtab[k]) \subseteq X /\ ToSet(te_cond_avtab[k]) \subseteq X
    BY <2>1 DEF ToSet
  <2> QED
    BY <2>2, <2>3, <2>4 DEF EnabledNodes
<1>6. ASSUME NEW r \in ActiveRules, NEW i \in DOMAIN r.perms, NEW p \in DOMAIN r.pairs,
             KeyOf(r, r.pairs[p], r.perms[i]) = k
      PROVE  ~Skipped(r) /\ r.spec = k.spec /\ Marks(r.spec, r.perms[i].data) \subseteq AllMarks
  <2>1. r \in Rules /\ ~Skipped(r)
    BY ActiveAreRules DEF ActiveRules
  <2>2. /\ k.spec = avrule_to_avtab_spec(r.spec)
        /\ k \in MarkKeys => Marks(r.spec, r.perms[i].data) \subseteq AllMarks
    BY <1>6, <2>1, Asked
  <2>3. r.spec = k.spec
    BY <2>2 DEF avrule_to_avtab_spec, XpermSpecs
  <2> QED
    BY <1>1, <2>1, <2>2, <2>3
<1>7. ASSUME NEW x
      PROVE  (\E d \in Prescribed(k.spec, k) : x \in Marks(k.spec, d)) <=>
                x \in AllMarks /\ \E r \in ActiveRules : AsksMark(r, k, x)
  <2>1. ASSUME NEW d \in Prescribed(k.spec, k), x \in Marks(k.spec, d)
        PROVE  x \in AllMarks /\ \E r \in ActiveRules : AsksMark(r, k, x)
    <3>1. PICK r \in ActiveRules : \E i \in DOMAIN r.perms, p \in DOMAIN r.pairs :
             r.spec = k.spec /\ KeyOf(r, r.pairs[p], r.perms[i]) = k /\ d = r.perms[i].data
      BY DataPrescribed
    <3>2. PICK i \in DOMAIN r.perms, p \in DOMAIN r.pairs :
             r.spec = k.spec /\ KeyOf(r, r.pairs[p], r.perms[i]) = k /\ d = r.perms[i].data
      BY <3>1
    <3>3. ~Skipped(r) /\ Marks(r.spec, r.perms[i].data) \subseteq AllMarks
      BY <1>6, <3>2
    <3>4. AsksMark(r, k, x)
      BY <2>1, <3>2, <3>3 DEF AsksMark
    <3> QED
      BY <2>1, <3>2, <3>3, <3>4
  <2>2. ASSUME NEW r \in ActiveRules, AsksMark(r, k, x)
        PROVE  \E d \in Prescribed(k.spec, k) : x \in Marks(k.spec, d)
    <3>1. PICK p \in DOMAIN r.pairs, i \in DOMAIN r.perms :
             KeyOf(r, r.pairs[p], r.perms[i]) = k /\ x \in Marks(r.spec, r.perms[i].data)
      BY <2>2 DEF AsksMark
    <3>2. r.spec = k.spec
      BY <1>6, <3>1
    <3>3. r.perms[i].data \in Prescribed(k.spec, k)
      BY <3>1, <3>2, DataPrescribed
    <3> QED
      BY <3>1, <3>2, <3>3
  <2> QED
    BY <2>1, <2>2
<1> DEFINE D == {n.data : n \in EnabledNodes(k)}
<1>8. \A x : (\E d \in D : x \in Marks(k.spec, d)) <=> \E n \in EnabledNodes(k) : x \in Marks(k.spec, n.data)
  OBVIOUS
<1> HIDE DEF D
<1>9. \A x : x \in XpermsOf(D) <=> x \in XpermsOf(Prescribed(k.spec, k))
  BY <1>3, <1>4, <1>5, <1>7, <1>8
<1>10. XpermsOf(D) = XpermsOf(Prescribed(k.spec, k))
  BY <1>9 DEF XpermsOf
<1> QED
  BY <1>10 DEF D

(* The extended permissions that the expanded tables grant or deny, driver by
   driver and under every setting of the booleans, are those the source rules
   in force ask for, although find_avtab_node looks at the driver only until it
   searches for a conditional rule's own list: for conditionals that are merged
   soundly and use one driver per key. *)
THEOREM ExtendedPermissionsMatch == SoundConds /\ OneDriver => (Spec => []XpermsMatchSource)
<1> SUFFICES ASSUME SoundConds, OneDriver PROVE Spec => []XpermsMatchSource
  OBVIOUS
<1>1. Init => XpermInv
  <2> SUFFICES ASSUME Init PROVE XpermInv
    OBVIOUS
  <2>1. Inv /\ CondsFromSource /\ MarksKept(XpermKeys) /\ ItemsStored(XpermKeys)
    BY MarksInit DEF MarkKeys
  <2>2. DriversFromSource
    BY DEF Init, DriversFromSource, XpermKeys
  <2> QED
    BY <2>1, <2>2 DEF XpermInv
<1>2. XpermInv /\ [Next]_vars => XpermInv'
  BY XpermStep
<1>3. XpermInv => XpermsMatchSource
  BY XpermDecided DEF XpermInv
<1> QED
  BY <1>1, <1>2, <1>3, PTL DEF Spec
-----------------------------------------------------------------------------
(***************************************************************************)
(* The type a lookup finds is one the source asks for, and is found when   *)
(* the source asks for one: TypeInv is inductive.                          *)
(***************************************************************************)
TasksSourced == \A t \in DOMAIN todo : FromSource(todo[t].rule, todo[t].cond)
Unowned == \A k \in TypeKeys : \A i \in DOMAIN te_avtab[k] : te_avtab[k][i].owner = NoOwner
TypesSourced ==
    \A owner \in AllLists, k \in TypeKeys, d \in Types :
        HoldsType(owner, k, d) =>
            \E r \in Rules : \E p \in DOMAIN r.pairs, i \in DOMAIN r.perms : Origin(owner, k, d, r, p, i)

LEMMA TypesSplit == TypesFromSource <=> TasksSourced /\ Unowned /\ TypesSourced
BY DEF TypesFromSource, TasksSourced, Unowned, TypesSourced, AllLists

\* A rule with a key of a type rule is a type rule, and is never passed over;
\* all keys it leads to are keys of type rules.
LEMMA TypeRuleKey ==
    ASSUME NEW r \in Rules, NEW p \in DOMAIN r.pairs, NEW i \in DOMAIN r.perms,
           KeyOf(r, r.pairs[p], r.perms[i]).spec \in TypeSpecs
    PROVE  /\ r.spec \in TypeSpecs /\ avrule_to_avtab_spec(r.spec) = r.spec /\ ~Skipped(r)
           /\ \A q \in DOMAIN r.pairs, j \in DOMAIN r.perms :
                 KeyOf(r, r.pairs[q], r.perms[j]) \in TypeKeys
           /\ DataOf(r.spec) = Types
           /\ \A d : Marks(r.spec, d) = {TypeMark(r.spec)}
           /\ TypeMark(r.spec) \in AllMarks
<1>1. avrule_to_avtab_spec(r.spec) \in TypeSpecs
  BY DEF KeyOf
<1>2. r.spec \in TypeSpecs /\ avrule_to_avtab_spec(r.spec) = r.spec
  BY <1>1 DEF avrule_to_avtab_spec, TypeSpecs
<1>3. ~Skipped(r)
  BY <1>2 DEF Skipped, TypeSpecs
<1>4. ASSUME NEW q \in DOMAIN r.pairs, NEW j \in DOMAIN r.perms
      PROVE  KeyOf(r, r.pairs[q], r.perms[j]) \in TypeKeys
  BY <1>2, <1>3, Asked DEF TypeKeys
<1>5. DataOf(r.spec) = Types
  BY <1>2 DEF DataOf
<1>6. \A d : Marks(r.spec, d) = {TypeMark(r.spec)}
  BY <1>2 DEF Marks, TypeSpecs, XpermSpecs
<1>7. TypeMark(r.spec) \in AllMarks
  BY <1>2 DEF AllMarks
<1> QED
  BY <1>2, <1>3, <1>4, <1>5, <1>6, <1>7

\* The nodes after a type rule was stored: the rule's and some of the old ones.
LEMMA StoredTypes ==
    ASSUME NEW spec \in TypeSpecs, NEW nodes \in Seq(Node(spec)),
           NEW cond \in Owners \cup {NoOwner}, NEW enabled \in BOOLEAN, NEW data \in Types,
           NEW j \in DOMAIN Store(nodes, spec, cond, enabled, data)
    PROVE  LET n == Store(nodes, spec, cond, enabled, data)[j]
           IN (n.owner = cond /\ n.data = data) \/ \E l \in DOMAIN nodes : n = nodes[l]
<1> DEFINE i == find_avtab_node(nodes, spec, cond, data)
           new == Store(nodes, spec, cond, enabled, data)
           New(old) == [owner |-> cond, enabled |-> enabled, data |-> MergeDatum(spec, old, data)]
<1>1. avrule_to_avtab_spec(spec) = spec
  BY DEF avrule_to_avtab_spec, TypeSpecs
<1>2. \A o : MergeDatum(spec, o, data) = data
  BY DEF MergeDatum, TypeSpecs, XpermSpecs
<1>3. \A o : New(o).owner = cond /\ New(o).data = data
  BY <1>2
<1>4. i \in {0} \cup DOMAIN nodes
  BY FindNode
<1>5. new = IF i = 0 THEN InsertFirst(New(FreshDatum(spec, data)), nodes)
                     ELSE [nodes EXCEPT ![i] = New(nodes[i].data)]
  BY <1>1 DEF Store
<1>6. Len(nodes) \in Nat /\ DOMAIN nodes = 1 .. Len(nodes) /\ j \in DOMAIN new
  OBVIOUS
<1> HIDE DEF i, new, New
<1>7. CASE i = 0
  <2>1. new = [m \in 1 .. Len(nodes) + 1 |-> IF m = 1 THEN New(FreshDatum(spec, data)) ELSE nodes[m - 1]]
    BY <1>5, <1>7 DEF InsertFirst
  <2>2. j \in 1 .. Len(nodes) + 1
    BY <1>6, <2>1
  <2>3. CASE j = 1
    <3>1. new[j] = New(FreshDatum(spec, data))
      BY <2>1, <2>2, <2>3
    <3> QED
      BY <1>3, <3>1 DEF new
  <2>4. CASE j # 1
    <3>1. j - 1 \in DOMAIN nodes /\ new[j] = nodes[j - 1]
      BY <1>6, <2>1, <2>2, <2>4
    <3> QED
      BY <3>1 DEF new
  <2> QED
    BY <2>3, <2>4
<1>8. CASE i # 0
  <2>1. new = [nodes EXCEPT ![i] = New(nodes[i].data)] /\ DOMAIN new = DOMAIN nodes
    BY <1>5, <1>8
  <2>2. CASE j = i
    <3>1. new[j] = New(nodes[i].data)
      BY <1>6, <2>1, <2>2
    <3> QED
      BY <1>3, <3>1 DEF new
  <2>3. CASE j # i
    <3>1. j \in DOMAIN nodes /\ new[j] = nodes[j]
      BY <1>6, <2>1, <2>3
    <3> QED
      BY <3>1 DEF new
  <2> QED
    BY <2>2, <2>3
<1> QED
  BY <1>7, <1>8

\* Storing one class adds at most the rule's type to the rule's own list.
LEMMA StoreItemTypes ==
    ASSUME TypeOK, Unowned, AtItem, StoreItem
    PROVE  /\ Unowned'
           /\ \A owner \in AllLists, k \in TypeKeys : \A d :
                 HoldsType(owner, k, d)' =>
                    HoldsType(owner, k, d) \/ (owner = Task.cond /\ k = TaskKey /\ d = Item.data)
<1>1. /\ Task \in TaskType /\ Task.rule.spec \in RuleSpecs
      /\ Item.data \in DataOf(Task.rule.spec)
      /\ TaskKey \in Keys /\ TaskKey.spec = avrule_to_avtab_spec(Task.rule.spec)
      /\ Task.cond \in Owners \cup {NoOwner} /\ Task.enabled \in BOOLEAN
  BY TaskFacts DEF WellFormedRule, TaskType
<1>2. PICK spec, kk, data, cond, en :
         spec = Task.rule.spec /\ kk = TaskKey /\ data = Item.data /\ cond = Task.cond /\ en = Task.enabled
  OBVIOUS
<1>3. IF cond = NoOwner
      THEN /\ te_avtab' = [te_avtab EXCEPT ![kk] = Store(te_avtab[kk], spec, cond, en, data)]
           /\ te_cond_avtab' = te_cond_avtab
      ELSE /\ te_cond_avtab' = [te_cond_avtab EXCEPT ![kk] = Store(te_cond_avtab[kk], spec, cond, en, data)]
           /\ te_avtab' = te_avtab
  BY <1>2 DEF StoreItem
<1>4. DOMAIN te_avtab = Keys /\ DOMAIN te_cond_avtab = Keys
      /\ \A k \in Keys : te_avtab[k] \in Seq(Node(k.spec)) /\ te_cond_avtab[k] \in Seq(Node(k.spec))
  BY DEF TypeOK
<1>5. ASSUME kk \in TypeKeys
      PROVE  /\ spec \in TypeSpecs /\ data \in Types /\ kk.spec = spec
             /\ cond \in Owners \cup {NoOwner} /\ en \in BOOLEAN
  <2>1. spec \in RuleSpecs /\ kk.spec = avrule_to_avtab_spec(spec) /\ kk.spec \in TypeSpecs
        /\ data \in DataOf(spec)
    BY <1>1, <1>2, <1>5 DEF TypeKeys
  <2>2. spec \in TypeSpecs /\ kk.spec = spec
    BY <2>1 DEF avrule_to_avtab_spec, TypeSpecs
  <2> QED
    BY <1>1, <1>2, <2>1, <2>2 DEF DataOf
<1> DEFINE Old(n, s) == \E l \in DOMAIN s : n = s[l]
           New(n) == n.owner = cond /\ n.data = data
<1>6. ASSUME NEW k \in TypeKeys, NEW j \in DOMAIN te_avtab'[k]
      PROVE  (cond = NoOwner /\ k = kk /\ New(te_avtab'[k][j])) \/ Old(te_avtab'[k][j], te_avtab[k])
  <2>1. CASE cond = NoOwner /\ k = kk
    <3>1. te_avtab'[k] = Store(te_avtab[k], spec, cond, en, data)
          /\ te_avtab[k] \in Seq(Node(spec))
      BY <1>3, <1>4, <1>5, <2>1 DEF TypeKeys
    <3>2. PICK nodes, n : nodes = te_avtab[k] /\ n = te_avtab'[k][j]
      OBVIOUS
    <3>3. j \in DOMAIN Store(nodes, spec, cond, en, data) /\ n = Store(nodes, spec, cond, en, data)[j]
      BY <3>1, <3>2
    <3>4. nodes \in Seq(Node(spec)) /\ spec \in TypeSpecs /\ data \in Types
          /\ cond \in Owners \cup {NoOwner} /\ en \in BOOLEAN
      BY <1>5, <2>1, <3>1, <3>2
    <3>5. New(n) \/ Old(n, nodes)
      BY <3>3, <3>4, StoredTypes
    <3> QED
      BY <2>1, <3>2, <3>5
  <2>2. CASE ~(cond = NoOwner /\ k = kk)
    <3>1. te_avtab'[k] = te_avtab[k]
      BY <1>3, <1>4, <2>2 DEF TypeKeys
    <3> QED
      BY <3>1
  <2> QED
    BY <2>1, <2>2
<1>7. ASSUME NEW k \in TypeKeys, NEW j \in DOMAIN te_cond_avtab'[k]
      PROVE  (cond # NoOwner /\ k = kk /\ New(te_cond_avtab'[k][j]))
                \/ Old(te_cond_avtab'[k][j], te_cond_avtab[k])
  <2>1. CASE cond # NoOwner /\ k = kk
    <3>1. te_cond_avtab'[k] = Store(te_cond_avtab[k], spec, cond, en, data)
          /\ te_cond_avtab[k] \in Seq(Node(spec))
      BY <1>3, <1>4, <1>5, <2>1 DEF TypeKeys
    <3>2. PICK nodes, n : nodes = te_cond_avtab[k] /\ n = te_cond_avtab'[k][j]
      OBVIOUS
    <3>3. j \in DOMAIN Store(nodes, spec, cond, en, data) /\ n = Store(nodes, spec, cond, en, data)[j]
      BY <3>1, <3>2
    <3>4. nodes \in Seq(Node(spec)) /\ spec \in TypeSpecs /\ data \in Types
          /\ cond \in Owners \cup {NoOwner} /\ en \in BOOLEAN
      BY <1>5, <2>1, <3>1, <3>2
    <3>5. New(n) \/ Old(n, nodes)
      BY <3>3, <3>4, StoredTypes
    <3> QED
      BY <2>1, <3>2, <3>5
  <2>2. CASE ~(cond # NoOwner /\ k = kk)
    <3>1. te_cond_avtab'[k] = te_cond_avtab[k]
      BY <1>3, <1>4, <2>2 DEF TypeKeys
    <3> QED
      BY <3>1
  <2> QED
    BY <2>1, <2>2
<1>8. Unowned'
  <2> SUFFICES ASSUME NEW k \in TypeKeys, NEW j \in DOMAIN te_avtab'[k]
               PROVE  te_avtab'[k][j].owner = NoOwner
    BY DEF Unowned
  <2>1. CASE cond = NoOwner /\ New(te_avtab'[k][j])
    BY <2>1
  <2>2. CASE Old(te_avtab'[k][j], te_avtab[k])
    BY <2>2 DEF Unowned
  <2> QED
    BY <1>6, <2>1, <2>2
<1>9. ASSUME NEW owner \in AllLists, NEW k \in TypeKeys, NEW d, HoldsType(owner, k, d)'
      PROVE  HoldsType(owner, k, d) \/ (owner = Task.cond /\ k = TaskKey /\ d = Item.data)
  <2>1. CASE owner = NoOwner
    <3>1. PICK j \in DOMAIN te_avtab'[k] : te_avtab'[k][j].owner = owner /\ te_avtab'[k][j].data = d
      BY <1>9, <2>1 DEF HoldsType
    <3>2. CASE k = kk /\ New(te_avtab'[k][j])
      BY <1>2, <3>1, <3>2
    <3>3. CASE Old(te_avtab'[k][j], te_avtab[k])
      BY <2>1, <3>1, <3>3 DEF HoldsType
    <3> QED
      BY <1>6, <3>2, <3>3
  <2>2. CASE owner # NoOwner
    <3>1. PICK j \in DOMAIN te_cond_avtab'[k] :
             te_cond_avtab'[k][j].owner = owner /\ te_cond_avtab'[k][j].data = d
      BY <1>9, <2>2 DEF HoldsType
    <3>2. CASE k = kk /\ New(te_cond_avtab'[k][j])
      BY <1>2, <3>1, <3>2
    <3>3. CASE Old(te_cond_avtab'[k][j], te_cond_avtab[k])
      BY <2>2, <3>1, <3>3 DEF HoldsType
    <3> QED
      BY <1>7, <3>2, <3>3
  <2> QED
    BY <2>1, <2>2
<1> QED
  BY <1>8, <1>9

\* The rules of the source are those it had, and those of the entry it gets.
LEMMA SourceRulesGrow ==
    ASSUME CondsFromSource, NEW g \in Sources, given' = Append(given, g), NEW val
    PROVE  SourceRules(val)' = SourceRules(val) \cup ToSet(BranchOf(val, g))
<1> DEFINE B(h) == ToSet(BranchOf(val, h))
<1>1. given \in Seq(Sources)
  BY DEF CondsFromSource, Sources
<1>2. /\ SourceRules(val) = UNION {B(given[i]) : i \in DOMAIN given}
      /\ SourceRules(val)' = UNION {B(given'[i]) : i \in DOMAIN given'}
  BY DEF SourceRules
<1> HIDE DEF B, Sources
<1>3. /\ Len(given) \in Nat /\ DOMAIN given = 1 .. Len(given) /\ DOMAIN given' = 1 .. Len(given) + 1
      /\ given'[Len(given) + 1] = g
      /\ \A i \in 1 .. Len(given) : given'[i] = given[i]
  BY <1>1
<1>4. ASSUME NEW r, NEW i \in DOMAIN given', r \in B(given'[i])
      PROVE  r \in SourceRules(val) \cup B(g)
  <2>1. CASE i = Len(given) + 1
    BY <1>3, <1>4, <2>1
  <2>2. CASE i # Len(given) + 1
    <3>1. i \in DOMAIN given /\ given'[i] = given[i]
      BY <1>3, <2>2
    <3> QED
      BY <1>2, <1>4, <3>1
  <2> QED
    BY <2>1, <2>2
<1>5. ASSUME NEW r, NEW i \in DOMAIN given, r \in B(given[i])
      PROVE  r \in SourceRules(val)'
  <2>1. i \in DOMAIN given' /\ given'[i] = given[i]
    BY <1>3
  <2> QED
    BY <1>2, <1>5, <2>1
<1>6. ASSUME NEW r \in B(g) PROVE r \in SourceRules(val)'
  <2>1. Len(given) + 1 \in DOMAIN given'
    BY <1>3
  <2> QED
    BY <1>2, <1>3, <2>1
<1> QED
  BY <1>2, <1>4, <1>5, <1>6 DEF B

\* What the source asks for whenever a list is in force stays so.
LEMMA FromSourceStays ==
    ASSUME NEW owner, NEW r, FromSource(r, owner),
           \A val \in Assignments : InForce(val, owner)' <=> InForce(val, owner),
           \A val : SourceRules(val) \subseteq SourceRules(val)'
    PROVE  FromSource(r, owner)'
BY DEF FromSource

\* A step under which marks, lists in force and source rules stay, a pair that
\* was being stored still is or is whole, and new types have an origin.
LEMMA TypesStay ==
    ASSUME TypesSourced,
           \A owner \in AllLists, k \in TypeKeys : \A x : HoldsMark(owner, k, x) => HoldsMark(owner, k, x)',
           \A owner \in AllLists, val \in Assignments : InForce(val, owner)' <=> InForce(val, owner),
           \A val : SourceRules(val) \subseteq SourceRules(val)',
           \A owner \in AllLists, r \in TypeRulesOf(Rules) :
              \A p \in DOMAIN r.pairs, i \in DOMAIN r.perms :
                 InsidePair(owner, r, p, i) => WholePair(owner, r, p)' \/ InsidePair(owner, r, p, i)',
           \A owner \in AllLists', k \in TypeKeys, d \in Types :
              HoldsType(owner, k, d)' =>
                 \/ owner \in AllLists /\ HoldsType(owner, k, d)
                 \/ \E r \in Rules : \E p \in DOMAIN r.pairs, i \in DOMAIN r.perms :
                       Origin(owner, k, d, r, p, i)'
    PROVE  TypesSourced'
<1> SUFFICES ASSUME NEW owner \in AllLists', NEW k \in TypeKeys, NEW d \in Types, HoldsType(owner, k, d)'
             PROVE  \E r \in Rules : \E p \in DOMAIN r.pairs, i \in DOMAIN r.perms :
                       Origin(owner, k, d, r, p, i)'
  BY DEF TypesSourced
<1>1. SUFFICES ASSUME owner \in AllLists, HoldsType(owner, k, d)
               PROVE  \E r \in Rules : \E p \in DOMAIN r.pairs, i \in DOMAIN r.perms :
                         Origin(owner, k, d, r, p, i)'
  OBVIOUS
<1>2. PICK r \in Rules : \E p \in DOMAIN r.pairs, i \in DOMAIN r.perms : Origin(owner, k, d, r, p, i)
  BY <1>1 DEF TypesSourced
<1>3. PICK p \in DOMAIN r.pairs, i \in DOMAIN r.perms : Origin(owner, k, d, r, p, i)
  BY <1>2
<1>4. /\ KeyOf(r, r.pairs[p], r.perms[i]) = k /\ r.perms[i].data = d
      /\ FromSource(r, owner)
      /\ WholePair(owner, r, p) \/ InsidePair(owner, r, p, i)
  BY <1>3 DEF Origin
<1>5. FromSource(r, owner)'
  BY <1>1, <1>4, FromSourceStays
<1>6. /\ r \in TypeRulesOf(Rules)
      /\ \A q \in DOMAIN r.pairs, j \in DOMAIN r.perms : KeyOf(r, r.pairs[q], r.perms[j]) \in TypeKeys
  BY <1>4, TypeRuleKey DEF TypeKeys, TypeRulesOf
<1>7. WholePair(owner, r, p)' \/ InsidePair(owner, r, p, i)'
  <2>1. CASE WholePair(owner, r, p)
    <3>1. \A j \in DOMAIN r.perms :
             HoldsMark(owner, KeyOf(r, r.pairs[p], r.perms[j]), TypeMark(r.spec))'
      BY <1>1, <1>6, <2>1 DEF WholePair
    <3> QED
      BY <3>1 DEF WholePair
  <2>2. CASE InsidePair(owner, r, p, i)
    BY <1>1, <1>6, <2>2
  <2> QED
    BY <1>4, <2>1, <2>2
<1>8. Origin(owner, k, d, r, p, i)'
  BY <1>4, <1>5, <1>7 DEF Origin
<1> QED
  BY <1>8

\* Tasks that stay keep their source.
LEMMA TasksStay ==
    ASSUME TypeOK, TasksSourced, ToSet(todo') \subseteq ToSet(todo),
           \A owner \in AllLists, val \in Assignments : InForce(val, owner)' <=> InForce(val, owner),
           \A val : SourceRules(val) \subseteq SourceRules(val)'
    PROVE  TasksSourced'
<1>1. \A w \in ToSet(todo) : w.cond \in AllLists /\ FromSource(w.rule, w.cond)
  <2>1. todo \in Seq(TaskType)
    BY DEF TypeOK, TaskType
  <2>2. \A t \in DOMAIN todo : todo[t] \in TaskType
    <3> HIDE DEF TaskType
    <3> QED
      BY <2>1
  <2> QED
    BY <2>2 DEF ToSet, TaskType, AllLists, TasksSourced
<1> DEFINE Holds(val, o) == o = NoOwner \/ (o[2] = "true" <=> cond_evaluate_expr(val, cond_list'[o[1]].expr) = 1)
           From(w) == \A val \in Assignments : Holds(val, w.cond) => w.rule \in SourceRules(val)'
<1>2. \A val, o : InForce(val, o)' <=> Holds(val, o)
  BY DEF InForce
<1>3. TasksSourced' <=> \A w \in ToSet(todo') : From(w)
  BY DEF TasksSourced, FromSource, InForce, ToSet
<1>4. ASSUME NEW w \in ToSet(todo) PROVE From(w)
  <2>1. w.cond \in AllLists /\ FromSource(w.rule, w.cond)
    BY <1>1
  <2>2. \A val \in Assignments : Holds(val, w.cond) <=> InForce(val, w.cond)
    BY <1>2, <2>1
  <2> HIDE DEF Holds
  <2> QED
    BY <2>1, <2>2 DEF FromSource
<1> HIDE DEF From
<1> QED
  BY <1>3, <1>4

\* When the cursor goes on, the items stored so far are still inside the pair,
\* or the pair is whole.
LEMMA PairGoesOn ==
    ASSUME TypeOK, AtItem, UNCHANGED <<todo, cond_list>>, pos' \in {NextItem, NextPair}, ItemsStored(TypeKeys)',
           NEW owner, NEW r, NEW p, NEW i \in DOMAIN r.perms,
           owner = Task.cond, r = Task.rule, p = pos.pair, r.spec \in TypeSpecs, i <= pos.item
    PROVE  WholePair(owner, r, p)' \/ InsidePair(owner, r, p, i)'
<1>1. /\ r \in Rules /\ WellFormedRule(r) /\ todo # <<>> /\ ~Skipped(r) /\ Task' = Task
  BY TaskFacts DEF TaskType, AtItem, Busy, Task
<1>2. /\ p \in DOMAIN r.pairs /\ p \in Nat /\ pos.item \in Nat /\ DOMAIN r.perms \subseteq Nat
  BY <1>1 DEF WellFormedRule, AtItem, TypeOK
<1>3. CASE pos'.item = pos.item + 1 /\ pos'.pair = pos.pair
  <2>1. i < pos'.item
    BY <1>2, <1>3
  <2> QED
    BY <1>1, <1>3, <2>1 DEF InsidePair
<1>4. CASE pos'.pair = pos.pair + 1
  <2>1. \A j \in DOMAIN r.perms : Before(p, j)'
    BY <1>2, <1>4 DEF Before
  <2>2. ASSUME NEW j \in DOMAIN r.perms
        PROVE  HoldsMark(owner, KeyOf(r, r.pairs[p], r.perms[j]), TypeMark(r.spec))'
    <3>1. KeyOf(r, r.pairs[p], r.perms[j]).spec \in TypeSpecs
      BY DEF KeyOf, avrule_to_avtab_spec, TypeSpecs
    <3>2. /\ KeyOf(r, r.pairs[p], r.perms[j]) \in TypeKeys
          /\ TypeMark(r.spec) \in Marks(r.spec, r.perms[j].data)
      BY <1>1, <1>2, <3>1, TypeRuleKey
    <3>3. PICK kk, x : kk = KeyOf(r, r.pairs[p], r.perms[j]) /\ x = TypeMark(r.spec)
      OBVIOUS
    <3>4. HoldsMark(owner, kk, x)'
      BY <1>1, <1>2, <2>1, <3>2, <3>3 DEF ItemsStored
    <3> QED
      BY <3>3, <3>4
  <2> QED
    BY <2>2 DEF WholePair
<1> QED
  BY <1>3, <1>4 DEF NextItem, NextPair, TypeOK

-----------------------------------------------------------------------------
(***************************************************************************)
(* The steps keep the origin of types.                                     *)
(***************************************************************************)
\* An unconditional rule waits because the source has just got it.
LEMMA TakeRuleTypes ==
    ASSUME TypeOK, CondsFromSource, TasksSourced, Unowned, TypesSourced, NEW r \in Rules, TakeRule(r)
    PROVE  TasksSourced' /\ Unowned' /\ TypesSourced'
<1> DEFINE g == [expr |-> NoOwner, avtrue |-> <<r>>, avfalse |-> <<>>]
<1>1. /\ UNCHANGED <<te_avtab, te_cond_avtab, cond_list>> /\ todo = <<>> /\ given' = Append(given, g)
      /\ todo' = Pending(<<r>>, NoOwner, FALSE)
  BY DEF TakeRule, tables, Ready
<1>2. DOMAIN todo' = {1} /\ todo'[1].rule = r /\ todo'[1].cond = NoOwner
  <2>1. DOMAIN <<r>> = {1} /\ <<r>>[1] = r
    OBVIOUS
  <2>2. todo' = [i \in {1} |-> [rule |-> <<r>>[i], cond |-> NoOwner, enabled |-> FALSE]]
    BY <1>1, <2>1 DEF Pending
  <2>3. todo'[1] = [rule |-> r, cond |-> NoOwner, enabled |-> FALSE] /\ DOMAIN todo' = {1}
    BY <2>1, <2>2
  <2> QED
    BY <2>3
<1>3. g \in Sources /\ \A val : BranchOf(val, g) = <<r>>
  BY DEF Sources, BranchOf
<1> HIDE DEF g
<1>4. \A val : SourceRules(val)' = SourceRules(val) \cup ToSet(BranchOf(val, g))
  BY <1>1, <1>3, SourceRulesGrow
<1>5. \A val : r \in SourceRules(val)'
  <2>1. r \in ToSet(<<r>>)
    BY DEF ToSet
  <2> QED
    BY <1>3, <1>4, <2>1
<1>6. TasksSourced'
  <2>1. \A t \in DOMAIN todo' : \A val : todo'[t].rule \in SourceRules(val)'
    BY <1>2, <1>5
  <2> QED
    BY <2>1 DEF TasksSourced, FromSource
<1>7. Unowned'
  BY <1>1 DEF Unowned
<1>8. TypesSourced'
  <2>1. AllLists' = AllLists
    BY <1>1 DEF AllLists, Lists
  <2>2. \A o, k, x : /\ HoldsMark(o, k, x)' <=> HoldsMark(o, k, x)
                     /\ HoldsType(o, k, x)' <=> HoldsType(o, k, x)
                     /\ InForce(x, o)' <=> InForce(x, o)
    BY <1>1 DEF HoldsMark, HoldsType, InForce
  <2>3. \A o, s, p, i : ~InsidePair(o, s, p, i)
    BY <1>1 DEF InsidePair
  <2>4. \A val : SourceRules(val) \subseteq SourceRules(val)'
    BY <1>4
  <2> QED
    BY <2>1, <2>2, <2>3, <2>4, TypesStay
<1> QED
  BY <1>6, <1>7, <1>8

\* The rules of a conditional wait in lists that are in force just when the
\* source's branch is chosen.
LEMMA CopiedRules ==
    ASSUME TypeOK, CondsFromSource, SoundConds, NEW c \in Conds, cond_node_copy(c),
           NEW w \in ToSet(todo'), NEW val \in Assignments, InForce(val, w.cond)'
    PROVE  w.rule \in ToSet(BranchOf(val, c))
<1> DEFINE e == Normal(c.expr)
           i == cond_node_search(e)
           state == cond_list'[i].cur_state
           t == IF Negated(c.expr) THEN c.avfalse ELSE c.avtrue
           f == IF Negated(c.expr) THEN c.avtrue ELSE c.avfalse
           lt == <<i, "true">>
           lf == <<i, "false">>
           bt == state # 0
           bf == state = 0
           pt == Pending(t, lt, bt)
           pf == Pending(f, lf, bf)
           chosen == cond_evaluate_expr(val, e) = 1
           Holds(o) == o = NoOwner \/ (o[2] = "true" <=> cond_evaluate_expr(val, cond_list'[o[1]].expr) = 1)
<1>1. todo' = pt \o pf
  BY DEF cond_node_copy
<1>2. i \in 1 .. Len(cond_list') /\ cond_evaluate_expr(val, cond_list'[i].expr) = cond_evaluate_expr(val, e)
  BY FoundConditional
<1>3. t \in Seq(Rules) /\ f \in Seq(Rules)
  BY CondsAssumption DEF WellFormedCond
<1>4. BranchOf(val, c) = IF chosen THEN t ELSE f
  BY NormalBranch
<1>5. lt[1] = i /\ lf[1] = i /\ lt[2] = "true" /\ lf[2] = "false" /\ bt \in BOOLEAN /\ bf \in BOOLEAN
  OBVIOUS
<1>6. lt # NoOwner /\ lf # NoOwner
  <2>1. i \in Nat
    BY <1>2
  <2> HIDE DEF i
  <2>2. lt \in Nat \X Branches /\ lf \in Nat \X Branches
    BY <2>1 DEF Branches
  <2> QED
    BY <2>2, OwnerAssumption DEF Branches
<1>7. Holds(w.cond)
  BY DEF InForce
<1>8. Holds(lt) => chosen
  BY <1>2, <1>5, <1>6
<1>9. Holds(lf) => ~chosen
  BY <1>2, <1>5, <1>6
<1> HIDE DEF e, i, state, t, f, lt, lf, bt, bf, Holds, chosen
<1>10. /\ ToSet(pt) = {[rule |-> t[j], cond |-> lt, enabled |-> bt] : j \in DOMAIN t}
       /\ ToSet(pf) = {[rule |-> f[j], cond |-> lf, enabled |-> bf] : j \in DOMAIN f}
  BY <1>3, <1>5, PendingAsks
<1>11. ToSet(todo') = ToSet(pt) \cup ToSet(pf)
  <2> DEFINE X == [rule : Rules, cond : {lt, lf}, enabled : BOOLEAN]
  <2>1. pt \in Seq(X) /\ pf \in Seq(X)
    BY <1>3, <1>5, PendingType
  <2> HIDE DEF X, pt, pf
  <2> QED
    BY <1>1, <2>1, Joined
<1>12. CASE w \in ToSet(pt)
  <2>1. PICK j \in DOMAIN t : w = [rule |-> t[j], cond |-> lt, enabled |-> bt]
    BY <1>10, <1>12
  <2>2. w.rule = t[j] /\ w.cond = lt
    BY <2>1
  <2>3. t[j] \in ToSet(t)
    BY DEF ToSet
  <2> QED
    BY <1>4, <1>7, <1>8, <2>2, <2>3
<1>13. CASE w \in ToSet(pf)
  <2>1. PICK j \in DOMAIN f : w = [rule |-> f[j], cond |-> lf, enabled |-> bf]
    BY <1>10, <1>13
  <2>2. w.rule = f[j] /\ w.cond = lf
    BY <2>1
  <2>3. f[j] \in ToSet(f)
    BY DEF ToSet
  <2> QED
    BY <1>4, <1>7, <1>9, <2>2, <2>3
<1> QED
  BY <1>11, <1>12, <1>13

LEMMA CopyTypes ==
    ASSUME TypeOK, CondsFromSource, SoundConds, TasksSourced, Unowned, TypesSourced,
           NEW c \in Conds, cond_node_copy(c)
    PROVE  TasksSourced' /\ Unowned' /\ TypesSourced'
<1>1. UNCHANGED <<te_avtab, te_cond_avtab>> /\ todo = <<>> /\ given' = Append(given, c)
  BY DEF cond_node_copy, tables, Ready
<1>2. /\ \A o \in Lists : cond_list'[o[1]].expr = cond_list[o[1]].expr
      /\ Lists \subseteq Lists' /\ Len(cond_list') \in Nat
  BY FoundConditional
<1>3. \A val : SourceRules(val)' = SourceRules(val) \cup ToSet(BranchOf(val, c))
  <2>1. c \in Sources
    BY DEF Sources
  <2> QED
    BY <1>1, <2>1, SourceRulesGrow
<1>4. TasksSourced'
  <2> DEFINE Holds(val, o) == o = NoOwner \/ (o[2] = "true" <=> cond_evaluate_expr(val, cond_list'[o[1]].expr) = 1)
  <2>1. \A val, o : InForce(val, o)' <=> Holds(val, o)
    BY DEF InForce
  <2>2. TasksSourced' <=> \A w \in ToSet(todo') : \A val \in Assignments :
                             Holds(val, w.cond) => w.rule \in SourceRules(val)'
    BY DEF TasksSourced, FromSource, InForce, ToSet
  <2> HIDE DEF Holds
  <2>3. \A w \in ToSet(todo'), val \in Assignments : Holds(val, w.cond) => w.rule \in ToSet(BranchOf(val, c))
    BY <2>1, CopiedRules
  <2> QED
    BY <1>3, <2>2, <2>3
<1>5. Unowned'
  BY <1>1 DEF Unowned
<1>6. TypesSourced'
  <2>1. \A o, k, x : /\ HoldsMark(o, k, x)' <=> HoldsMark(o, k, x)
                     /\ HoldsType(o, k, x)' <=> HoldsType(o, k, x)
    BY <1>1 DEF HoldsMark, HoldsType
  <2>2. \A o \in AllLists, val \in Assignments : InForce(val, o)' <=> InForce(val, o)
    BY <1>2 DEF InForce, AllLists
  <2>3. \A o, s, p, i : ~InsidePair(o, s, p, i)
    BY <1>1 DEF InsidePair
  <2>4. \A val : SourceRules(val) \subseteq SourceRules(val)'
    BY <1>3
  <2>5. ASSUME NEW o \in AllLists', NEW k \in TypeKeys, NEW d, HoldsType(o, k, d)
        PROVE  o \in AllLists
    <3>1. CASE o = NoOwner
      BY <3>1 DEF AllLists
    <3>2. CASE o # NoOwner
      <4>1. PICK j \in DOMAIN te_cond_avtab[k] : te_cond_avtab[k][j].owner = o
        BY <2>5, <3>2 DEF HoldsType
      <4> QED
        BY <4>1 DEF TypeOK, TypeKeys, AllLists
    <3> QED
      BY <3>1, <3>2
  <2> QED
    BY <2>1, <2>2, <2>3, <2>4, <2>5, TypesStay
<1> QED
  BY <1>4, <1>5, <1>6

\* A type rule that is finished has left all its pairs.
LEMMA FinishRuleTypes ==
    ASSUME TypeOK, TasksSourced, Unowned, TypesSourced, FinishRule
    PROVE  TasksSourced' /\ Unowned' /\ TypesSourced'
<1>1. /\ UNCHANGED <<te_avtab, te_cond_avtab, cond_list, given>> /\ todo' = Tail(todo) /\ todo # <<>>
      /\ (Skipped(Task.rule) \/ pos.pair > Len(Task.rule.pairs))
  BY DEF FinishRule, tables, Busy
<1>2. /\ AllLists' = AllLists
      /\ \A o, k, x : /\ HoldsMark(o, k, x)' <=> HoldsMark(o, k, x)
                      /\ HoldsType(o, k, x)' <=> HoldsType(o, k, x)
                      /\ InForce(x, o)' <=> InForce(x, o)
                      /\ SourceRules(x)' = SourceRules(x)
  BY <1>1 DEF AllLists, Lists, HoldsMark, HoldsType, InForce, SourceRules
<1>3. ToSet(todo') \subseteq ToSet(todo)
  <2>1. todo \in Seq(TaskType)
    BY DEF TypeOK, TaskType
  <2> HIDE DEF TaskType
  <2>2. /\ DOMAIN todo = 1 .. Len(todo) /\ Len(todo) \in Nat \ {0}
        /\ DOMAIN Tail(todo) = 1 .. Len(todo) - 1
        /\ \A t \in 1 .. Len(todo) - 1 : Tail(todo)[t] = todo[t + 1]
    BY <1>1, <2>1, EmptySeq
  <2>3. \A t \in 1 .. Len(todo) - 1 : t + 1 \in DOMAIN todo
    BY <2>2
  <2> QED
    BY <1>1, <2>2, <2>3 DEF ToSet
<1>4. ASSUME NEW o \in AllLists, NEW r \in TypeRulesOf(Rules), NEW p \in DOMAIN r.pairs, NEW i \in DOMAIN r.perms,
             InsidePair(o, r, p, i)
      PROVE  FALSE
  <2>1. r \in Rules /\ r.spec \in TypeSpecs /\ r = Task.rule /\ p = pos.pair
    BY <1>4 DEF InsidePair, TypeRulesOf
  <2>2. ~Skipped(r)
    BY <2>1 DEF Skipped, TypeSpecs
  <2>3. p \in 1 .. Len(r.pairs) /\ Len(r.pairs) \in Nat
    BY <2>1, RulesAssumption DEF WellFormedRule
  <2> QED
    BY <1>1, <2>1, <2>2, <2>3
<1>5. TasksSourced'
  BY <1>2, <1>3, TasksStay
<1>6. Unowned'
  BY <1>1 DEF Unowned
<1>7. TypesSourced'
  BY <1>2, <1>4, TypesStay
<1> QED
  BY <1>5, <1>6, <1>7

\* The type stored for one class is the one its rule asks for.
LEMMA StoreKeepsTypes ==
    ASSUME TypeOK, TasksSourced, Unowned, TypesSourced, AtItem, StoreItem, pos' = NextItem,
           UNCHANGED <<cond_list, todo, given>>, ItemsStored(TypeKeys)'
    PROVE  TasksSourced' /\ Unowned' /\ TypesSourced'
<1>1. /\ AllLists' = AllLists /\ Task' = Task
      /\ \A o, x : InForce(x, o)' <=> InForce(x, o)
      /\ \A x : SourceRules(x)' = SourceRules(x)
  BY DEF AllLists, Lists, Task, InForce, SourceRules
<1>2. ASSUME NEW owner \in AllLists, NEW k \in TypeKeys, NEW x, HoldsMark(owner, k, x)
      PROVE  HoldsMark(owner, k, x)'
  <2>1. k \in MarkKeys /\ k \notin XpermKeys
    BY DEF MarkKeys, TypeKeys, XpermKeys, TypeSpecs, XpermSpecs
  <2> QED
    BY <1>2, <2>1, StoreItemMarks
<1>3. ASSUME NEW o \in AllLists, NEW r \in TypeRulesOf(Rules), NEW p \in DOMAIN r.pairs, NEW i \in DOMAIN r.perms,
             InsidePair(o, r, p, i)
      PROVE  WholePair(o, r, p)' \/ InsidePair(o, r, p, i)'
  <2>1. o = Task.cond /\ r = Task.rule /\ p = pos.pair /\ i < pos.item /\ r.spec \in TypeSpecs
    BY <1>3 DEF InsidePair, TypeRulesOf
  <2>2. i <= pos.item
    <3>1. i \in Nat /\ pos.item \in Nat
      <4>1. WellFormedRule(r)
        BY RulesAssumption DEF TypeRulesOf
      <4>2. DOMAIN r.perms \subseteq Nat
        BY <4>1 DEF WellFormedRule
      <4> QED
        BY <4>2 DEF TypeOK
    <3> QED
      BY <2>1, <3>1
  <2> QED
    BY <2>1, <2>2, PairGoesOn
<1>4. ASSUME NEW o \in AllLists, NEW k \in TypeKeys, NEW d, o = Task.cond, k = TaskKey, d = Item.data
      PROVE  \E r \in Rules : \E p \in DOMAIN r.pairs, i \in DOMAIN r.perms : Origin(o, k, d, r, p, i)'
  <2>1. PICK r, p, i : r = Task.rule /\ p = pos.pair /\ i = pos.item
    OBVIOUS
  <2>2. /\ r \in Rules /\ WellFormedRule(r) /\ todo # <<>>
    BY <2>1, TaskFacts DEF TaskType, AtItem, Busy
  <2>3. p \in DOMAIN r.pairs /\ i \in DOMAIN r.perms
    BY <2>1, <2>2 DEF WellFormedRule, AtItem, TypeOK
  <2>4. KeyOf(r, r.pairs[p], r.perms[i]) = k /\ r.perms[i].data = d
    BY <1>4, <2>1 DEF TaskKey, Item
  <2>5. r.spec \in TypeSpecs
    BY <2>2, <2>3, <2>4, TypeRuleKey DEF TypeKeys
  <2>6. FromSource(r, o)
    <3>1. todo \in Seq(TaskType)
      BY DEF TypeOK, TaskType
    <3>2. 1 \in DOMAIN todo /\ todo[1] = Task
      <4> HIDE DEF TaskType
      <4> QED
        BY <2>2, <3>1, EmptySeq DEF Task
    <3> QED
      BY <1>4, <2>1, <3>2 DEF TasksSourced
  <2>7. FromSource(r, o)'
    BY <1>1, <2>6, FromSourceStays
  <2>8. i <= pos.item
    BY <2>1 DEF TypeOK
  <2>9. WholePair(o, r, p)' \/ InsidePair(o, r, p, i)'
    BY <1>4, <2>1, <2>3, <2>5, <2>8, PairGoesOn
  <2>10. Origin(o, k, d, r, p, i)'
    BY <2>4, <2>7, <2>9 DEF Origin
  <2> QED
    BY <2>2, <2>3, <2>10
<1>5. /\ Unowned'
      /\ \A owner \in AllLists, k \in TypeKeys : \A d :
            HoldsType(owner, k, d)' =>
               HoldsType(owner, k, d) \/ (owner = Task.cond /\ k = TaskKey /\ d = Item.data)
  BY StoreItemTypes
<1>6. TasksSourced'
  BY <1>1, TasksStay
<1>7. TypesSourced'
  <2>1. \A owner \in AllLists', k \in TypeKeys, d \in Types :
           HoldsType(owner, k, d)' =>
              \/ owner \in AllLists /\ HoldsType(owner, k, d)
              \/ \E r \in Rules : \E p \in DOMAIN r.pairs, i \in DOMAIN r.perms : Origin(owner, k, d, r, p, i)'
    BY <1>1, <1>4, <1>5
  <2> QED
    BY <1>1, <1>2, <1>3, <2>1, TypesStay
<1> QED
  BY <1>5, <1>6, <1>7

\* A duplicate's own list has the type from a rule with all classes of the rule
\* at hand, and that rule is whole: nothing is lost when the pair is left.
LEMMA DuplicatePair ==
    ASSUME SameClasses, TypeOK, Unowned, TypesSourced, DuplicateTypeRule
    PROVE  PairStored(TypeKeys)
<1>1. AtItem /\ Task.rule.spec \in TypeSpecs /\ Duplicate(TaskKey, Task.cond, Item.data)
  BY DEF DuplicateTypeRule, AtTypeItem
<1>2. PICK r, p, m, k, o, d : /\ r = Task.rule /\ p = pos.pair /\ m = pos.item /\ k = TaskKey
                              /\ o = Task.cond /\ d = Item.data
  OBVIOUS
<1>3. /\ r \in Rules /\ WellFormedRule(r) /\ todo # <<>> /\ o \in AllLists
      /\ k = KeyOf(r, r.pairs[p], r.perms[m]) /\ d = r.perms[m].data
  BY <1>1, <1>2, TaskFacts DEF TaskType, AtItem, Busy, AllLists, TaskKey, Item
<1>4. p \in DOMAIN r.pairs /\ m \in DOMAIN r.perms /\ m \in Nat /\ DOMAIN r.perms \subseteq Nat
  BY <1>1, <1>2, <1>3 DEF WellFormedRule, AtItem, TypeOK
<1>5. k \in TypeKeys /\ d \in Types
  <2>1. k \in TypeKeys
    <3>1. KeyOf(r, r.pairs[p], r.perms[m]).spec \in TypeSpecs
      BY <1>1, <1>2 DEF KeyOf, avrule_to_avtab_spec, TypeSpecs
    <3> QED
      BY <1>3, <1>4, <3>1, TypeRuleKey
  <2>2. d \in DataOf(r.spec)
    BY <1>1, <1>2, TaskFacts
  <2> QED
    BY <1>1, <1>2, <2>1, <2>2 DEF DataOf
<1>6. HoldsType(o, k, d)
  <2>1. PICK nodes : /\ nodes = Obstacle(k, o) /\ nodes # <<>>
                     /\ nodes[1].data = d /\ nodes[1].owner = o
    BY <1>1, <1>2 DEF Duplicate
  <2>2. /\ te_avtab[k] \in Seq(Node(k.spec)) /\ te_cond_avtab[k] \in Seq(Node(k.spec))
        /\ \A i \in DOMAIN te_cond_avtab[k] : te_cond_avtab[k][i].owner \in Lists
    BY <1>5 DEF TypeOK, TypeKeys
  <2>3. nodes \in Seq(Node(k.spec)) => 1 \in DOMAIN nodes
    <3> DEFINE X == Node(k.spec)
    <3> HIDE DEF X
    <3>1. nodes \in Seq(X) => 1 \in DOMAIN nodes
      BY <2>1, EmptySeq
    <3> QED
      BY <3>1 DEF X
  <2>4. CASE nodes = te_avtab[k]
    <3>1. 1 \in DOMAIN te_avtab[k]
      BY <2>2, <2>3, <2>4
    <3>2. o = NoOwner
      BY <1>5, <2>1, <2>4, <3>1 DEF Unowned
    <3> QED
      BY <2>1, <2>4, <3>1, <3>2 DEF HoldsType
  <2>5. CASE nodes = te_cond_avtab[k]
    <3>1. 1 \in DOMAIN te_cond_avtab[k]
      BY <2>2, <2>3, <2>5
    <3>2. o \in Lists
      BY <2>1, <2>2, <2>5, <3>1
    <3>3. o # NoOwner
      BY <3>2, ListsAreOwners
    <3> QED
      BY <2>1, <2>5, <3>1, <3>3 DEF HoldsType
  <2> QED
    BY <2>1, <2>4, <2>5 DEF Obstacle
<1>7. PICK s \in Rules : \E q \in DOMAIN s.pairs, j \in DOMAIN s.perms : Origin(o, k, d, s, q, j)
  BY <1>3, <1>5, <1>6 DEF TypesSourced
<1>8. PICK q \in DOMAIN s.pairs, j \in DOMAIN s.perms : Origin(o, k, d, s, q, j)
  BY <1>7
<1>9. /\ KeyOf(s, s.pairs[q], s.perms[j]) = k /\ s.perms[j].data = d
      /\ WholePair(o, s, q) \/ InsidePair(o, s, q, j)
  BY <1>8 DEF Origin
<1>10. /\ s.spec \in TypeSpecs /\ s.spec = r.spec
       /\ avrule_to_avtab_spec(s.spec) = s.spec
       /\ \A d1 : Marks(s.spec, d1) = {TypeMark(s.spec)}
  <2>1. /\ s.spec \in TypeSpecs /\ avrule_to_avtab_spec(s.spec) = s.spec
        /\ \A d1 : Marks(s.spec, d1) = {TypeMark(s.spec)}
    BY <1>5, <1>9, TypeRuleKey DEF TypeKeys
  <2>2. r.spec \in TypeSpecs /\ avrule_to_avtab_spec(r.spec) = r.spec
    BY <1>1, <1>2 DEF avrule_to_avtab_spec, TypeSpecs
  <2>3. avrule_to_avtab_spec(s.spec) = avrule_to_avtab_spec(r.spec)
    BY <1>3, <1>9 DEF KeyOf
  <2> QED
    BY <2>1, <2>2, <2>3
<1>11. ~InsidePair(o, s, q, j)
  <2> SUFFICES ASSUME InsidePair(o, s, q, j) PROVE FALSE
    OBVIOUS
  <2>1. s = r /\ q = p /\ j < m
    BY <1>2 DEF InsidePair
  <2>2. r.perms[j].tclass = r.perms[m].tclass
    BY <1>3, <1>9, <2>1 DEF KeyOf
  <2>3. r \in TypeRulesOf(Rules)
    BY <1>1, <1>2, <1>3 DEF TypeRulesOf
  <2>4. j = m
    BY <1>4, <2>1, <2>2, <2>3 DEF SameClasses
  <2> QED
    BY <1>4, <2>1, <2>4
<1>12. WholePair(o, s, q)
  BY <1>9, <1>11
<1>13. \A i \in DOMAIN r.perms : \E n \in DOMAIN s.perms : s.perms[n].tclass = r.perms[i].tclass
  <2>1. r \in TypeRulesOf(Rules) /\ s \in TypeRulesOf(Rules)
    BY <1>1, <1>2, <1>3, <1>10 DEF TypeRulesOf
  <2>2. /\ KeyOf(r, r.pairs[p], r.perms[m]) = KeyOf(s, s.pairs[q], s.perms[j])
        /\ r.perms[m].data = s.perms[j].data
    BY <1>3, <1>9
  <2> QED
    BY <1>4, <2>1, <2>2 DEF SameClasses
<1>14. ASSUME NEW i \in DOMAIN r.perms, NEW x \in Marks(r.spec, r.perms[i].data)
       PROVE  HoldsMark(o, KeyOf(r, r.pairs[p], r.perms[i]), x)
  <2>1. PICK n \in DOMAIN s.perms : s.perms[n].tclass = r.perms[i].tclass
    BY <1>13
  <2>2. s.pairs[q][1] = r.pairs[p][1] /\ s.pairs[q][2] = r.pairs[p][2]
    BY <1>3, <1>9 DEF KeyOf
  <2>3. KeyOf(s, s.pairs[q], s.perms[n]) = KeyOf(r, r.pairs[p], r.perms[i])
    BY <1>10, <2>1, <2>2 DEF KeyOf
  <2>4. x = TypeMark(s.spec)
    BY <1>10
  <2> QED
    BY <1>12, <2>3, <2>4 DEF WholePair
<1> QED
  BY <1>2, <1>14 DEF PairStored

\* A pair that is left at a duplicate is whole.
LEMMA DuplicateTypes ==
    ASSUME TypeOK, TasksSourced, Unowned, TypesSourced, DuplicateTypeRule, ItemsStored(TypeKeys)'
    PROVE  TasksSourced' /\ Unowned' /\ TypesSourced'
<1>1. /\ UNCHANGED <<te_avtab, te_cond_avtab, cond_list, todo, given>> /\ pos' = NextPair /\ AtItem
  BY DEF DuplicateTypeRule, tables, AtTypeItem
<1>2. /\ AllLists' = AllLists
      /\ \A o, k, x : /\ HoldsMark(o, k, x)' <=> HoldsMark(o, k, x)
                      /\ HoldsType(o, k, x)' <=> HoldsType(o, k, x)
                      /\ InForce(x, o)' <=> InForce(x, o)
                      /\ SourceRules(x)' = SourceRules(x)
  BY <1>1 DEF AllLists, Lists, HoldsMark, HoldsType, InForce, SourceRules
<1>3. ASSUME NEW o \in AllLists, NEW r \in TypeRulesOf(Rules), NEW p \in DOMAIN r.pairs, NEW i \in DOMAIN r.perms,
             InsidePair(o, r, p, i)
      PROVE  WholePair(o, r, p)' \/ InsidePair(o, r, p, i)'
  <2>1. o = Task.cond /\ r = Task.rule /\ p = pos.pair /\ i < pos.item /\ r.spec \in TypeSpecs
    BY <1>3 DEF InsidePair, TypeRulesOf
  <2>2. i <= pos.item
    <3>1. WellFormedRule(r)
      BY RulesAssumption DEF TypeRulesOf
    <3>2. DOMAIN r.perms \subseteq Nat
      BY <3>1 DEF WellFormedRule
    <3> QED
      BY <2>1, <3>2 DEF TypeOK
  <2> QED
    BY <1>1, <2>1, <2>2, PairGoesOn
<1>4. TasksSourced'
  BY <1>1, <1>2, TasksStay
<1>5. Unowned'
  BY <1>1 DEF Unowned
<1>6. TypesSourced'
  BY <1>2, <1>3, TypesStay
<1> QED
  BY <1>4, <1>5, <1>6

\* evaluate_conds changes neither owners nor types.
LEMMA EvaluateTypes ==
    ASSUME TypeOK, TasksSourced, Unowned, TypesSourced, NEW w, evaluate_conds(w),
           todo = <<>>, UNCHANGED <<te_avtab, todo, given>>
    PROVE  TasksSourced' /\ Unowned' /\ TypesSourced'
<1>1. /\ Lists' = Lists
      /\ \A owner \in AllLists, k \in Keys : \A x : HoldsMark(owner, k, x)' <=> HoldsMark(owner, k, x)
      /\ \A owner \in AllLists, val \in Assignments : InForce(val, owner)' <=> InForce(val, owner)
  BY EvaluateMarks
<1>2. /\ AllLists' = AllLists
      /\ \A val : SourceRules(val)' = SourceRules(val)
      /\ \A o, r, p, i : ~InsidePair(o, r, p, i)
  BY <1>1 DEF AllLists, SourceRules, InsidePair
<1>3. ASSUME NEW owner \in AllLists, NEW k \in TypeKeys, NEW d, HoldsType(owner, k, d)'
      PROVE  HoldsType(owner, k, d)
  <2>1. /\ DOMAIN te_cond_avtab'[k] = DOMAIN te_cond_avtab[k]
        /\ \A i \in DOMAIN te_cond_avtab[k] :
              /\ te_cond_avtab'[k][i].owner = te_cond_avtab[k][i].owner
              /\ te_cond_avtab'[k][i].data = te_cond_avtab[k][i].data
    BY EvaluateKeepsNodes DEF TypeKeys
  <2> QED
    BY <1>3, <2>1 DEF HoldsType
<1>4. TasksSourced'
  BY DEF TasksSourced
<1>5. Unowned'
  BY DEF Unowned
<1>6. TypesSourced'
  BY <1>1, <1>2, <1>3, TypesStay DEF TypeKeys
<1> QED
  BY <1>4, <1>5, <1>6

LEMMA TypesInit == Init => TypeInv
<1> SUFFICES ASSUME Init PROVE TypeInv
  OBVIOUS
<1>1. TypeKeys \in SUBSET MarkKeys
  BY DEF MarkKeys
<1>2. Inv /\ CondsFromSource /\ MarksKept(TypeKeys) /\ ItemsStored(TypeKeys)
  <2> HIDE DEF TypeKeys
  <2> QED
    BY <1>1, MarksInit
<1>3. TypesFromSource
  <2>1. todo = <<>> /\ \A k \in TypeKeys : te_avtab[k] = <<>> /\ te_cond_avtab[k] = <<>>
    BY DEF Init, TypeKeys
  <2>2. \A o, d : \A k \in TypeKeys : ~HoldsType(o, k, d)
    BY <2>1 DEF HoldsType
  <2> QED
    BY <2>1, <2>2 DEF TypesFromSource
<1> QED
  BY <1>2, <1>3 DEF TypeInv

LEMMA TypesStep == SoundConds /\ SameClasses /\ TypeInv /\ [Next]_vars => TypeInv'
<1> SUFFICES ASSUME SoundConds, SameClasses, TypeInv, [Next]_vars PROVE TypeInv'
  OBVIOUS
<1>1. /\ Inv /\ TypeOK /\ CondsFromSource /\ MarksKept(TypeKeys) /\ ItemsStored(TypeKeys)
      /\ TasksSourced /\ Unowned /\ TypesSourced
  BY TypesSplit DEF TypeInv, Inv
<1>2. TypeKeys \in SUBSET MarkKeys /\ TypeKeys \cap XpermKeys = {}
  BY DEF MarkKeys, TypeKeys, XpermKeys, TypeSpecs, XpermSpecs
<1>3. FindsDriver(TypeKeys)
  BY <1>2 DEF FindsDriver
<1>4. DuplicateTypeRule => PairStored(TypeKeys)
  BY <1>1, DuplicatePair
<1>5. CondsFromSource' /\ MarksKept(TypeKeys)' /\ ItemsStored(TypeKeys)'
  <2> HIDE DEF TypeKeys
  <2> QED
    BY <1>1, <1>2, <1>3, <1>4, MarksStep
<1>6. Inv'
  BY <1>1, InvStep
<1> DEFINE Goal == TasksSourced' /\ Unowned' /\ TypesSourced'
<1>7. ASSUME UNCHANGED <<te_avtab, te_cond_avtab, cond_list, todo, pos, given>>
      PROVE  Goal
  <2>1. TasksSourced'
    BY <1>1, <1>7 DEF TasksSourced, FromSource, InForce, SourceRules
  <2>2. Unowned'
    BY <1>1, <1>7 DEF Unowned
  <2>3. TypesSourced'
    <3>1. /\ AllLists' = AllLists
          /\ \A o, k, x : /\ HoldsMark(o, k, x)' <=> HoldsMark(o, k, x)
                          /\ HoldsType(o, k, x)' <=> HoldsType(o, k, x)
                          /\ InForce(x, o)' <=> InForce(x, o)
                          /\ SourceRules(x)' = SourceRules(x)
      BY <1>7 DEF AllLists, Lists, HoldsMark, HoldsType, InForce, SourceRules
    <3>2. \A o, r, p, i : InsidePair(o, r, p, i)' <=> InsidePair(o, r, p, i)
      BY <1>7 DEF InsidePair, Task
    <3> QED
      BY <1>1, <3>1, <3>2, TypesStay
  <2> QED
    BY <2>1, <2>2, <2>3
<1>8. ASSUME NEW r \in Rules, TakeRule(r) PROVE Goal
  BY <1>1, <1>8, TakeRuleTypes
<1>9. ASSUME NEW c \in Conds, cond_node_copy(c) PROVE Goal
  BY <1>1, <1>9, CopyTypes
<1>10. ASSUME FinishRule PROVE Goal
  BY <1>1, <1>10, FinishRuleTypes
<1>11. ASSUME expand_avrule_helper PROVE Goal
  BY <1>1, <1>5, <1>11, StoreKeepsTypes DEF expand_avrule_helper
<1>12. ASSUME expand_terule_helper PROVE Goal
  BY <1>1, <1>5, <1>12, StoreKeepsTypes DEF expand_terule_helper, AtTypeItem
<1>13. ASSUME DuplicateTypeRule PROVE Goal
  BY <1>1, <1>5, <1>13, DuplicateTypes
<1>14. ASSUME ConflictingTypeRule \/ OutOfMemory PROVE Goal
  BY <1>7, <1>14 DEF ConflictingTypeRule, OutOfMemory, tables
<1>15. ASSUME FinishExpansion PROVE Goal
  BY <1>1, <1>15, EvaluateTypes DEF FinishExpansion
<1>16. ASSUME NEW b \in Bools, NEW v \in States, sepol_bool_set(b, v) PROVE Goal
  <2>1. todo = <<>>
    BY <1>1, <1>16 DEF sepol_bool_set, Inv, FlagsFollowStates
  <2> QED
    BY <1>1, <1>16, <2>1, EvaluateTypes DEF sepol_bool_set
<1>17. ASSUME UNCHANGED vars PROVE Goal
  BY <1>7, <1>17 DEF vars, tables
<1>18. Goal
  <2> HIDE DEF Goal
  <2> QED
    BY <1>8, <1>9, <1>10, <1>11, <1>12, <1>13, <1>14, <1>15, <1>16, <1>17 DEF Next
<1>19. TypesFromSource'
  <2>1. TypesFromSource' <=> TasksSourced' /\ Unowned' /\ TypesSourced'
    BY DEF TypesFromSource, TasksSourced, Unowned, TypesSourced, AllLists
  <2> QED
    BY <1>18, <2>1
<1> QED
  BY <1>5, <1>6, <1>19 DEF TypeInv


\* The enabled conditional nodes are those in force under the present booleans.
LEMMA EnabledInForce ==
    ASSUME Inv, NEW k \in Keys, NEW j \in DOMAIN te_cond_avtab[k]
    PROVE  te_cond_avtab[k][j].enabled <=> InForce(bools, te_cond_avtab[k][j].owner)
<1> DEFINE o == te_cond_avtab[k][j].owner
           v == cond_evaluate_expr(bools, cond_list[o[1]].expr)
<1>1. TypeOK /\ o \in Lists
  BY DEF Inv, TypeOK
<1>2. o[1] \in DOMAIN cond_list /\ o[2] \in Branches /\ o # NoOwner
  BY <1>1, ListsAreOwners
<1>3. v = cond_list[o[1]].cur_state /\ validate_cond_expr(cond_list[o[1]].expr)
  BY <1>2 DEF Inv, StatesCurrent
<1>4. cond_list[o[1]].expr \in Expr /\ bools \in Assignments
  <2>1. cond_list \in Seq(CondType) /\ bools \in Assignments
    BY <1>1 DEF TypeOK, CondType
  <2>2. cond_list[o[1]] \in CondType
    BY <1>2, <2>1
  <2> QED
    BY <2>1, <2>2 DEF CondType
<1>5. v \in States
  BY <1>3, <1>4, ValidExpressionsEvaluate
<1>6. te_cond_avtab[k][j].enabled <=> (o[2] = "false" <=> v = 0)
  BY <1>3 DEF Inv, FlagsFollowStates, Selected
<1>7. InForce(bools, o) <=> (o[2] = "true" <=> v = 1)
  BY <1>2 DEF InForce
<1> HIDE DEF o, v
<1> QED
  BY <1>2, <1>5, <1>6, <1>7 DEF Branches, States, o

\* What a lookup finds is in a list that is in force.
LEMMA LookupInForce ==
    ASSUME Inv, Unowned, NEW k \in TypeKeys
    PROVE  /\ \A d \in TypeLookup(k) : d \in Types /\ \E o \in AllLists : InForce(bools, o) /\ HoldsType(o, k, d)
           /\ EnabledNodes(k) # {} => TypeLookup(k) # {}
<1> DEFINE u == te_avtab[k]
           c == te_cond_avtab[k]
           On == {j \in DOMAIN c : c[j].enabled}
           i == First(On)
<1>1. /\ k \in Keys /\ u \in Seq(Node(k.spec)) /\ c \in Seq(Node(k.spec))
      /\ \A j \in DOMAIN c : c[j].owner \in Lists
      /\ TypeOK
  BY DEF Inv, TypeOK, TypeKeys
<1>2. /\ \A j \in DOMAIN u : u[j].data \in Types
      /\ \A j \in DOMAIN c : c[j].data \in Types
      /\ u # <<>> => 1 \in DOMAIN u
      /\ DOMAIN c \subseteq Nat \ {0}
  <2> DEFINE X == Node(k.spec)
  <2>1. \A n \in X : n.data \in Types
    BY DEF Node, DataOf, TypeKeys
  <2> HIDE DEF X, u, c
  <2>2. u \in Seq(X) /\ c \in Seq(X)
    BY <1>1 DEF X
  <2> QED
    BY <2>1, <2>2, EmptySeq
<1>3. TypeLookup(k) = IF u # <<>> THEN {u[1].data} ELSE IF i = 0 THEN {} ELSE {c[i].data}
  BY DEF TypeLookup
<1>4. EnabledNodes(k) = ToSet(u) \cup {n \in ToSet(c) : n.enabled}
  BY DEF EnabledNodes
<1>5. /\ On = {} => i = 0
      /\ On # {} => i \in On /\ i # 0
  <2>1. On \in SUBSET Nat
    BY <1>2
  <2> HIDE DEF On
  <2>2. /\ On = {} => i = 0
        /\ On # {} => i \in On
    BY <2>1, FirstIsLeast
  <2> QED
    BY <1>2, <2>2 DEF On
<1>6. ASSUME u # <<>>
      PROVE  /\ u[1].data \in Types /\ HoldsType(NoOwner, k, u[1].data)
             /\ InForce(bools, NoOwner) /\ NoOwner \in AllLists
  <2>1. 1 \in DOMAIN u /\ u[1].owner = NoOwner
    BY <1>2, <1>6 DEF Unowned
  <2> QED
    BY <1>2, <2>1 DEF HoldsType, InForce, AllLists
<1>7. ASSUME i # 0
      PROVE  /\ c[i].data \in Types /\ HoldsType(c[i].owner, k, c[i].data)
             /\ InForce(bools, c[i].owner) /\ c[i].owner \in AllLists
  <2>1. i \in DOMAIN c /\ c[i].enabled
    BY <1>5, <1>7
  <2> HIDE DEF i
  <2>2. c[i].owner \in Lists /\ c[i].owner # NoOwner
    BY <1>1, <2>1, ListsAreOwners
  <2>3. InForce(bools, c[i].owner)
    BY <1>1, <2>1, EnabledInForce
  <2> QED
    BY <1>2, <2>1, <2>2, <2>3 DEF HoldsType, AllLists
<1>8. ASSUME u = <<>>, On = {} PROVE EnabledNodes(k) = {}
  BY <1>4, <1>8 DEF ToSet
<1> HIDE DEF u, c, i, On
<1>9. ASSUME NEW d \in TypeLookup(k)
      PROVE  d \in Types /\ \E o \in AllLists : InForce(bools, o) /\ HoldsType(o, k, d)
  <2>1. CASE u # <<>>
    <3>1. d = u[1].data
      BY <1>3, <1>9, <2>1
    <3> QED
      BY <1>6, <2>1, <3>1
  <2>2. CASE u = <<>>
    <3>1. i # 0 /\ d = c[i].data
      BY <1>3, <1>9, <2>2
    <3> QED
      BY <1>7, <3>1
  <2> QED
    BY <2>1, <2>2
<1>10. EnabledNodes(k) # {} => TypeLookup(k) # {}
  BY <1>3, <1>5, <1>8
<1> QED
  BY <1>9, <1>10

LEMMA TypesDecided == TypeInv => TypeDecisionPrescribed
<1> SUFFICES ASSUME TypeInv, status = "expanded", NEW k \in TypeKeys
             PROVE  /\ TypeLookup(k) \subseteq Prescribed(k.spec, k)
                    /\ Prescribed(k.spec, k) # {} => TypeLookup(k) # {}
  BY DEF TypeDecisionPrescribed
<1>1. /\ Inv /\ CondsFromSource /\ MarksKept(TypeKeys) /\ TasksSourced /\ Unowned /\ TypesSourced
      /\ bools \in Assignments /\ k.spec \in TypeSpecs
  BY TypesSplit DEF TypeInv, Inv, TypeOK, TypeKeys
<1>2. ASSUME NEW d \in TypeLookup(k)
      PROVE  d \in Prescribed(k.spec, k)
  <2>1. PICK o \in AllLists : d \in Types /\ InForce(bools, o) /\ HoldsType(o, k, d)
    BY <1>1, <1>2, LookupInForce
  <2>2. PICK r \in Rules : \E p \in DOMAIN r.pairs, i \in DOMAIN r.perms : Origin(o, k, d, r, p, i)
    BY <1>1, <2>1 DEF TypesSourced
  <2>3. PICK p \in DOMAIN r.pairs, i \in DOMAIN r.perms : Origin(o, k, d, r, p, i)
    BY <2>2
  <2>4. KeyOf(r, r.pairs[p], r.perms[i]) = k /\ r.perms[i].data = d /\ r \in SourceRules(bools)
    BY <1>1, <2>1, <2>3 DEF Origin, FromSource
  <2>5. r.spec \in TypeSpecs /\ avrule_to_avtab_spec(r.spec) = r.spec /\ ~Skipped(r)
    BY <1>1, <2>4, TypeRuleKey
  <2>6. r \in ActiveRules
    BY <2>4, <2>5 DEF ActiveRules, SourceRules
  <2>7. r.spec = k.spec
    BY <2>4, <2>5 DEF KeyOf
  <2> QED
    BY <2>4, <2>6, <2>7, DataPrescribed
<1>3. ASSUME Prescribed(k.spec, k) # {}
      PROVE  TypeLookup(k) # {}
  <2>1. PICK d : d \in Prescribed(k.spec, k)
    BY <1>3
  <2>2. PICK r \in ActiveRules : \E i \in DOMAIN r.perms, p \in DOMAIN r.pairs :
           r.spec = k.spec /\ KeyOf(r, r.pairs[p], r.perms[i]) = k /\ d = r.perms[i].data
    BY <2>1, DataPrescribed
  <2>3. PICK i \in DOMAIN r.perms, p \in DOMAIN r.pairs :
           r.spec = k.spec /\ KeyOf(r, r.pairs[p], r.perms[i]) = k
    BY <2>2
  <2>4. r \in Rules
    BY <1>1, ActiveAreRules
  <2>5. /\ ~Skipped(r) /\ TypeMark(r.spec) \in AllMarks
        /\ TypeMark(r.spec) \in Marks(r.spec, r.perms[i].data)
    BY <1>1, <2>3, <2>4, TypeRuleKey
  <2>6. AsksMark(r, k, TypeMark(r.spec))
    BY <2>3, <2>5 DEF AsksMark
  <2>7. TypeKeys \in SUBSET MarkKeys
    BY DEF MarkKeys
  <2>8. \E n \in EnabledNodes(k) : TypeMark(r.spec) \in Marks(k.spec, n.data)
    BY <1>1, <2>5, <2>6, <2>7, MarksDecided
  <2> QED
    BY <1>1, <2>8, LookupInForce
<1> QED
  BY <1>2, <1>3

\* The type that a lookup in the rule tables of an expanded policy finds is one
\* that a type rule in force under the present booleans asks for, and a lookup
\* finds one whenever such a rule exists (expand_terule_helper, cond_node_copy,
\* evaluate_conds), for sources in which conditionals taken as equal are
\* equivalent and in which leaving a pair at the first duplicate loses nothing.
THEOREM TypeDecisionsMatch == SoundConds /\ SameClasses => (Spec => []TypeDecisionPrescribed)
<1> SUFFICES ASSUME SoundConds, SameClasses PROVE Spec => []TypeDecisionPrescribed
  OBVIOUS
<1>1. Init => TypeInv
  BY TypesInit
<1>2. TypeInv /\ [Next]_vars => TypeInv'
  BY TypesStep
<1>3. TypeInv => TypeDecisionPrescribed
  BY TypesDecided
<1> QED
  BY <1>1, <1>2, <1>3, PTL DEF Spec

=============================================================================
