--------------------------- MODULE Records_proofs ---------------------------
(***************************************************************************)
(* The local customisation interface: queries answer with what was         *)
(* accepted last, and the functions that look at records agree, for every  *)
(* policy, every set of records and every sequence of calls.               *)
(***************************************************************************)
EXTENDS Records, Induction, SequenceTheorems, FiniteSetTheorems

-----------------------------------------------------------------------------
(***************************************************************************)
(* The inductive invariant: the types of what is stored, names that occur  *)
(* once, and for each key what the history and the policy say of it.       *)
(***************************************************************************)
\* A context in the policy names a user that exists.
StoredContext == [user : DOMAIN users, role : DOMAIN RoleNames, type : DOMAIN TypeNames,
                  range : MlsRange]
EntryOf(keys) == [key : keys, con : StoredContext]

PortEntry == EntryOf([protocol : {IpProto[i] : i \in DOMAIN IpProto}, low : Int, high : Int])
NodeEntry(p) == EntryOf([addr : {a.bytes : a \in Addresses(p)},
                         mask : {a.bytes : a \in Addresses(p)}])
IfaceEntry == [key : Int, con : StoredContext, msgcon : StoredContext]
IbpkeyKeys == [subnet_prefix : Prefixes, low : Int, high : Int]
IbendportKeys == [ibdev_name : CutNames, port : Int]

\* What is expected for a key is the record of the first entry with its key.
Expects(f, k, list, key, records) ==
    LET n == First(list, key) IN
    /\ k \in DOMAIN f <=> n # 0
    /\ n # 0 => f[k] = records[n]

PortKeys == [low : Int, high : Int, proto : 0 .. 3]
PortsOK ==
    /\ ocon.port \in Seq(PortEntry)
    /\ DOMAIN last.port \subseteq PortKeys
    /\ \A k \in PortKeys : Expects(last.port, k, ocon.port, PortEntryKey(k), PortRecords)

Protos == {SEPOL_PROTO_IP4, SEPOL_PROTO_IP6}
NodeSide(p) ==
    /\ NodeList(p) \in Seq(NodeEntry(p))
    /\ \A k \in NodeKeysOf(p) :
           Expects(last.node, k, NodeList(p), NodeEntryKey(k), NodeRecords(p))
NodesOK ==
    /\ DOMAIN last.node \subseteq NodeKeysOf(SEPOL_PROTO_IP4) \cup NodeKeysOf(SEPOL_PROTO_IP6)
    /\ \A p \in Protos : NodeSide(p)

\* There is one interface of a name, as it is replaced.
NameKeys == [name : Int]
IfacesOK ==
    /\ ocon.netif \in Seq(IfaceEntry)
    /\ \A i, j \in DOMAIN ocon.netif : ocon.netif[i].key = ocon.netif[j].key => i = j
    /\ DOMAIN last.iface \subseteq NameKeys
    /\ \A k \in NameKeys : Expects(last.iface, k, ocon.netif, k.name, IfaceRecords)

IbpkeysOK ==
    /\ ocon.ibpkey \in Seq(EntryOf(IbpkeyKeys))
    /\ DOMAIN last.ibpkey \subseteq IbpkeyKeys
    /\ \A k \in IbpkeyKeys : Expects(last.ibpkey, k, ocon.ibpkey, k, IbpkeyRecords)

IbendportsOK ==
    /\ ocon.ibendport \in Seq(EntryOf(IbendportKeys))
    /\ DOMAIN last.ibendport \subseteq IbendportKeys
    /\ \A k \in IbendportKeys : Expects(last.ibendport, k, ocon.ibendport, k, IbendportRecords)

BoolsOK ==
    /\ bools \in Seq(BoolDatum) /\ Injective(Names(bools))
    /\ DOMAIN last.bool = {sepol_bool_key_extract(bools[i]) : i \in DOMAIN bools}
    /\ \A i \in DOMAIN bools : last.bool[sepol_bool_key_extract(bools[i])] = bool_to_record(i)
    /\ conds = evaluate_conds(bools)

\* The list of roles that clients may expect of a set of roles.
RoleList(all) ==
    [i \in 1 .. Cardinality(all) |->
        RoleNames[CHOOSE r \in all : Cardinality({q \in all : q <= r}) = i]]

\* A user is expected as it is, or its last modify was refused halfway: it has
\* the roles it was given before that, and no authorisations.
RecordOf(m, u) ==
    [name |-> u.name, roles |-> RoleList(u.roles),
     mls_level |-> IF m THEN MlsString[Point(u.level)] ELSE NULL,
     mls_range |-> IF m THEN MlsString[u.range] ELSE NULL]
HalfOf(u) ==
    [name |-> u.name, roles |-> RoleList(u.roles), mls_level |-> Unknown, mls_range |-> Unknown]
UserSaid(said, m, u) ==
    \/ said \in UserType /\ (m => u.range # NoRange) /\ said = RecordOf(m, u)
    \/ said = HalfOf(u) /\ u.cache = {} /\ u.range = NoRange
UsersTyped == mls \in BOOLEAN /\ users \in Seq(UserDatum)
UsersOK ==
    /\ UsersTyped /\ Injective(Names(users))
    /\ DOMAIN last.user = {sepol_user_key_extract(users[i]) : i \in DOMAIN users}
    /\ \A i \in DOMAIN users :
           UserSaid(last.user[sepol_user_key_extract(users[i])], mls, users[i])

Lists == {"port", "netif", "node", "node6", "ibpkey", "ibendport"}
Kinds == {"port", "iface", "bool", "user", "node", "ibpkey", "ibendport"}
Shapes == ocon = [x \in Lists |-> ocon[x]] /\ last = [x \in Kinds |-> last[x]]

IInv ==
    /\ Shapes
    /\ PortsOK /\ NodesOK /\ IfacesOK /\ IbpkeysOK /\ IbendportsOK
    /\ BoolsOK /\ UsersOK

-----------------------------------------------------------------------------
(***************************************************************************)
(* Searching and comparing.                                                *)
(***************************************************************************)
LEMMA MinIs ==
  ASSUME NEW S \in SUBSET Nat, S # {}
  PROVE  Min(S) \in S /\ \A y \in S : Min(S) <= y
<1>1. PICK x \in S : \A y \in S : ~(<<y, x>> \in OpToRel(<, Nat))
  BY NatLessThanWellFounded, WFMin
<1>2. \A y \in S : x <= y
  <2> TAKE y \in S
  <2>1. ~(<<y, x>> \in OpToRel(<, Nat))
    BY <1>1
  <2>2. y \in Nat /\ x \in Nat
    OBVIOUS
  <2>3. ~(y < x)
    BY <2>1, <2>2, Zenon DEF OpToRel
  <2> QED
    BY <2>2, <2>3
<1> QED
  BY <1>2 DEF Min

LEMMA OneMin ==
  ASSUME NEW S \in SUBSET Nat, NEW x \in S, \A y \in S : x <= y
  PROVE  Min(S) = x
<1>1. Min(S) \in S /\ Min(S) <= x
  BY MinIs
<1>2. Min(S) \in Nat /\ x \in Nat /\ x <= Min(S)
  BY <1>1
<1> QED
  BY <1>1, <1>2

\* The first entry with a key, or 0.
LEMMA FirstIs ==
  ASSUME NEW S, NEW list \in Seq(S), NEW key
  PROVE  LET n == First(list, key) IN
         /\ n \in 0 .. Len(list)
         /\ n = 0 <=> \A i \in 1 .. Len(list) : list[i].key # key
         /\ n # 0 => /\ n \in DOMAIN list /\ list[n].key = key
                     /\ \A i \in 1 .. n - 1 : list[i].key # key
<1> DEFINE hits == {i \in DOMAIN list : list[i].key = key}
<1>1. DOMAIN list = 1 .. Len(list) /\ Len(list) \in Nat
  OBVIOUS
<1>2. hits \in SUBSET Nat
  BY <1>1
<1>3. CASE hits = {}
  <2>1. First(list, key) = 0
    BY <1>3 DEF First
  <2> QED
    BY <1>1, <1>3, <2>1
<1>4. CASE hits # {}
  <2>1. First(list, key) = Min(hits)
    BY <1>4 DEF First
  <2>2. Min(hits) \in hits /\ \A y \in hits : Min(hits) <= y
    <3> HIDE DEF hits
    <3> QED
      BY <1>2, <1>4, MinIs
  <2> DEFINE n == Min(hits)
  <2>3. n \in 1 .. Len(list) /\ list[n].key = key
    BY <1>1, <2>2
  <2>4. \A i \in 1 .. n - 1 : list[i].key # key
    <3> TAKE i \in 1 .. n - 1
    <3>1. i \in DOMAIN list /\ i < n
      BY <1>1, <2>3
    <3>2. i \notin hits
      <4> HIDE DEF hits
      <4> QED
        BY <1>1, <2>2, <2>3, <3>1
    <3> QED
      BY <3>1, <3>2
  <2> HIDE DEF n
  <2> QED
    BY <1>1, <2>1, <2>3, <2>4 DEF n
<1> QED
  BY <1>3, <1>4

\* An entry with the key before which there is none is the first.
LEMMA FirstAt ==
  ASSUME NEW S, NEW list \in Seq(S), NEW key, NEW n \in 1 .. Len(list),
         list[n].key = key, \A i \in 1 .. n - 1 : list[i].key # key
  PROVE  First(list, key) = n
<1>1. First(list, key) # 0
  BY FirstIs
<1>2. First(list, key) \in 1 .. Len(list) /\ list[First(list, key)].key = key
  BY <1>1, FirstIs
<1>3. ~(First(list, key) < n)
  BY <1>2
<1>4. ~(n < First(list, key))
  BY <1>1, FirstIs
<1> QED
  BY <1>2, <1>3, <1>4

\* The places of a key that First takes the least of.
LEMMA FirstHit ==
  ASSUME NEW S, NEW list \in Seq(S), NEW key
  PROVE  LET hits == {i \in 1 .. Len(list) : list[i].key = key}
         IN /\ First(list, key) # 0 <=> hits # {}
            /\ hits # {} => First(list, key) = Min(hits)
<1> DEFINE hits == {i \in 1 .. Len(list) : list[i].key = key}
<1>1. DOMAIN list = 1 .. Len(list) /\ Len(list) \in Nat
  OBVIOUS
<1>2. hits \in SUBSET Nat /\ 0 \notin hits
  BY <1>1
<1>3. hits # {} => Min(hits) \in hits
  <2> HIDE DEF hits
  <2> QED
    BY <1>2, MinIs
<1> QED
  BY <1>1, <1>2, <1>3 DEF First

\* The place of a name, or 0.
LEMMA ValueIs ==
  ASSUME NEW names, NEW name
  PROVE  /\ ValueIn(names, name) \in DOMAIN names \cup {0}
         /\ ValueIn(names, name) # 0 => names[ValueIn(names, name)] = name
         /\ ValueIn(names, name) = 0 /\ 0 \notin DOMAIN names =>
                \A i \in DOMAIN names : names[i] # name
  BY DEF ValueIn

LEMMA ValueOf ==
  ASSUME NEW names, Injective(names), NEW i \in DOMAIN names
  PROVE  ValueIn(names, names[i]) = i
  BY DEF ValueIn, Injective

-----------------------------------------------------------------------------
Tuples(n) == [1 .. n -> Int]

LEMMA FirstDifference ==
  ASSUME NEW n \in Nat, NEW a \in Tuples(n), NEW b \in Tuples(n),
         NEW m \in 1 .. n, a[m] # b[m], \A i \in 1 .. m - 1 : a[i] = b[i]
  PROVE  Compare(a, b) = IF a[m] < b[m] THEN -1 ELSE 1
<1> DEFINE differ == {i \in DOMAIN a : a[i] # b[i]}
<1>1. differ \in SUBSET Nat /\ m \in differ /\ \A y \in differ : m <= y
  BY DEF Tuples
<1>2. Min(differ) = m
  <2> HIDE DEF differ
  <2> QED
    BY <1>1, OneMin
<1>3. differ # {}
  BY <1>1
<1> QED
  BY <1>2, <1>3 DEF Compare

LEMMA CompareIs ==
  ASSUME NEW n \in Nat, NEW a \in Tuples(n), NEW b \in Tuples(n)
  PROVE  \/ a = b /\ Compare(a, b) = 0
         \/ \E m \in 1 .. n : /\ a[m] # b[m] /\ \A i \in 1 .. m - 1 : a[i] = b[i]
                              /\ Compare(a, b) = IF a[m] < b[m] THEN -1 ELSE 1
<1> DEFINE differ == {i \in DOMAIN a : a[i] # b[i]}
<1>1. differ \in SUBSET Nat /\ differ \in SUBSET (1 .. n)
  BY DEF Tuples
<1>2. CASE differ = {}
  <2>1. \A i \in 1 .. n : a[i] = b[i]
    BY <1>2 DEF Tuples
  <2>2. a = b
    BY <2>1 DEF Tuples
  <2> QED
    BY <1>2, <2>2 DEF Compare
<1>3. CASE differ # {}
  <2>1. Min(differ) \in differ /\ \A y \in differ : Min(differ) <= y
    <3> HIDE DEF differ
    <3> QED
      BY <1>1, <1>3, MinIs
  <2> DEFINE m == Min(differ)
  <2>2. m \in 1 .. n /\ a[m] # b[m]
    BY <1>1, <2>1
  <2>3. \A i \in 1 .. m - 1 : a[i] = b[i]
    <3> TAKE i \in 1 .. m - 1
    <3>1. i < m
      BY <2>2
    <3>2. i \notin differ
      BY <2>1, <2>2, <3>1
    <3> QED
      BY <2>2, <3>2 DEF Tuples
  <2>4. Compare(a, b) = IF a[m] < b[m] THEN -1 ELSE 1
    BY <2>2, <2>3, FirstDifference
  <2> HIDE DEF m
  <2> QED
    BY <2>2, <2>3, <2>4
<1> QED
  BY <1>2, <1>3

LEMMA CompareZero ==
  ASSUME NEW n \in Nat, NEW a \in Tuples(n), NEW b \in Tuples(n)
  PROVE  Compare(a, b) = 0 <=> a = b
  BY CompareIs

LEMMA CompareAnti ==
  ASSUME NEW n \in Nat, NEW a \in Tuples(n), NEW b \in Tuples(n)
  PROVE  Compare(a, b) = -Compare(b, a)
<1>1. CASE a = b
  BY <1>1, CompareIs
<1>2. CASE a # b
  <2>1. PICK m \in 1 .. n : /\ a[m] # b[m] /\ \A i \in 1 .. m - 1 : a[i] = b[i]
                            /\ Compare(a, b) = IF a[m] < b[m] THEN -1 ELSE 1
    BY <1>2, CompareIs
  <2>2. Compare(b, a) = IF b[m] < a[m] THEN -1 ELSE 1
    BY <2>1, FirstDifference
  <2>3. a[m] \in Int /\ b[m] \in Int
    BY DEF Tuples
  <2> QED
    BY <2>1, <2>2, <2>3
<1> QED
  BY <1>1, <1>2

LEMMA CompareLess ==
  ASSUME NEW n \in Nat, NEW a \in Tuples(n), NEW b \in Tuples(n), NEW c \in Tuples(n),
         Compare(a, b) < 0, Compare(b, c) < 0
  PROVE  Compare(a, c) < 0
<1>1. PICK l \in 1 .. n : a[l] # b[l] /\ (\A i \in 1 .. l - 1 : a[i] = b[i]) /\ a[l] < b[l]
  BY CompareIs
<1>2. PICK m \in 1 .. n : b[m] # c[m] /\ (\A i \in 1 .. m - 1 : b[i] = c[i]) /\ b[m] < c[m]
  BY CompareIs
<1> DEFINE d == IF l <= m THEN l ELSE m
<1>3. d \in 1 .. n /\ \A i \in 1 .. d - 1 : a[i] = c[i]
  BY <1>1, <1>2
<1>4. a[d] < c[d]
  <2>1. a[d] \in Int /\ b[d] \in Int /\ c[d] \in Int
    BY <1>3 DEF Tuples
  <2>2. a[d] <= b[d] /\ b[d] <= c[d] /\ (a[d] < b[d] \/ b[d] < c[d])
    BY <1>1, <1>2, <2>1
  <2> QED
    BY <2>1, <2>2
<1>5. a[d] # c[d]
  BY <1>3, <1>4 DEF Tuples
<1> HIDE DEF d
<1> QED
  BY <1>3, <1>4, <1>5, FirstDifference

-----------------------------------------------------------------------------
(***************************************************************************)
(* What a modification does to what is expected of a list.                 *)
(***************************************************************************)
LEMMA AttachIs ==
  ASSUME NEW S, NEW list \in Seq(S), NEW e \in S
  PROVE  /\ <<e>> \o list \in Seq(S)
         /\ Len(<<e>> \o list) = Len(list) + 1
         /\ (<<e>> \o list)[1] = e
         /\ \A i \in 1 .. Len(list) : (<<e>> \o list)[i + 1] = list[i]
         /\ \A i \in 2 .. Len(list) + 1 : (<<e>> \o list)[i] = list[i - 1]
<1>1. <<e>> \in Seq(S) /\ Len(<<e>>) = 1 /\ <<e>>[1] = e
  OBVIOUS
<1> QED
  BY <1>1, ConcatProperties

LEMMA FirstAttached ==
  ASSUME NEW S, NEW list \in Seq(S), NEW e \in S, NEW key
  PROVE  First(<<e>> \o list, key) =
            IF e.key = key THEN 1
            ELSE IF First(list, key) = 0 THEN 0 ELSE First(list, key) + 1
<1> DEFINE t == <<e>> \o list
           n == First(list, key)
<1>1. t \in Seq(S) /\ Len(t) = Len(list) + 1 /\ Len(list) \in Nat /\ t[1] = e
      /\ \A i \in 2 .. Len(t) : t[i] = list[i - 1]
  BY AttachIs
<1>2. /\ n \in 0 .. Len(list)
      /\ n = 0 <=> \A i \in 1 .. Len(list) : list[i].key # key
      /\ n # 0 => list[n].key = key /\ \A i \in 1 .. n - 1 : list[i].key # key
  BY FirstIs
<1> HIDE DEF t, n
<1>3. CASE e.key = key
  <2>1. First(t, key) = 1
    BY <1>1, <1>3, FirstAt
  <2> QED
    BY <1>3, <2>1 DEF t
<1>4. CASE e.key # key /\ n = 0
  <2>1. \A i \in 1 .. Len(t) : t[i].key # key
    BY <1>1, <1>2, <1>4
  <2>2. First(t, key) = 0
    BY <1>1, <2>1, FirstIs
  <2> QED
    BY <1>4, <2>2 DEF t, n
<1>5. CASE e.key # key /\ n # 0
  <2>1. n + 1 \in 1 .. Len(t) /\ t[n + 1].key = key
    BY <1>1, <1>2, <1>5
  <2>2. \A i \in 1 .. n : t[i].key # key
    <3> TAKE i \in 1 .. n
    <3>1. CASE i = 1
      BY <1>1, <1>5, <3>1
    <3>2. CASE i # 1
      <4>1. i \in 2 .. Len(t) /\ i - 1 \in 1 .. n - 1
        BY <1>1, <1>2, <3>2
      <4> QED
        BY <1>1, <1>2, <1>5, <4>1
    <3> QED
      BY <3>1, <3>2
  <2>3. First(t, key) = n + 1
    <3>1. \A i \in 1 .. (n + 1) - 1 : t[i].key # key
      BY <1>2, <2>2
    <3> QED
      BY <1>1, <2>1, <3>1, FirstAt
  <2> QED
    BY <1>5, <2>3 DEF t, n
<1> QED
  BY <1>3, <1>4, <1>5

\* A new entry at the front answers for its key and no other.
LEMMA AttachExpected ==
  ASSUME NEW S, NEW list \in Seq(S), NEW e \in S, NEW f, NEW k, NEW key, NEW said, NEW own,
         NEW records, NEW new, Expects(f, k, list, key, records),
         k = own <=> e.key = key,
         new[1] = said, \A i \in 1 .. Len(list) : new[i + 1] = records[i]
  PROVE  Expects(Put(f, own, said), k, <<e>> \o list, key, new)
<1>1. First(list, key) \in 0 .. Len(list) /\ Len(list) \in Nat
  BY FirstIs
<1> DEFINE g == Put(f, own, said)
           n == First(list, key)
           m == First(<<e>> \o list, key)
<1>2. m = IF e.key = key THEN 1 ELSE IF n = 0 THEN 0 ELSE n + 1
  BY FirstAttached
<1>3. DOMAIN g = DOMAIN f \cup {own} /\ g[own] = said /\ \A x \in DOMAIN f : x # own => g[x] = f[x]
  BY DEF Put
<1>4. /\ k \in DOMAIN f <=> n # 0
      /\ n # 0 => f[k] = records[n]
  BY DEF Expects
<1>5. /\ k \in DOMAIN g <=> m # 0
      /\ m # 0 => g[k] = new[m]
  <2> HIDE DEF g, n, m
  <2>1. CASE e.key = key
    BY <1>2, <1>3, <2>1
  <2>2. CASE e.key # key /\ n = 0
    BY <1>2, <1>3, <1>4, <2>2
  <2>3. CASE e.key # key /\ n # 0
    <3>1. n \in 1 .. Len(list) /\ m = n + 1 /\ m # 0
      BY <1>1, <1>2, <2>3 DEF n
    <3>2. new[m] = records[n]
      BY <3>1
    <3>3. k \in DOMAIN f /\ k # own
      BY <1>4, <2>3
    <3> QED
      BY <1>3, <1>4, <2>3, <3>1, <3>2, <3>3
  <2> QED
    BY <2>1, <2>2, <2>3
<1> QED
  BY <1>5 DEF Expects

\* The same of an entry that takes the place of the one with its key.
LEMMA ReplacedIs ==
  ASSUME NEW S, NEW list \in Seq(S), NEW e \in S
  PROVE  LET t == Replaced(list, e)
             n == First(list, e.key)
         IN /\ t \in Seq(S)
            /\ n = 0 => t = <<e>> \o list
            /\ n # 0 => n \in 1 .. Len(list) /\ Len(t) = Len(list)
            /\ n # 0 => \A i \in 1 .. Len(list) : t[i] = IF i = n THEN e ELSE list[i]
<1>1. First(list, e.key) \in 0 .. Len(list) /\ Len(list) \in Nat
  BY FirstIs
<1>2. CASE First(list, e.key) = 0
  BY <1>2, AttachIs DEF Replaced
<1>3. CASE First(list, e.key) # 0
  BY <1>1, <1>3, ExceptSeq DEF Replaced
<1> QED
  BY <1>2, <1>3

LEMMA ReplacedFirst ==
  ASSUME NEW S, NEW list \in Seq(S), NEW e \in S, First(list, e.key) # 0, NEW key
  PROVE  First(Replaced(list, e), key) = First(list, key)
<1> DEFINE t == Replaced(list, e)
           n == First(list, e.key)
           m == First(list, key)
<1>1. t \in Seq(S) /\ n \in 1 .. Len(list) /\ Len(t) = Len(list) /\ Len(list) \in Nat
      /\ \A i \in 1 .. Len(list) : t[i] = IF i = n THEN e ELSE list[i]
  <2>1. t \in Seq(S)
    BY ReplacedIs
  <2>2. n \in 1 .. Len(list) /\ Len(t) = Len(list)
    BY ReplacedIs
  <2>3. \A i \in 1 .. Len(list) : t[i] = IF i = n THEN e ELSE list[i]
    <3>1. t = [list EXCEPT ![n] = e]
      BY DEF Replaced
    <3> HIDE DEF n, t
    <3> QED
      BY <2>2, <3>1, ExceptSeq
  <2> QED
    BY <2>1, <2>2, <2>3
<1>2. list[n].key = e.key
  BY FirstIs
<1>3. \A i \in 1 .. Len(list) : t[i].key = list[i].key
  BY <1>1, <1>2
<1>4. /\ m \in 0 .. Len(list)
      /\ m = 0 <=> \A i \in 1 .. Len(list) : list[i].key # key
      /\ m # 0 => list[m].key = key /\ \A i \in 1 .. m - 1 : list[i].key # key
  BY FirstIs
<1> HIDE DEF t, n, m
<1>5. CASE m = 0
  <2>1. First(t, key) = 0
    BY <1>1, <1>3, <1>4, <1>5, FirstIs
  <2> QED
    BY <1>5, <2>1 DEF t, m
<1>6. CASE m # 0
  <2>1. m \in 1 .. Len(t) /\ t[m].key = key /\ \A i \in 1 .. m - 1 : t[i].key # key
    BY <1>1, <1>3, <1>4, <1>6
  <2>2. First(t, key) = m
    BY <1>1, <2>1, FirstAt
  <2> QED
    BY <2>2 DEF t, m
<1> QED
  BY <1>5, <1>6

LEMMA ReplaceExpected ==
  ASSUME NEW S, NEW list \in Seq(S), NEW e \in S, NEW f, NEW k, NEW key, NEW said, NEW own,
         NEW records, NEW new, Expects(f, k, list, key, records),
         k = own <=> e.key = key, First(list, e.key) # 0,
         new[First(list, e.key)] = said,
         \A i \in 1 .. Len(list) : i # First(list, e.key) => new[i] = records[i]
  PROVE  Expects(Put(f, own, said), k, Replaced(list, e), key, new)
<1>1. First(Replaced(list, e), key) = First(list, key)
  BY ReplacedFirst
<1>2. /\ First(list, key) \in 0 .. Len(list)
      /\ First(list, key) # 0 => list[First(list, key)].key = key
      /\ list[First(list, e.key)].key = e.key
  BY FirstIs
<1>3. (First(list, key) = First(list, e.key) /\ First(list, key) # 0) <=> e.key = key
  BY <1>2
<1> DEFINE g == Put(f, own, said)
           n == First(list, key)
           m == First(list, e.key)
<1>4. DOMAIN g = DOMAIN f \cup {own} /\ g[own] = said /\ \A x \in DOMAIN f : x # own => g[x] = f[x]
  BY DEF Put
<1>5. /\ k \in DOMAIN f <=> n # 0
      /\ n # 0 => f[k] = records[n]
  BY DEF Expects
<1>6. /\ k \in DOMAIN g <=> n # 0
      /\ n # 0 => g[k] = new[n]
  <2>1. /\ n \in 0 .. Len(list)
        /\ m # 0
        /\ (n = m /\ n # 0) <=> e.key = key
        /\ new[m] = said /\ \A i \in 1 .. Len(list) : i # m => new[i] = records[i]
    BY <1>2, <1>3
  <2> HIDE DEF g, n, m
  <2>2. CASE e.key = key
    <3>1. k = own /\ n = m /\ m # 0
      BY <2>1, <2>2
    <3>2. k \in DOMAIN g /\ g[k] = said
      BY <1>4, <3>1
    <3>3. new[n] = said
      BY <2>1, <3>1
    <3> QED
      BY <3>1, <3>2, <3>3
  <2>3. CASE e.key # key
    <3>1. k # own
      BY <2>3
    <3> QED
      BY <1>4, <1>5, <2>1, <2>3, <3>1
  <2> QED
    BY <2>2, <2>3
<1> QED
  BY <1>1, <1>6 DEF Expects

\* Entries that stay and records that stay the same answer the same.
LEMMA SameExpected ==
  ASSUME NEW S, NEW list \in Seq(S), NEW f, NEW k, NEW key, NEW records, NEW new,
         Expects(f, k, list, key, records), \A i \in 1 .. Len(list) : new[i] = records[i]
  PROVE  Expects(f, k, list, key, new)
<1>1. First(list, key) \in 0 .. Len(list)
  BY FirstIs
<1> QED
  BY <1>1 DEF Expects

\* What is said of the records of a loaded list is what is expected of it.
LEMMA SaidExpected ==
  ASSUME NEW S, NEW list \in Seq(S), NEW f, NEW k, NEW key, NEW records, NEW keyof,
         \A i \in 1 .. Len(list) : keyof[i] = k <=> list[i].key = key,
         f = [x \in {keyof[i] : i \in 1 .. Len(list)} |->
                 records[Min({i \in 1 .. Len(list) : keyof[i] = x})]]
  PROVE  Expects(f, k, list, key, records)
<1> DEFINE hits == {i \in 1 .. Len(list) : list[i].key = key}
<1>1. hits = {i \in 1 .. Len(list) : keyof[i] = k}
  OBVIOUS
<1>2. k \in DOMAIN f <=> hits # {}
  BY <1>1
<1>3. k \in DOMAIN f => f[k] = records[Min(hits)]
  BY <1>1
<1>4. /\ First(list, key) # 0 <=> hits # {}
      /\ hits # {} => First(list, key) = Min(hits)
  BY FirstHit
<1> HIDE DEF hits
<1> QED
  BY <1>2, <1>3, <1>4 DEF Expects

-----------------------------------------------------------------------------
(***************************************************************************)
(* Contexts: what the policy keeps of one is what clients may expect.      *)
(***************************************************************************)
Shaped(con) == con = [user |-> con.user, role |-> con.role, type |-> con.type, mls |-> con.mls]

\* What is read from the parts of a string.
LEMMA FromParts ==
  ASSUME NEW str, Len(str) \in {3, 4}
  PROVE  sepol_context_from_string(str)
            = [user |-> str[1], role |-> str[2], type |-> str[3],
               mls |-> IF Len(str) = 3 THEN NULL ELSE str[4]]
<1> DEFINE u == sepol_context_set_user(sepol_context_create, str[1])
           r == sepol_context_set_role(u, str[2])
           t == sepol_context_set_type(r, str[3])
           m == sepol_context_set_mls(t, str[4])
<1>1. u = [user |-> str[1], role |-> NULL, type |-> NULL, mls |-> NULL]
  BY DEF sepol_context_create, sepol_context_set_user
<1>2. r = [user |-> str[1], role |-> str[2], type |-> NULL, mls |-> NULL]
  <2> HIDE DEF u
  <2> QED
    BY <1>1 DEF sepol_context_set_role
<1>3. t = [user |-> str[1], role |-> str[2], type |-> str[3], mls |-> NULL]
  <2> HIDE DEF r
  <2> QED
    BY <1>2 DEF sepol_context_set_type
<1>4. m = [user |-> str[1], role |-> str[2], type |-> str[3], mls |-> str[4]]
  <2> HIDE DEF t
  <2> QED
    BY <1>3 DEF sepol_context_set_mls
<1>5. sepol_context_from_string(str) = IF Len(str) = 3 THEN t ELSE m
  <2>1. sepol_context_from_string(str)
            = IF str = NoContext THEN NULL
              ELSE IF Len(str) < 3 THEN Refused ELSE IF Len(str) = 3 THEN t ELSE m
    BY Zenon DEF sepol_context_from_string
  <2>2. str # NoContext
    BY DEF NoContext
  <2>3. ~(Len(str) < 3)
    OBVIOUS
  <2> HIDE DEF t, m
  <2> QED
    BY <2>1, <2>2, <2>3, Zenon
<1> HIDE DEF t, m
<1> QED
  BY <1>3, <1>4, <1>5

LEMMA CloneIs ==
  ASSUME NEW con, Shaped(con)
  PROVE  sepol_context_clone(con) = con
  BY DEF sepol_context_clone, sepol_context_create, Shaped

\* A context that is printed is read back as it was.
LEMMA PrintedReadsBack ==
  ASSUME NEW con, Shaped(con)
  PROVE  sepol_context_from_string(sepol_context_to_string(con)) = con
<1> DEFINE S == {con.user, con.role, con.type, con.mls}
           a == <<con.user, con.role, con.type>>
           b == IF con.mls = NULL THEN <<>> ELSE <<con.mls>>
           str == sepol_context_to_string(con)
<1>1. /\ a \in Seq(S) /\ Len(a) = 3
      /\ a[1] = con.user /\ a[2] = con.role /\ a[3] = con.type
  OBVIOUS
<1>2. /\ b \in Seq(S) /\ Len(b) = IF con.mls = NULL THEN 0 ELSE 1
      /\ con.mls # NULL => b[1] = con.mls
  <2>1. CASE con.mls = NULL
    <3>1. b = <<>>
      BY <2>1
    <3> HIDE DEF b
    <3> QED
      BY <2>1, <3>1
  <2>2. CASE con.mls # NULL
    <3>1. b = <<con.mls>> /\ con.mls \in S
      BY <2>2
    <3> HIDE DEF b, S
    <3> QED
      BY <2>2, <3>1
  <2> QED
    BY <2>1, <2>2
<1>3. str = a \o b
  BY DEF sepol_context_to_string
<1> HIDE DEF a, b, str
<1>4. /\ Len(str) = IF con.mls = NULL THEN 3 ELSE 4
      /\ str[1] = con.user /\ str[2] = con.role /\ str[3] = con.type
      /\ con.mls # NULL => str[4] = con.mls
  <2>1. Len(str) = Len(a) + Len(b)
    BY <1>1, <1>2, <1>3, ConcatProperties
  <2>2. \A i \in 1 .. Len(a) + Len(b) : str[i] = IF i <= Len(a) THEN a[i] ELSE b[i - Len(a)]
    BY <1>1, <1>2, <1>3, ConcatProperties
  <2> QED
    BY <1>1, <1>2, <2>1, <2>2
<1>5. sepol_context_from_string(str) = con
  <2>1. sepol_context_from_string(str)
            = [user |-> str[1], role |-> str[2], type |-> str[3],
               mls |-> IF Len(str) = 3 THEN NULL ELSE str[4]]
    BY <1>4, FromParts
  <2> QED
    BY <1>4, <2>1 DEF Shaped
<1> QED
  BY <1>5 DEF str

LEMMA TypedClone ==
  ASSUME NEW con \in ContextType
  PROVE  sepol_context_clone(con) = con
  BY CloneIs DEF ContextType, Shaped

LEMMA ShapedRecord ==
  ASSUME NEW c
  PROVE  Shaped(context_to_record(c))
  BY DEF context_to_record, Shaped

LEMMA RecordShaped ==
  ASSUME NEW c
  PROVE  sepol_context_clone(context_to_record(c)) = context_to_record(c)
  BY ShapedRecord, CloneIs

LEMMA ContextAccepted ==
  ASSUME UsersTyped, NEW con \in ContextType, context_from_record(con) # Refused
  PROVE  /\ context_from_record(con) \in StoredContext
         /\ context_to_record(context_from_record(con)) = SaidContext(con)
<1> DEFINE u == ValueIn(Names(users), con.user)
           r == ValueIn(RoleNames, con.role)
           t == IF con.type \in DOMAIN TypeTable THEN TypeTable[con.type] ELSE 0
           g == IF con.mls = NULL THEN NoRange ELSE mls_from_string(con.mls)
           c == context_from_record(con)
<1>1. /\ c = [user |-> u, role |-> r, type |-> t, range |-> g]
      /\ u # 0 /\ r # 0 /\ t # 0
      /\ mls = (con.mls # NULL)
      /\ mls => g # NoRange
  BY DEF context_from_record
<1>2. u \in DOMAIN users /\ users[u].name = con.user
  <2>1. /\ DOMAIN Names(users) = DOMAIN users
        /\ \A i \in DOMAIN users : Names(users)[i] = users[i].name
    BY DEF Names
  <2>2. u \in DOMAIN Names(users) /\ Names(users)[u] = con.user
    BY <1>1, ValueIs
  <2> QED
    BY <2>1, <2>2
<1>3. r \in DOMAIN RoleNames /\ RoleNames[r] = con.role
  BY <1>1, ValueIs
<1>4. con.type \in DOMAIN TypeTable /\ t = TypeTable[con.type] /\ t \in DOMAIN TypeNames
  BY <1>1, TypesAssumption
<1>5. g \in MlsRange
  BY MlsPrintedParsesBack DEF mls_from_string, NoRange, MlsRange
<1>6. mls => con.mls \in DOMAIN MlsOf /\ g = MlsOf[con.mls]
  BY <1>1 DEF mls_from_string
<1> HIDE DEF u, r, t, g, c
<1>7. c \in StoredContext
  BY <1>1, <1>2, <1>3, <1>4, <1>5 DEF StoredContext
<1>8. context_to_record(c) = SaidContext(con)
  <2>1. con = [user |-> con.user, role |-> con.role, type |-> con.type, mls |-> con.mls]
    BY DEF ContextType
  <2>2. SaidContext(con) = [user |-> con.user, role |-> con.role,
                            type |-> TypeNames[TypeTable[con.type]],
                            mls |-> IF con.mls = NULL THEN NULL ELSE MlsString[MlsOf[con.mls]]]
    <3> DEFINE d == [con EXCEPT !.type = TypeNames[TypeTable[@]]]
    <3>1. d = [user |-> con.user, role |-> con.role, type |-> TypeNames[TypeTable[con.type]],
               mls |-> con.mls]
      BY <2>1
    <3>2. SaidContext(con)
            = [d EXCEPT !.mls = IF @ = NULL THEN NULL ELSE MlsString[MlsOf[@]]]
      BY Zenon DEF SaidContext
    <3> HIDE DEF d
    <3> QED
      BY <3>1, <3>2
  <2>3. context_to_record(c) = [user |-> users[u].name, role |-> RoleNames[r],
                                type |-> TypeNames[t],
                                mls |-> IF mls THEN MlsString[g] ELSE NULL]
    BY <1>1 DEF context_to_record, mls_to_string
  <2>4. (IF mls THEN MlsString[g] ELSE NULL)
            = (IF con.mls = NULL THEN NULL ELSE MlsString[MlsOf[con.mls]])
    BY <1>1, <1>6
  <2> QED
    BY <1>2, <1>3, <1>4, <2>2, <2>3, <2>4
<1> QED
  BY <1>7, <1>8 DEF c

\* A context of the policy says the same as long as its user keeps its name.
NamesKept ==
    /\ mls' = mls /\ DOMAIN users \subseteq DOMAIN users'
    /\ \A i \in DOMAIN users : users'[i].name = users[i].name

LEMMA ContextKept ==
  ASSUME NEW c \in StoredContext, NamesKept
  PROVE  c \in StoredContext' /\ context_to_record(c)' = context_to_record(c)
<1>1. c.user \in DOMAIN users
  BY DEF StoredContext
<1>2. c \in StoredContext'
  BY DEF StoredContext, NamesKept
<1>3. context_to_record(c)' = context_to_record(c)
  BY <1>1 DEF context_to_record, mls_to_string, NamesKept
<1> QED
  BY <1>2, <1>3

LEMMA EntriesKept ==
  ASSUME NEW keys, NEW list \in Seq(EntryOf(keys)), NamesKept
  PROVE  /\ list \in Seq(EntryOf(keys)')
         /\ \A i \in 1 .. Len(list) :
                context_to_record(list[i].con)' = context_to_record(list[i].con)
<1>1. \A i \in 1 .. Len(list) : list[i] \in EntryOf(keys)
  OBVIOUS
<1>2. ASSUME NEW i \in 1 .. Len(list)
      PROVE  /\ list[i] \in EntryOf(keys)'
             /\ context_to_record(list[i].con)' = context_to_record(list[i].con)
  <2>1. list[i].con \in StoredContext
    BY <1>1 DEF EntryOf
  <2> DEFINE c == list[i].con
  <2>2. c \in StoredContext' /\ context_to_record(c)' = context_to_record(c)
    <3> HIDE DEF c
    <3> QED
      BY <2>1, ContextKept DEF c
  <2> QED
    BY <1>1, <2>2 DEF EntryOf
<1>3. list \in Seq(EntryOf(keys)')
  <2> DEFINE S == EntryOf(keys)'
  <2>1. \A i \in 1 .. Len(list) : list[i] \in S
    BY <1>2
  <2>2. Len(list) \in Nat /\ list = [i \in 1 .. Len(list) |-> list[i]]
    OBVIOUS
  <2> HIDE DEF S
  <2>3. list \in Seq(S)
    BY <2>1, <2>2, IsASeq
  <2> QED
    BY <2>3 DEF S
<1> QED
  BY <1>2, <1>3

-----------------------------------------------------------------------------
(***************************************************************************)
(* Ports.                                                                  *)
(***************************************************************************)
LEMMA Narrowed ==
  ASSUME NEW n \in Int, NEW limit \in Nat \ {0}
  PROVE  Narrow(n, limit) \in Int
  BY DEF Narrow

\* The protocols of a policy and of a record are the same four.
LEMMA Protocols ==
  /\ \A p \in Int : sepol2ipproto(p) >= 0 <=> p \in 0 .. 3
  /\ \A p \in 0 .. 3 : /\ sepol2ipproto(p) \in {IpProto[i] : i \in DOMAIN IpProto}
                       /\ ipproto2sepol(sepol2ipproto(p)) = p
  /\ \A p, q \in 0 .. 3 : sepol2ipproto(p) = sepol2ipproto(q) => p = q
<1>1. DOMAIN IpProto = 1 .. 4 /\ IpProto[1] = 17 /\ IpProto[2] = 6 /\ IpProto[3] = 33
      /\ IpProto[4] = 132
  BY DEF IpProto
<1>2. \A p \in Int : sepol2ipproto(p) >= 0 <=> p \in 0 .. 3
  <2> TAKE p \in Int
  <2>1. CASE p \in 0 .. 3
    <3>1. p + 1 \in 1 .. 4 /\ IpProto[p + 1] >= 0
      BY <1>1, <2>1
    <3> QED
      BY <1>1, <2>1, <3>1 DEF sepol2ipproto
  <2>2. CASE p \notin 0 .. 3
    <3>1. p + 1 \notin DOMAIN IpProto
      BY <1>1, <2>2
    <3> QED
      BY <2>2, <3>1 DEF sepol2ipproto
  <2> QED
    BY <2>1, <2>2
<1>3. \A p \in 0 .. 3 : p + 1 \in DOMAIN IpProto /\ sepol2ipproto(p) = IpProto[p + 1]
  BY <1>1 DEF sepol2ipproto
<1>4. Injective(IpProto)
  BY <1>1 DEF Injective
<1>5. ASSUME NEW p \in 0 .. 3
      PROVE  /\ sepol2ipproto(p) \in {IpProto[i] : i \in DOMAIN IpProto}
             /\ ipproto2sepol(sepol2ipproto(p)) = p
  <2>1. ValueIn(IpProto, IpProto[p + 1]) = p + 1
    BY <1>3, <1>4, ValueOf
  <2> QED
    BY <1>3, <2>1 DEF ipproto2sepol
<1>6. \A p, q \in 0 .. 3 : sepol2ipproto(p) = sepol2ipproto(q) => p = q
  BY <1>3, <1>4 DEF Injective
<1> QED
  BY <1>2, <1>5, <1>6

LEMMA PortCloned ==
  ASSUME NEW d \in PortType
  PROVE  sepol_port_clone(d) = d
<1>1. d = [low |-> d.low, high |-> d.high, proto |-> d.proto, con |-> d.con]
      /\ d.con \in ContextType
  BY DEF PortType
<1>2. sepol_port_clone(d) = [low |-> d.low, high |-> d.high, proto |-> d.proto,
                             con |-> sepol_context_clone(d.con)]
  <2> DEFINE x == sepol_port_create
             a == [x EXCEPT !.low = d.low]
             b == [a EXCEPT !.high = d.high]
             c == [b EXCEPT !.proto = d.proto]
  <2>1. x = [low |-> 0, high |-> 0, proto |-> SEPOL_PROTO_UDP, con |-> NULL]
    BY DEF sepol_port_create
  <2>2. sepol_port_clone(d) = [c EXCEPT !.con = sepol_context_clone(d.con)]
    BY Zenon DEF sepol_port_clone
  <2> HIDE DEF x
  <2>3. a = [low |-> d.low, high |-> 0, proto |-> SEPOL_PROTO_UDP, con |-> NULL]
    BY <2>1
  <2> HIDE DEF a
  <2>4. b = [low |-> d.low, high |-> d.high, proto |-> SEPOL_PROTO_UDP, con |-> NULL]
    BY <2>3
  <2> HIDE DEF b
  <2>5. c = [low |-> d.low, high |-> d.high, proto |-> d.proto, con |-> NULL]
    BY <2>4
  <2> HIDE DEF c
  <2> QED
    BY <2>2, <2>5
<1> QED
  BY <1>1, <1>2, TypedClone

LEMMA SaidPortIs ==
  ASSUME NEW d \in PortType
  PROVE  SaidPort(d) = [low |-> Narrow(d.low, PortLimit), high |-> Narrow(d.high, PortLimit),
                        proto |-> d.proto, con |-> SaidContext(d.con)]
<1>1. d = [low |-> d.low, high |-> d.high, proto |-> d.proto, con |-> d.con]
  BY DEF PortType
<1> DEFINE a == [d EXCEPT !.low = Narrow(@, PortLimit)]
           b == [a EXCEPT !.high = Narrow(@, PortLimit)]
<1>2. SaidPort(d) = [b EXCEPT !.con = SaidContext(@)]
  BY Zenon DEF SaidPort
<1>3. a = [low |-> Narrow(d.low, PortLimit), high |-> d.high, proto |-> d.proto, con |-> d.con]
  BY <1>1
<1> HIDE DEF a
<1>4. b = [low |-> Narrow(d.low, PortLimit), high |-> Narrow(d.high, PortLimit),
           proto |-> d.proto, con |-> d.con]
  BY <1>3
<1> HIDE DEF b
<1> QED
  BY <1>2, <1>4

LEMMA PortRecordIs ==
  ASSUME NEW e
  PROVE  port_to_record(e) = [low |-> e.key.low, high |-> e.key.high,
                              proto |-> ipproto2sepol(e.key.protocol),
                              con |-> context_to_record(e.con)]
<1> DEFINE a == sepol_port_set_proto(sepol_port_create, ipproto2sepol(e.key.protocol))
           b == sepol_port_set_range(a, e.key.low, e.key.high)
           c == context_to_record(e.con)
<1>1. a = [low |-> 0, high |-> 0, proto |-> ipproto2sepol(e.key.protocol), con |-> NULL]
  BY DEF sepol_port_set_proto, sepol_port_create
<1>2. b = [low |-> e.key.low, high |-> e.key.high,
           proto |-> ipproto2sepol(e.key.protocol), con |-> NULL]
  <2> DEFINE l == [a EXCEPT !.low = e.key.low]
  <2>1. b = [l EXCEPT !.high = e.key.high]
    BY Zenon DEF sepol_port_set_range
  <2> HIDE DEF a
  <2>2. l = [low |-> e.key.low, high |-> 0,
             proto |-> ipproto2sepol(e.key.protocol), con |-> NULL]
    BY <1>1
  <2> HIDE DEF l, b
  <2> QED
    BY <2>1, <2>2
<1>3. port_to_record(e) = [b EXCEPT !.con = sepol_context_clone(c)]
  BY Zenon DEF port_to_record, sepol_port_set_con
<1>4. sepol_context_clone(c) = c
  BY RecordShaped
<1> HIDE DEF b, c
<1> QED
  BY <1>2, <1>3, <1>4 DEF c

LEMMA PortRecordNext ==
  ASSUME NEW e
  PROVE  port_to_record(e)' = [low |-> e.key.low, high |-> e.key.high,
                               proto |-> ipproto2sepol(e.key.protocol),
                               con |-> context_to_record(e.con)']
<1>1. port_to_record(e) = [low |-> e.key.low, high |-> e.key.high,
                           proto |-> ipproto2sepol(e.key.protocol),
                           con |-> context_to_record(e.con)]
  BY PortRecordIs
<1>2. (port_to_record(e) = [low |-> e.key.low, high |-> e.key.high,
                            proto |-> ipproto2sepol(e.key.protocol),
                            con |-> context_to_record(e.con)])'
  BY <1>1, PTL
<1> QED
  BY <1>2

LEMMA PortAccepted ==
  ASSUME UsersTyped, NEW d \in PortType, port_from_record(d) # Refused
  PROVE  /\ port_from_record(d) \in PortEntry
         /\ port_to_record(port_from_record(d)) = SaidPort(d)
         /\ sepol_port_key_extract(SaidPort(d)) \in PortKeys
         /\ \A k \in PortKeys :
               k = sepol_port_key_extract(SaidPort(d))
                  <=> port_from_record(d).key = PortEntryKey(k)
<1> DEFINE low == Narrow(d.low, PortLimit)
           high == Narrow(d.high, PortLimit)
           ip == sepol2ipproto(d.proto)
           c == context_from_record(d.con)
           e == port_from_record(d)
<1>1. d.low \in Int /\ d.high \in Int /\ d.proto \in Int /\ d.con \in ContextType
  BY DEF PortType
<1>2. low \in Int /\ high \in Int
  BY <1>1, LimitsPositive, Narrowed
<1>3. /\ e = [key |-> [protocol |-> ip, low |-> low, high |-> high], con |-> c]
      /\ ~(ip < 0) /\ c # Refused
  BY DEF port_from_record, Entry
<1>4. d.proto \in 0 .. 3
  <2>1. d.proto \in Int
    BY <1>1
  <2>2. CASE d.proto + 1 \in DOMAIN IpProto
    BY <2>1, <2>2 DEF IpProto
  <2>3. CASE d.proto + 1 \notin DOMAIN IpProto
    BY <1>3, <2>3 DEF sepol2ipproto
  <2> QED
    BY <2>2, <2>3
<1>5. ip \in {IpProto[i] : i \in DOMAIN IpProto} /\ ipproto2sepol(ip) = d.proto
  BY <1>4, Protocols
<1>6. c \in StoredContext /\ context_to_record(c) = SaidContext(d.con)
  BY <1>1, <1>3, ContextAccepted
<1>7. SaidPort(d) = [low |-> low, high |-> high, proto |-> d.proto, con |-> SaidContext(d.con)]
  BY SaidPortIs
<1>8. port_to_record(e) = [low |-> e.key.low, high |-> e.key.high,
                           proto |-> ipproto2sepol(e.key.protocol),
                           con |-> context_to_record(e.con)]
  BY PortRecordIs
<1> HIDE DEF low, high, ip, c, e
<1>9. e \in PortEntry
  BY <1>2, <1>3, <1>5, <1>6 DEF PortEntry, EntryOf
<1>10. port_to_record(e) = SaidPort(d)
  BY <1>3, <1>5, <1>6, <1>7, <1>8
<1>11. sepol_port_key_extract(SaidPort(d)) = [low |-> low, high |-> high, proto |-> d.proto]
  BY <1>7 DEF sepol_port_key_extract, sepol_port_key_create
<1>12. ASSUME NEW k \in PortKeys
       PROVE  k = sepol_port_key_extract(SaidPort(d)) <=> e.key = PortEntryKey(k)
  <2>1. k = [low |-> k.low, high |-> k.high, proto |-> k.proto] /\ k.proto \in 0 .. 3
    BY DEF PortKeys
  <2>2. sepol2ipproto(k.proto) = ip <=> k.proto = d.proto
    BY <1>4, <2>1, Protocols DEF ip
  <2>3. PortEntryKey(k) = [protocol |-> sepol2ipproto(k.proto), low |-> k.low, high |-> k.high]
    BY DEF PortEntryKey
  <2>4. e.key = PortEntryKey(k) <=> k.proto = d.proto /\ k.low = low /\ k.high = high
    BY <1>3, <2>2, <2>3
  <2> QED
    BY <1>11, <2>1, <2>4
<1> QED
  BY <1>2, <1>4, <1>9, <1>10, <1>11, <1>12 DEF e, PortKeys

LEMMA PortsKept ==
  ASSUME PortsOK, NamesKept, ocon'.port = ocon.port, last'.port = last.port
  PROVE  PortsOK'
<1> DEFINE list == ocon.port
<1>1. list \in Seq(PortEntry) /\ Len(list) \in Nat /\ DOMAIN list = 1 .. Len(list)
  BY DEF PortsOK
<1>2. /\ list \in Seq(PortEntry')
      /\ \A i \in 1 .. Len(list) :
             context_to_record(list[i].con)' = context_to_record(list[i].con)
  BY <1>1, EntriesKept DEF PortEntry
<1>3. \A i \in 1 .. Len(list) : PortRecords'[i] = PortRecords[i]
  <2> TAKE i \in 1 .. Len(list)
  <2>1. PortRecords'[i] = port_to_record(list[i])'
    BY <1>1 DEF PortRecords
  <2>2. PortRecords[i] = port_to_record(list[i])
    BY <1>1 DEF PortRecords
  <2> QED
    BY <1>2, <2>1, <2>2, PortRecordIs, PortRecordNext
<1>4. ASSUME NEW k \in PortKeys
      PROVE  Expects(last.port, k, list, PortEntryKey(k), PortRecords')
  <2>1. Expects(last.port, k, list, PortEntryKey(k), PortRecords)
    BY DEF PortsOK
  <2> HIDE DEF list
  <2> QED
    BY <1>1, <1>3, <2>1, SameExpected
<1> QED
  BY <1>2, <1>4 DEF PortsOK

-----------------------------------------------------------------------------
(***************************************************************************)
(* What a call changes, whatever it is about.                              *)
(***************************************************************************)
LEMMA AttachStep ==
  ASSUME Shapes, NEW list \in Lists, NEW e, Attach(list, e)
  PROVE  /\ ocon' = [x \in Lists |-> ocon'[x]]
         /\ \A x \in Lists \ {list} : ocon'[x] = ocon[x]
         /\ ocon'[list] = IF e = Refused THEN ocon[list] ELSE <<e>> \o ocon[list]
  BY DEF Shapes, Attach

LEMMA ExpectStep ==
  ASSUME Shapes, NEW kind \in Kinds, NEW ok, NEW key, NEW record, Expect(kind, ok, key, record)
  PROVE  /\ last' = [x \in Kinds |-> last'[x]]
         /\ \A x \in Kinds \ {kind} : last'[x] = last[x]
         /\ last'[kind] = IF ok THEN Put(last[kind], key, record) ELSE last[kind]
  BY DEF Shapes, Expect

LEMMA PutIs ==
  ASSUME NEW f, NEW k, NEW v
  PROVE  /\ DOMAIN Put(f, k, v) = DOMAIN f \cup {k}
         /\ Put(f, k, v)[k] = v
         /\ \A x \in DOMAIN f : x # k => Put(f, k, v)[x] = f[x]
  BY DEF Put

\* As long as the users do not change, neither does what a context says.
LEMMA UsersSame ==
  ASSUME mls' = mls, users' = users
  PROVE  /\ NamesKept /\ StoredContext' = StoredContext
         /\ \A x : context_to_record(x)' = context_to_record(x)
         /\ \A keys : EntryOf(keys)' = EntryOf(keys)
<1>1. NamesKept
  BY DEF NamesKept
<1>2. StoredContext' = StoredContext
  BY DEF StoredContext
<1>3. \A x : context_to_record(x)' = context_to_record(x)
  BY DEF context_to_record, mls_to_string
<1>4. \A keys : EntryOf(keys)' = EntryOf(keys)
  BY <1>2 DEF EntryOf
<1> QED
  BY <1>1, <1>2, <1>3, <1>4

LEMMA PortsModified ==
  ASSUME Shapes, PortsOK, UsersTyped, NEW d \in PortType, sepol_port_modify(d)
  PROVE  PortsOK'
<1>1. PICK e : /\ e = port_from_record(d)
               /\ Attach("port", e)
               /\ Expect("port", e # Refused, sepol_port_key_extract(SaidPort(d)), SaidPort(d))
               /\ mls' = mls /\ users' = users
  BY DEF sepol_port_modify, Called
<1> DEFINE said == SaidPort(d)
           own == sepol_port_key_extract(said)
<1> HIDE DEF said, own
<1>2. /\ ocon'.port = IF e = Refused THEN ocon.port ELSE <<e>> \o ocon.port
      /\ last'.port = IF e # Refused THEN Put(last.port, own, said) ELSE last.port
  <2>1. "port" \in Lists /\ "port" \in Kinds
    BY DEF Lists, Kinds
  <2>2. ocon'.port = IF e = Refused THEN ocon.port ELSE <<e>> \o ocon.port
    BY <1>1, <2>1, AttachStep
  <2>3. last'.port = IF e # Refused THEN Put(last.port, own, said) ELSE last.port
    BY <1>1, <2>1, ExpectStep DEF own, said
  <2> QED
    BY <2>2, <2>3
<1>3. CASE e = Refused
  BY <1>1, <1>2, <1>3, UsersSame, PortsKept
<1>4. CASE e # Refused
  <2>1. /\ e \in PortEntry /\ port_to_record(e) = said /\ own \in PortKeys
        /\ \A k \in PortKeys : k = own <=> e.key = PortEntryKey(k)
    BY <1>1, <1>4, PortAccepted DEF own, said
  <2>2. PICK list : list = ocon.port /\ list \in Seq(PortEntry) /\ Len(list) \in Nat
    BY DEF PortsOK
  <2>3. PICK new : new = PortRecords'
    OBVIOUS
  <2>4. ocon'.port = <<e>> \o list
    BY <1>2, <1>4, <2>2
  <2>5. /\ <<e>> \o list \in Seq(PortEntry) /\ DOMAIN (<<e>> \o list) = 1 .. Len(list) + 1
        /\ (<<e>> \o list)[1] = e
        /\ \A i \in 1 .. Len(list) : (<<e>> \o list)[i + 1] = list[i]
    BY <2>1, <2>2, AttachIs
  <2>6. \A x : port_to_record(x)' = port_to_record(x)
    BY <1>1, UsersSame, PortRecordIs, PortRecordNext
  <2>7. \A i \in 1 .. Len(list) + 1 : new[i] = port_to_record((<<e>> \o list)[i])
    BY <2>3, <2>4, <2>5, <2>6 DEF PortRecords
  <2>8. new[1] = said /\ \A i \in 1 .. Len(list) : new[i + 1] = PortRecords[i]
    <3>1. \A i \in 1 .. Len(list) : PortRecords[i] = port_to_record(list[i])
      BY <2>2 DEF PortRecords
    <3>2. new[1] = said
      BY <2>1, <2>2, <2>5, <2>7
    <3>3. ASSUME NEW i \in 1 .. Len(list) PROVE new[i + 1] = PortRecords[i]
      <4>1. i + 1 \in 1 .. Len(list) + 1
        BY <2>2
      <4> QED
        BY <2>5, <2>7, <3>1, <4>1
    <3> QED
      BY <3>2, <3>3
  <2>9. ASSUME NEW k \in PortKeys
        PROVE  Expects(Put(last.port, own, said), k, <<e>> \o list, PortEntryKey(k), new)
    <3>1. PICK f, key, records : f = last.port /\ key = PortEntryKey(k) /\ records = PortRecords
      OBVIOUS
    <3>2. Expects(f, k, list, key, records)
      BY <2>2, <3>1 DEF PortsOK
    <3>3. k = own <=> e.key = key
      BY <2>1, <3>1
    <3>4. new[1] = said /\ \A i \in 1 .. Len(list) : new[i + 1] = records[i]
      BY <2>8, <3>1
    <3>5. Expects(Put(f, own, said), k, <<e>> \o list, key, new)
      BY <2>1, <2>2, <3>2, <3>3, <3>4, AttachExpected
    <3> QED
      BY <3>1, <3>5
  <2>10. PortEntry' = PortEntry
    BY <1>1, UsersSame DEF PortEntry
  <2>11. DOMAIN Put(last.port, own, said) \subseteq PortKeys
    BY <2>1 DEF Put, PortsOK
  <2> QED
    BY <1>2, <1>4, <2>3, <2>4, <2>5, <2>9, <2>10, <2>11 DEF PortsOK
<1> QED
  BY <1>3, <1>4

-----------------------------------------------------------------------------
(***************************************************************************)
(* InfiniBand keys.                                                        *)
(***************************************************************************)
LEMMA IbpkeyCloned ==
  ASSUME NEW d \in IbpkeyType
  PROVE  sepol_ibpkey_clone(d) = d
<1> DEFINE x == sepol_ibpkey_create
           a == [x EXCEPT !.subnet_prefix = d.subnet_prefix]
           b == [a EXCEPT !.low = d.low]
           c == [b EXCEPT !.high = d.high]
<1>1. d = [subnet_prefix |-> d.subnet_prefix, low |-> d.low, high |-> d.high, con |-> d.con]
      /\ d.con \in ContextType
  BY DEF IbpkeyType
<1>2. x = [subnet_prefix |-> 0, low |-> 0, high |-> 0, con |-> NULL]
  BY DEF sepol_ibpkey_create
<1>3. sepol_ibpkey_clone(d) = [c EXCEPT !.con = sepol_context_clone(d.con)]
  BY Zenon DEF sepol_ibpkey_clone
<1>4. sepol_context_clone(d.con) = d.con
  BY <1>1, TypedClone
<1> HIDE DEF x
<1>5. a = [subnet_prefix |-> d.subnet_prefix, low |-> 0, high |-> 0, con |-> NULL]
  BY <1>2
<1> HIDE DEF a
<1>6. b = [subnet_prefix |-> d.subnet_prefix, low |-> d.low, high |-> 0, con |-> NULL]
  BY <1>5
<1> HIDE DEF b
<1>7. c = [subnet_prefix |-> d.subnet_prefix, low |-> d.low, high |-> d.high, con |-> NULL]
  BY <1>6
<1> HIDE DEF c
<1> QED
  BY <1>1, <1>3, <1>4, <1>7

LEMMA SaidIbpkeyIs ==
  ASSUME NEW d \in IbpkeyType
  PROVE  SaidPort(d) = [subnet_prefix |-> d.subnet_prefix, low |-> Narrow(d.low, PortLimit),
                        high |-> Narrow(d.high, PortLimit), con |-> SaidContext(d.con)]
<1>1. d = [subnet_prefix |-> d.subnet_prefix, low |-> d.low, high |-> d.high, con |-> d.con]
  BY DEF IbpkeyType
<1> DEFINE a == [d EXCEPT !.low = Narrow(@, PortLimit)]
           b == [a EXCEPT !.high = Narrow(@, PortLimit)]
<1>2. SaidPort(d) = [b EXCEPT !.con = SaidContext(@)]
  BY Zenon DEF SaidPort
<1>3. a = [subnet_prefix |-> d.subnet_prefix, low |-> Narrow(d.low, PortLimit),
           high |-> d.high, con |-> d.con]
  BY <1>1
<1> HIDE DEF a
<1>4. b = [subnet_prefix |-> d.subnet_prefix, low |-> Narrow(d.low, PortLimit),
           high |-> Narrow(d.high, PortLimit), con |-> d.con]
  BY <1>3
<1> HIDE DEF b
<1> QED
  BY <1>2, <1>4

LEMMA IbpkeyRecordIs ==
  ASSUME NEW e
  PROVE  ibpkey_to_record(e) = [subnet_prefix |-> e.key.subnet_prefix, low |-> e.key.low,
                                high |-> e.key.high, con |-> context_to_record(e.con)]
<1> DEFINE a == [sepol_ibpkey_create EXCEPT !.subnet_prefix = e.key.subnet_prefix]
           l == [a EXCEPT !.low = e.key.low]
           b == sepol_ibpkey_set_range(a, e.key.low, e.key.high)
           c == context_to_record(e.con)
<1>1. a = [subnet_prefix |-> e.key.subnet_prefix, low |-> 0, high |-> 0, con |-> NULL]
  BY DEF sepol_ibpkey_create
<1>2. b = [l EXCEPT !.high = e.key.high]
  BY Zenon DEF sepol_ibpkey_set_range
<1>3. ibpkey_to_record(e) = [b EXCEPT !.con = sepol_context_clone(c)]
  BY Zenon DEF ibpkey_to_record, sepol_ibpkey_set_con
<1>4. sepol_context_clone(c) = c
  BY RecordShaped
<1> HIDE DEF a, b, c
<1>5. l = [subnet_prefix |-> e.key.subnet_prefix, low |-> e.key.low, high |-> 0, con |-> NULL]
  BY <1>1
<1> HIDE DEF l
<1>6. b = [subnet_prefix |-> e.key.subnet_prefix, low |-> e.key.low, high |-> e.key.high,
           con |-> NULL]
  BY <1>2, <1>5
<1> QED
  BY <1>3, <1>4, <1>6 DEF c

LEMMA IbpkeyRecordNext ==
  ASSUME NEW e
  PROVE  ibpkey_to_record(e)' = [subnet_prefix |-> e.key.subnet_prefix, low |-> e.key.low,
                                 high |-> e.key.high, con |-> context_to_record(e.con)']
<1>1. ibpkey_to_record(e) = [subnet_prefix |-> e.key.subnet_prefix, low |-> e.key.low,
                             high |-> e.key.high, con |-> context_to_record(e.con)]
  BY IbpkeyRecordIs
<1>2. (ibpkey_to_record(e) = [subnet_prefix |-> e.key.subnet_prefix, low |-> e.key.low,
                              high |-> e.key.high, con |-> context_to_record(e.con)])'
  BY <1>1, PTL
<1> QED
  BY <1>2

\* The key made from the printed prefix is the key of the record.
LEMMA IbpkeyKeyIs ==
  ASSUME NEW d, d.subnet_prefix \in Prefixes
  PROVE  sepol_ibpkey_key_extract(d)
            = [subnet_prefix |-> d.subnet_prefix, low |-> d.low, high |-> d.high]
<1>1. PICK s \in DOMAIN ParsePrefix : d.subnet_prefix = ParsePrefix[s]
  BY DEF Prefixes
<1>2. /\ PrintPrefix[ParsePrefix[s]] \in DOMAIN ParsePrefix
      /\ ParsePrefix[PrintPrefix[ParsePrefix[s]]] = ParsePrefix[s]
  BY PrintedParsesBack
<1> QED
  BY <1>1, <1>2 DEF sepol_ibpkey_key_extract, sepol_ibpkey_key_create,
                    ibpkey_expand_subnet_prefix, ibpkey_parse_subnet_prefix

LEMMA IbpkeyAccepted ==
  ASSUME UsersTyped, NEW d \in IbpkeyType, ibpkey_from_record(d) # Refused
  PROVE  /\ ibpkey_from_record(d) \in EntryOf(IbpkeyKeys)
         /\ ibpkey_to_record(ibpkey_from_record(d)) = SaidPort(d)
         /\ sepol_ibpkey_key_extract(SaidPort(d)) = ibpkey_from_record(d).key
<1> DEFINE low == Narrow(d.low, PortLimit)
           high == Narrow(d.high, PortLimit)
           c == context_from_record(d.con)
           e == ibpkey_from_record(d)
<1>1. d.low \in Int /\ d.high \in Int /\ d.subnet_prefix \in Prefixes /\ d.con \in ContextType
  BY DEF IbpkeyType
<1>2. low \in Int /\ high \in Int
  BY <1>1, LimitsPositive, Narrowed
<1>3. /\ e = [key |-> [subnet_prefix |-> d.subnet_prefix, low |-> low, high |-> high],
              con |-> c]
      /\ c # Refused
  BY DEF ibpkey_from_record, Entry
<1>4. c \in StoredContext /\ context_to_record(c) = SaidContext(d.con)
  BY <1>1, <1>3, ContextAccepted
<1>5. SaidPort(d) = [subnet_prefix |-> d.subnet_prefix, low |-> low, high |-> high,
                     con |-> SaidContext(d.con)]
  BY SaidIbpkeyIs
<1>6. ibpkey_to_record(e) = [subnet_prefix |-> e.key.subnet_prefix, low |-> e.key.low,
                             high |-> e.key.high, con |-> context_to_record(e.con)]
  BY IbpkeyRecordIs
<1> HIDE DEF low, high, c, e
<1>7. e \in EntryOf(IbpkeyKeys)
  BY <1>1, <1>2, <1>3, <1>4 DEF EntryOf, IbpkeyKeys
<1>8. ibpkey_to_record(e) = SaidPort(d)
  BY <1>3, <1>4, <1>5, <1>6
<1>9. sepol_ibpkey_key_extract(SaidPort(d)) = e.key
  BY <1>1, <1>3, <1>5, IbpkeyKeyIs
<1> QED
  BY <1>7, <1>8, <1>9 DEF e

LEMMA IbpkeysKept ==
  ASSUME IbpkeysOK, NamesKept, ocon'.ibpkey = ocon.ibpkey, last'.ibpkey = last.ibpkey
  PROVE  IbpkeysOK'
<1> DEFINE list == ocon.ibpkey
<1>1. list \in Seq(EntryOf(IbpkeyKeys)) /\ Len(list) \in Nat /\ DOMAIN list = 1 .. Len(list)
  BY DEF IbpkeysOK
<1>2. /\ list \in Seq(EntryOf(IbpkeyKeys)')
      /\ \A i \in 1 .. Len(list) :
             context_to_record(list[i].con)' = context_to_record(list[i].con)
  BY <1>1, EntriesKept
<1>3. \A i \in 1 .. Len(list) : IbpkeyRecords'[i] = IbpkeyRecords[i]
  <2> TAKE i \in 1 .. Len(list)
  <2>1. IbpkeyRecords'[i] = ibpkey_to_record(list[i])'
    BY <1>1 DEF IbpkeyRecords
  <2>2. IbpkeyRecords[i] = ibpkey_to_record(list[i])
    BY <1>1 DEF IbpkeyRecords
  <2> QED
    BY <1>2, <2>1, <2>2, IbpkeyRecordIs, IbpkeyRecordNext
<1>4. ASSUME NEW k \in IbpkeyKeys
      PROVE  Expects(last.ibpkey, k, list, k, IbpkeyRecords')
  <2>1. Expects(last.ibpkey, k, list, k, IbpkeyRecords)
    BY DEF IbpkeysOK
  <2> HIDE DEF list
  <2> QED
    BY <1>1, <1>3, <2>1, SameExpected
<1> QED
  BY <1>2, <1>4 DEF IbpkeysOK

LEMMA IbpkeysModified ==
  ASSUME Shapes, IbpkeysOK, UsersTyped, NEW d \in IbpkeyType, sepol_ibpkey_modify(d)
  PROVE  IbpkeysOK'
<1>1. PICK e : /\ e = ibpkey_from_record(d)
               /\ Attach("ibpkey", e)
               /\ Expect("ibpkey", e # Refused, sepol_ibpkey_key_extract(SaidPort(d)),
                         SaidPort(d))
               /\ mls' = mls /\ users' = users
  BY DEF sepol_ibpkey_modify, Called
<1> DEFINE said == SaidPort(d)
           own == sepol_ibpkey_key_extract(said)
<1> HIDE DEF said, own
<1>2. /\ ocon'.ibpkey = IF e = Refused THEN ocon.ibpkey ELSE <<e>> \o ocon.ibpkey
      /\ last'.ibpkey = IF e # Refused THEN Put(last.ibpkey, own, said) ELSE last.ibpkey
  <2>1. "ibpkey" \in Lists /\ "ibpkey" \in Kinds
    BY DEF Lists, Kinds
  <2>2. ocon'.ibpkey = IF e = Refused THEN ocon.ibpkey ELSE <<e>> \o ocon.ibpkey
    BY <1>1, <2>1, AttachStep
  <2>3. last'.ibpkey = IF e # Refused THEN Put(last.ibpkey, own, said) ELSE last.ibpkey
    BY <1>1, <2>1, ExpectStep DEF own, said
  <2> QED
    BY <2>2, <2>3
<1>3. CASE e = Refused
  BY <1>1, <1>2, <1>3, UsersSame, IbpkeysKept
<1>4. CASE e # Refused
  <2>1. /\ e \in EntryOf(IbpkeyKeys) /\ ibpkey_to_record(e) = said /\ own \in IbpkeyKeys
        /\ \A k \in IbpkeyKeys : k = own <=> e.key = k
    <3>1. e \in EntryOf(IbpkeyKeys) /\ ibpkey_to_record(e) = said /\ own = e.key
      BY <1>1, <1>4, IbpkeyAccepted DEF own, said
    <3> QED
      BY <3>1 DEF EntryOf
  <2>2. PICK list : list = ocon.ibpkey /\ list \in Seq(EntryOf(IbpkeyKeys))
                    /\ Len(list) \in Nat
    BY DEF IbpkeysOK
  <2>3. PICK new : new = IbpkeyRecords'
    OBVIOUS
  <2>4. ocon'.ibpkey = <<e>> \o list
    BY <1>2, <1>4, <2>2
  <2>5. /\ <<e>> \o list \in Seq(EntryOf(IbpkeyKeys))
        /\ DOMAIN (<<e>> \o list) = 1 .. Len(list) + 1
        /\ (<<e>> \o list)[1] = e
        /\ \A i \in 1 .. Len(list) : (<<e>> \o list)[i + 1] = list[i]
    BY <2>1, <2>2, AttachIs
  <2>6. \A x : ibpkey_to_record(x)' = ibpkey_to_record(x)
    BY <1>1, UsersSame, IbpkeyRecordIs, IbpkeyRecordNext
  <2>7. \A i \in 1 .. Len(list) + 1 : new[i] = ibpkey_to_record((<<e>> \o list)[i])
    BY <2>3, <2>4, <2>5, <2>6 DEF IbpkeyRecords
  <2>8. new[1] = said /\ \A i \in 1 .. Len(list) : new[i + 1] = IbpkeyRecords[i]
    <3>1. \A i \in 1 .. Len(list) : IbpkeyRecords[i] = ibpkey_to_record(list[i])
      BY <2>2 DEF IbpkeyRecords
    <3>2. new[1] = said
      BY <2>1, <2>2, <2>5, <2>7
    <3>3. ASSUME NEW i \in 1 .. Len(list) PROVE new[i + 1] = IbpkeyRecords[i]
      <4>1. i + 1 \in 1 .. Len(list) + 1
        BY <2>2
      <4> QED
        BY <2>5, <2>7, <3>1, <4>1
    <3> QED
      BY <3>2, <3>3
  <2>9. ASSUME NEW k \in IbpkeyKeys
        PROVE  Expects(Put(last.ibpkey, own, said), k, <<e>> \o list, k, new)
    <3>1. PICK f, key, records : f = last.ibpkey /\ key = k /\ records = IbpkeyRecords
      OBVIOUS
    <3>2. Expects(f, k, list, key, records)
      BY <2>2, <3>1 DEF IbpkeysOK
    <3>3. k = own <=> e.key = key
      BY <2>1, <3>1
    <3>4. new[1] = said /\ \A i \in 1 .. Len(list) : new[i + 1] = records[i]
      BY <2>8, <3>1
    <3>5. Expects(Put(f, own, said), k, <<e>> \o list, key, new)
      BY <2>1, <2>2, <3>2, <3>3, <3>4, AttachExpected
    <3> QED
      BY <3>1, <3>5
  <2>10. EntryOf(IbpkeyKeys)' = EntryOf(IbpkeyKeys)
    BY <1>1, UsersSame
  <2>11. DOMAIN Put(last.ibpkey, own, said) \subseteq IbpkeyKeys
    BY <2>1 DEF Put, IbpkeysOK
  <2> QED
    BY <1>2, <1>4, <2>3, <2>4, <2>5, <2>9, <2>10, <2>11 DEF IbpkeysOK
<1> QED
  BY <1>3, <1>4

-----------------------------------------------------------------------------
(***************************************************************************)
(* InfiniBand end ports.  A name that was cut is not cut again.            *)
(***************************************************************************)
LEMMA CutAgain ==
  ASSUME NEW n \in CutNames
  PROVE  Cut[n] = n
  BY CutOnce DEF CutNames

LEMMA IbendportCloned ==
  ASSUME NEW d \in IbendportType
  PROVE  sepol_ibendport_clone(d) = d
<1> DEFINE x == sepol_ibendport_create
           a == [x EXCEPT !.ibdev_name = Cut[d.ibdev_name]]
           b == [a EXCEPT !.port = d.port]
<1>1. d = [ibdev_name |-> d.ibdev_name, port |-> d.port, con |-> d.con]
      /\ d.con \in ContextType /\ d.ibdev_name \in CutNames
  BY DEF IbendportType
<1>2. x = [ibdev_name |-> NULL, port |-> 0, con |-> NULL]
  BY DEF sepol_ibendport_create
<1>3. sepol_ibendport_clone(d) = [b EXCEPT !.con = sepol_context_clone(d.con)]
  BY Zenon DEF sepol_ibendport_clone
<1>4. sepol_context_clone(d.con) = d.con /\ Cut[d.ibdev_name] = d.ibdev_name
  BY <1>1, TypedClone, CutAgain
<1> HIDE DEF x
<1>5. a = [ibdev_name |-> d.ibdev_name, port |-> 0, con |-> NULL]
  BY <1>2, <1>4
<1> HIDE DEF a
<1>6. b = [ibdev_name |-> d.ibdev_name, port |-> d.port, con |-> NULL]
  BY <1>5
<1> HIDE DEF b
<1> QED
  BY <1>1, <1>3, <1>4, <1>6

LEMMA SaidIbendportIs ==
  ASSUME NEW d \in IbendportType
  PROVE  SaidIbendport(d) = [ibdev_name |-> d.ibdev_name, port |-> Narrow(d.port, EndportLimit),
                             con |-> SaidContext(d.con)]
<1>1. d = [ibdev_name |-> d.ibdev_name, port |-> d.port, con |-> d.con]
  BY DEF IbendportType
<1> DEFINE a == [d EXCEPT !.port = Narrow(@, EndportLimit)]
<1>2. SaidIbendport(d) = [a EXCEPT !.con = SaidContext(@)]
  BY Zenon DEF SaidIbendport
<1>3. a = [ibdev_name |-> d.ibdev_name, port |-> Narrow(d.port, EndportLimit), con |-> d.con]
  BY <1>1
<1> HIDE DEF a
<1> QED
  BY <1>2, <1>3

LEMMA IbendportRecordIs ==
  ASSUME NEW e
  PROVE  ibendport_to_record(e) = [ibdev_name |-> Cut[e.key.ibdev_name], port |-> e.key.port,
                                   con |-> context_to_record(e.con)]
<1> DEFINE a == sepol_ibendport_set_ibdev_name(sepol_ibendport_create, e.key.ibdev_name)
           b == sepol_ibendport_set_port(a, e.key.port)
           c == context_to_record(e.con)
<1>1. a = [ibdev_name |-> Cut[e.key.ibdev_name], port |-> 0, con |-> NULL]
  BY DEF sepol_ibendport_create, sepol_ibendport_set_ibdev_name
<1>2. b = [a EXCEPT !.port = e.key.port]
  BY Zenon DEF sepol_ibendport_set_port
<1>3. ibendport_to_record(e) = [b EXCEPT !.con = sepol_context_clone(c)]
  BY Zenon DEF ibendport_to_record, sepol_ibendport_set_con
<1>4. sepol_context_clone(c) = c
  BY RecordShaped
<1> HIDE DEF a, b, c
<1>5. b = [ibdev_name |-> Cut[e.key.ibdev_name], port |-> e.key.port, con |-> NULL]
  BY <1>1, <1>2
<1> QED
  BY <1>3, <1>4, <1>5 DEF c

LEMMA IbendportRecordNext ==
  ASSUME NEW e
  PROVE  ibendport_to_record(e)' = [ibdev_name |-> Cut[e.key.ibdev_name], port |-> e.key.port,
                                    con |-> context_to_record(e.con)']
<1>1. ibendport_to_record(e) = [ibdev_name |-> Cut[e.key.ibdev_name], port |-> e.key.port,
                                con |-> context_to_record(e.con)]
  BY IbendportRecordIs
<1>2. (ibendport_to_record(e) = [ibdev_name |-> Cut[e.key.ibdev_name], port |-> e.key.port,
                                 con |-> context_to_record(e.con)])'
  BY <1>1, PTL
<1> QED
  BY <1>2

LEMMA IbendportAccepted ==
  ASSUME UsersTyped, NEW d \in IbendportType, ibendport_from_record(d) # Refused
  PROVE  /\ ibendport_from_record(d) \in EntryOf(IbendportKeys)
         /\ ibendport_to_record(ibendport_from_record(d)) = SaidIbendport(d)
         /\ sepol_ibendport_key_extract(SaidIbendport(d)) = ibendport_from_record(d).key
<1> DEFINE port == Narrow(d.port, EndportLimit)
           name == d.ibdev_name
           c == context_from_record(d.con)
           e == ibendport_from_record(d)
<1>1. d.port \in Int /\ name \in CutNames /\ d.con \in ContextType
  BY DEF IbendportType
<1>2. port \in Int /\ Cut[name] = name
  BY <1>1, LimitsPositive, Narrowed, CutAgain
<1>3. e = [key |-> [ibdev_name |-> Cut[name], port |-> port], con |-> c] /\ c # Refused
  BY DEF ibendport_from_record, sepol_ibendport_get_ibdev_name, Entry
<1>4. c \in StoredContext /\ context_to_record(c) = SaidContext(d.con)
  BY <1>1, <1>3, ContextAccepted
<1>5. SaidIbendport(d) = [ibdev_name |-> name, port |-> port, con |-> SaidContext(d.con)]
  BY SaidIbendportIs
<1>6. ibendport_to_record(e) = [ibdev_name |-> Cut[e.key.ibdev_name], port |-> e.key.port,
                                con |-> context_to_record(e.con)]
  BY IbendportRecordIs
<1> HIDE DEF port, name, c, e
<1>7. e \in EntryOf(IbendportKeys)
  BY <1>1, <1>2, <1>3, <1>4 DEF EntryOf, IbendportKeys
<1>8. ibendport_to_record(e) = SaidIbendport(d)
  BY <1>2, <1>3, <1>4, <1>5, <1>6
<1>9. sepol_ibendport_key_extract(SaidIbendport(d)) = e.key
  BY <1>2, <1>3, <1>5 DEF sepol_ibendport_key_extract, sepol_ibendport_key_create
<1> QED
  BY <1>7, <1>8, <1>9 DEF e

LEMMA IbendportsKept ==
  ASSUME IbendportsOK, NamesKept, ocon'.ibendport = ocon.ibendport, last'.ibendport = last.ibendport
  PROVE  IbendportsOK'
<1> DEFINE list == ocon.ibendport
<1>1. list \in Seq(EntryOf(IbendportKeys)) /\ Len(list) \in Nat /\ DOMAIN list = 1 .. Len(list)
  BY DEF IbendportsOK
<1>2. /\ list \in Seq(EntryOf(IbendportKeys)')
      /\ \A i \in 1 .. Len(list) :
             context_to_record(list[i].con)' = context_to_record(list[i].con)
  BY <1>1, EntriesKept
<1>3. \A i \in 1 .. Len(list) : IbendportRecords'[i] = IbendportRecords[i]
  <2> TAKE i \in 1 .. Len(list)
  <2>1. IbendportRecords'[i] = ibendport_to_record(list[i])'
    BY <1>1 DEF IbendportRecords
  <2>2. IbendportRecords[i] = ibendport_to_record(list[i])
    BY <1>1 DEF IbendportRecords
  <2> QED
    BY <1>2, <2>1, <2>2, IbendportRecordIs, IbendportRecordNext
<1>4. ASSUME NEW k \in IbendportKeys
      PROVE  Expects(last.ibendport, k, list, k, IbendportRecords')
  <2>1. Expects(last.ibendport, k, list, k, IbendportRecords)
    BY DEF IbendportsOK
  <2> HIDE DEF list
  <2> QED
    BY <1>1, <1>3, <2>1, SameExpected
<1> QED
  BY <1>2, <1>4 DEF IbendportsOK

LEMMA IbendportsModified ==
  ASSUME Shapes, IbendportsOK, UsersTyped, NEW d \in IbendportType, sepol_ibendport_modify(d)
  PROVE  IbendportsOK'
<1>1. PICK e : /\ e = ibendport_from_record(d)
               /\ Attach("ibendport", e)
               /\ Expect("ibendport", e # Refused, sepol_ibendport_key_extract(SaidIbendport(d)),
                         SaidIbendport(d))
               /\ mls' = mls /\ users' = users
  BY DEF sepol_ibendport_modify, Called
<1> DEFINE said == SaidIbendport(d)
           own == sepol_ibendport_key_extract(said)
<1> HIDE DEF said, own
<1>2. /\ ocon'.ibendport = IF e = Refused THEN ocon.ibendport ELSE <<e>> \o ocon.ibendport
      /\ last'.ibendport = IF e # Refused THEN Put(last.ibendport, own, said) ELSE last.ibendport
  <2>1. "ibendport" \in Lists /\ "ibendport" \in Kinds
    BY DEF Lists, Kinds
  <2>2. ocon'.ibendport = IF e = Refused THEN ocon.ibendport ELSE <<e>> \o ocon.ibendport
    BY <1>1, <2>1, AttachStep
  <2>3. last'.ibendport = IF e # Refused THEN Put(last.ibendport, own, said) ELSE last.ibendport
    BY <1>1, <2>1, ExpectStep DEF own, said
  <2> QED
    BY <2>2, <2>3
<1>3. CASE e = Refused
  BY <1>1, <1>2, <1>3, UsersSame, IbendportsKept
<1>4. CASE e # Refused
  <2>1. /\ e \in EntryOf(IbendportKeys) /\ ibendport_to_record(e) = said /\ own \in IbendportKeys
        /\ \A k \in IbendportKeys : k = own <=> e.key = k
    <3>1. e \in EntryOf(IbendportKeys) /\ ibendport_to_record(e) = said /\ own = e.key
      BY <1>1, <1>4, IbendportAccepted DEF own, said
    <3> QED
      BY <3>1 DEF EntryOf
  <2>2. PICK list : list = ocon.ibendport /\ list \in Seq(EntryOf(IbendportKeys))
                    /\ Len(list) \in Nat
    BY DEF IbendportsOK
  <2>3. PICK new : new = IbendportRecords'
    OBVIOUS
  <2>4. ocon'.ibendport = <<e>> \o list
    BY <1>2, <1>4, <2>2
  <2>5. /\ <<e>> \o list \in Seq(EntryOf(IbendportKeys))
        /\ DOMAIN (<<e>> \o list) = 1 .. Len(list) + 1
        /\ (<<e>> \o list)[1] = e
        /\ \A i \in 1 .. Len(list) : (<<e>> \o list)[i + 1] = list[i]
    BY <2>1, <2>2, AttachIs
  <2>6. \A x : ibendport_to_record(x)' = ibendport_to_record(x)
    BY <1>1, UsersSame, IbendportRecordIs, IbendportRecordNext
  <2>7. \A i \in 1 .. Len(list) + 1 : new[i] = ibendport_to_record((<<e>> \o list)[i])
    BY <2>3, <2>4, <2>5, <2>6 DEF IbendportRecords
  <2>8. new[1] = said /\ \A i \in 1 .. Len(list) : new[i + 1] = IbendportRecords[i]
    <3>1. \A i \in 1 .. Len(list) : IbendportRecords[i] = ibendport_to_record(list[i])
      BY <2>2 DEF IbendportRecords
    <3>2. new[1] = said
      BY <2>1, <2>2, <2>5, <2>7
    <3>3. ASSUME NEW i \in 1 .. Len(list) PROVE new[i + 1] = IbendportRecords[i]
      <4>1. i + 1 \in 1 .. Len(list) + 1
        BY <2>2
      <4> QED
        BY <2>5, <2>7, <3>1, <4>1
    <3> QED
      BY <3>2, <3>3
  <2>9. ASSUME NEW k \in IbendportKeys
        PROVE  Expects(Put(last.ibendport, own, said), k, <<e>> \o list, k, new)
    <3>1. PICK f, key, records : f = last.ibendport /\ key = k /\ records = IbendportRecords
      OBVIOUS
    <3>2. Expects(f, k, list, key, records)
      BY <2>2, <3>1 DEF IbendportsOK
    <3>3. k = own <=> e.key = key
      BY <2>1, <3>1
    <3>4. new[1] = said /\ \A i \in 1 .. Len(list) : new[i + 1] = records[i]
      BY <2>8, <3>1
    <3>5. Expects(Put(f, own, said), k, <<e>> \o list, key, new)
      BY <2>1, <2>2, <3>2, <3>3, <3>4, AttachExpected
    <3> QED
      BY <3>1, <3>5
  <2>10. EntryOf(IbendportKeys)' = EntryOf(IbendportKeys)
    BY <1>1, UsersSame
  <2>11. DOMAIN Put(last.ibendport, own, said) \subseteq IbendportKeys
    BY <2>1 DEF Put, IbendportsOK
  <2> QED
    BY <1>2, <1>4, <2>3, <2>4, <2>5, <2>9, <2>10, <2>11 DEF IbendportsOK
<1> QED
  BY <1>3, <1>4

-----------------------------------------------------------------------------
(***************************************************************************)
(* Nodes.                                                                  *)
(***************************************************************************)
LEMMA NodeParts ==
  ASSUME NEW p \in Protos, NEW d \in NodeTypeOf(p)
  PROVE  /\ d = [addr |-> d.addr, mask |-> d.mask, proto |-> d.proto, con |-> d.con]
         /\ d.addr \in Addresses(p) /\ d.mask \in Addresses(p) /\ d.proto = p
         /\ d.con \in ContextType
  BY DEF NodeTypeOf

LEMMA AddressIs ==
  ASSUME NEW p \in Protos, NEW a \in Addresses(p)
  PROVE  a = [sz |-> node_alloc_addr(p), bytes |-> a.bytes]
<1>1. PICK s \in DOMAIN ParseAddr[p] : a = node_parse_addr(s, p)
  BY DEF Addresses
<1>2. p \in DOMAIN ParseAddr
  BY PrintedParsesBack DEF Protos, SEPOL_PROTO_IP4, SEPOL_PROTO_IP6
<1> QED
  BY <1>1, <1>2 DEF node_parse_addr

LEMMA NodeCloned ==
  ASSUME NEW p \in Protos, NEW d \in NodeTypeOf(p)
  PROVE  sepol_node_clone(d) = d
<1> DEFINE x == sepol_node_create
           a == [x EXCEPT !.addr = d.addr]
           b == [a EXCEPT !.mask = d.mask]
           c == [b EXCEPT !.proto = d.proto]
<1>1. x = [addr |-> NULL, mask |-> NULL, proto |-> SEPOL_PROTO_IP4, con |-> NULL]
  BY DEF sepol_node_create
<1>2. sepol_node_clone(d) = [c EXCEPT !.con = sepol_context_clone(d.con)]
  BY Zenon DEF sepol_node_clone
<1>3. sepol_context_clone(d.con) = d.con
  BY NodeParts, TypedClone
<1> HIDE DEF x
<1>4. a = [addr |-> d.addr, mask |-> NULL, proto |-> SEPOL_PROTO_IP4, con |-> NULL]
  BY <1>1
<1> HIDE DEF a
<1>5. b = [addr |-> d.addr, mask |-> d.mask, proto |-> SEPOL_PROTO_IP4, con |-> NULL]
  BY <1>4
<1> HIDE DEF b
<1>6. c = [addr |-> d.addr, mask |-> d.mask, proto |-> d.proto, con |-> NULL]
  BY <1>5
<1> HIDE DEF c
<1> QED
  BY <1>2, <1>3, <1>6, NodeParts

LEMMA NodeRecordIs ==
  ASSUME NEW e, NEW p
  PROVE  node_to_record(e, p) = [addr |-> [sz |-> node_alloc_addr(p), bytes |-> e.key.addr],
                                 mask |-> [sz |-> node_alloc_addr(p), bytes |-> e.key.mask],
                                 proto |-> p, con |-> context_to_record(e.con)]
<1> DEFINE x == sepol_node_set_proto(sepol_node_create, p)
           addr == [sz |-> node_alloc_addr(p), bytes |-> e.key.addr]
           mask == [sz |-> node_alloc_addr(p), bytes |-> e.key.mask]
           a == [x EXCEPT !.addr = addr]
           b == [a EXCEPT !.mask = mask]
           c == context_to_record(e.con)
<1>1. x = [addr |-> NULL, mask |-> NULL, proto |-> p, con |-> NULL]
  BY DEF sepol_node_create, sepol_node_set_proto
<1>2. node_to_record(e, p) = [b EXCEPT !.con = sepol_context_clone(c)]
  BY Zenon DEF node_to_record, sepol_node_set_con
<1>3. sepol_context_clone(c) = c
  BY RecordShaped
<1> HIDE DEF x, addr, mask, c
<1>4. a = [addr |-> addr, mask |-> NULL, proto |-> p, con |-> NULL]
  BY <1>1
<1> HIDE DEF a
<1>5. b = [addr |-> addr, mask |-> mask, proto |-> p, con |-> NULL]
  BY <1>4
<1> HIDE DEF b
<1> QED
  BY <1>2, <1>3, <1>5 DEF c, addr, mask

LEMMA NodeRecordNext ==
  ASSUME NEW e, NEW p
  PROVE  node_to_record(e, p)' = [addr |-> [sz |-> node_alloc_addr(p), bytes |-> e.key.addr],
                                  mask |-> [sz |-> node_alloc_addr(p), bytes |-> e.key.mask],
                                  proto |-> p, con |-> context_to_record(e.con)']
<1>1. node_to_record(e, p) = [addr |-> [sz |-> node_alloc_addr(p), bytes |-> e.key.addr],
                              mask |-> [sz |-> node_alloc_addr(p), bytes |-> e.key.mask],
                              proto |-> p, con |-> context_to_record(e.con)]
  BY NodeRecordIs
<1>2. (node_to_record(e, p) = [addr |-> [sz |-> node_alloc_addr(p), bytes |-> e.key.addr],
                               mask |-> [sz |-> node_alloc_addr(p), bytes |-> e.key.mask],
                               proto |-> p, con |-> context_to_record(e.con)])'
  BY <1>1, PTL
<1> QED
  BY <1>2

LEMMA NodeKeyIs ==
  ASSUME NEW p \in Protos, NEW k \in NodeKeysOf(p)
  PROVE  /\ k = [addr |-> k.addr, mask |-> k.mask, proto |-> p]
         /\ k.addr = [sz |-> node_alloc_addr(p), bytes |-> k.addr.bytes]
         /\ k.mask = [sz |-> node_alloc_addr(p), bytes |-> k.mask.bytes]
<1>1. /\ k = [addr |-> k.addr, mask |-> k.mask, proto |-> p]
      /\ k.addr \in Addresses(p) /\ k.mask \in Addresses(p)
  BY DEF NodeKeysOf
<1> QED
  BY <1>1, AddressIs

LEMMA NodeAccepted ==
  ASSUME UsersTyped, NEW p \in Protos, NEW d \in NodeTypeOf(p), node_from_record(d) # Refused
  PROVE  /\ node_from_record(d) \in NodeEntry(p)
         /\ node_to_record(node_from_record(d), p) = SaidNode(d)
         /\ sepol_node_key_extract(d) \in NodeKeysOf(p)
         /\ \A k \in NodeKeysOf(p) :
               k = sepol_node_key_extract(d) <=> node_from_record(d).key = NodeEntryKey(k)
<1> DEFINE c == context_from_record(d.con)
           e == node_from_record(d)
<1>1. /\ d = [addr |-> d.addr, mask |-> d.mask, proto |-> p, con |-> d.con]
      /\ d.addr \in Addresses(p) /\ d.mask \in Addresses(p) /\ d.con \in ContextType
  BY NodeParts
<1>2. e = [key |-> [addr |-> d.addr.bytes, mask |-> d.mask.bytes], con |-> c] /\ c # Refused
  BY DEF node_from_record, NodeEntryKey, Entry
<1>3. c \in StoredContext /\ context_to_record(c) = SaidContext(d.con)
  BY <1>1, <1>2, ContextAccepted
<1>4. SaidNode(d) = [addr |-> d.addr, mask |-> d.mask, proto |-> p, con |-> SaidContext(d.con)]
  BY <1>1 DEF SaidNode
<1>5. node_to_record(e, p) = [addr |-> [sz |-> node_alloc_addr(p), bytes |-> e.key.addr],
                              mask |-> [sz |-> node_alloc_addr(p), bytes |-> e.key.mask],
                              proto |-> p, con |-> context_to_record(e.con)]
  BY NodeRecordIs
<1>6. /\ d.addr = [sz |-> node_alloc_addr(p), bytes |-> d.addr.bytes]
      /\ d.mask = [sz |-> node_alloc_addr(p), bytes |-> d.mask.bytes]
  BY <1>1, AddressIs
<1> HIDE DEF c, e
<1>7. e \in NodeEntry(p)
  BY <1>1, <1>2, <1>3 DEF NodeEntry, EntryOf
<1>8. node_to_record(e, p) = SaidNode(d)
  BY <1>2, <1>3, <1>4, <1>5, <1>6
<1>9. sepol_node_key_extract(d) = [addr |-> d.addr, mask |-> d.mask, proto |-> p]
  BY <1>1 DEF sepol_node_key_extract
<1>10. ASSUME NEW k \in NodeKeysOf(p)
       PROVE  k = sepol_node_key_extract(d) <=> e.key = NodeEntryKey(k)
  <2>1. NodeEntryKey(k) = [addr |-> k.addr.bytes, mask |-> k.mask.bytes]
    BY DEF NodeEntryKey
  <2>2. e.key = NodeEntryKey(k)
          <=> k.addr.bytes = d.addr.bytes /\ k.mask.bytes = d.mask.bytes
    BY <1>2, <2>1
  <2>3. k = sepol_node_key_extract(d) <=> k.addr = d.addr /\ k.mask = d.mask
    <3>1. k = [addr |-> k.addr, mask |-> k.mask, proto |-> p]
      BY NodeKeyIs
    <3> QED
      BY <1>9, <3>1
  <2>4. (k.addr = d.addr <=> k.addr.bytes = d.addr.bytes)
        /\ (k.mask = d.mask <=> k.mask.bytes = d.mask.bytes)
    BY <1>6, NodeKeyIs
  <2> QED
    BY <2>2, <2>3, <2>4
<1> QED
  BY <1>1, <1>7, <1>8, <1>9, <1>10 DEF e, NodeKeysOf

LEMMA NodeSideKept ==
  ASSUME NEW p \in Protos, NodeSide(p), NamesKept, NodeList(p)' = NodeList(p),
         \A k \in NodeKeysOf(p) : /\ k \in DOMAIN last.node <=> k \in DOMAIN last'.node
                                  /\ k \in DOMAIN last.node => last'.node[k] = last.node[k]
  PROVE  NodeSide(p)'
<1>1. PICK list : list = NodeList(p) /\ list \in Seq(NodeEntry(p)) /\ Len(list) \in Nat
                  /\ DOMAIN list = 1 .. Len(list)
  BY DEF NodeSide
<1>2. /\ list \in Seq(NodeEntry(p)')
      /\ \A i \in 1 .. Len(list) :
             context_to_record(list[i].con)' = context_to_record(list[i].con)
  BY <1>1, EntriesKept DEF NodeEntry
<1>3. \A i \in 1 .. Len(list) : NodeRecords(p)'[i] = NodeRecords(p)[i]
  <2> TAKE i \in 1 .. Len(list)
  <2>1. NodeRecords(p)'[i] = node_to_record(list[i], p)'
    BY <1>1 DEF NodeRecords
  <2>2. NodeRecords(p)[i] = node_to_record(list[i], p)
    BY <1>1 DEF NodeRecords
  <2> QED
    BY <1>2, <2>1, <2>2, NodeRecordIs, NodeRecordNext
<1>4. ASSUME NEW k \in NodeKeysOf(p)
      PROVE  Expects(last'.node, k, list, NodeEntryKey(k), NodeRecords(p)')
  <2>1. Expects(last.node, k, list, NodeEntryKey(k), NodeRecords(p))
    BY <1>1 DEF NodeSide
  <2>2. Expects(last.node, k, list, NodeEntryKey(k), NodeRecords(p)')
    BY <1>1, <1>3, <2>1, SameExpected
  <2> QED
    BY <2>2 DEF Expects
<1> QED
  BY <1>1, <1>2, <1>4 DEF NodeSide

LEMMA NodesKept ==
  ASSUME NodesOK, NamesKept, ocon'.node = ocon.node, ocon'.node6 = ocon.node6,
         last'.node = last.node
  PROVE  NodesOK'
<1>1. ASSUME NEW p \in Protos PROVE NodeSide(p)'
  <2>1. NodeList(p)' = NodeList(p)
    BY DEF NodeList
  <2>2. NodeSide(p)
    BY DEF NodesOK
  <2> QED
    BY <2>1, <2>2, NodeSideKept
<1> QED
  BY <1>1 DEF NodesOK

\* A modified list, with what the history then says.
LEMMA NodeSideModified ==
  ASSUME UsersTyped, mls' = mls, users' = users,
         NEW p \in Protos, NodeSide(p), NEW d \in NodeTypeOf(p), NEW e,
         e = node_from_record(d), e # Refused,
         NodeList(p)' = <<e>> \o NodeList(p),
         last'.node = Put(last.node, sepol_node_key_extract(d), SaidNode(d))
  PROVE  NodeSide(p)'
<1> DEFINE said == SaidNode(d)
           own == sepol_node_key_extract(d)
<1>1. /\ e \in NodeEntry(p) /\ node_to_record(e, p) = said
      /\ \A k \in NodeKeysOf(p) : k = own <=> e.key = NodeEntryKey(k)
  BY NodeAccepted
<1>2. PICK list : list = NodeList(p) /\ list \in Seq(NodeEntry(p)) /\ Len(list) \in Nat
  BY DEF NodeSide
<1>3. PICK new : new = NodeRecords(p)'
  OBVIOUS
<1> HIDE DEF said, own
<1>4. /\ <<e>> \o list \in Seq(NodeEntry(p))
      /\ DOMAIN (<<e>> \o list) = 1 .. Len(list) + 1
      /\ (<<e>> \o list)[1] = e
      /\ \A i \in 1 .. Len(list) : (<<e>> \o list)[i + 1] = list[i]
  BY <1>1, <1>2, AttachIs
<1>5. \A x : node_to_record(x, p)' = node_to_record(x, p)
  BY UsersSame, NodeRecordIs, NodeRecordNext
<1>6. \A i \in 1 .. Len(list) + 1 : new[i] = node_to_record((<<e>> \o list)[i], p)
  BY <1>2, <1>3, <1>4, <1>5 DEF NodeRecords
<1>7. new[1] = said /\ \A i \in 1 .. Len(list) : new[i + 1] = NodeRecords(p)[i]
  <2>1. \A i \in 1 .. Len(list) : NodeRecords(p)[i] = node_to_record(list[i], p)
    BY <1>2 DEF NodeRecords
  <2>2. new[1] = said
    BY <1>1, <1>2, <1>4, <1>6
  <2>3. ASSUME NEW i \in 1 .. Len(list) PROVE new[i + 1] = NodeRecords(p)[i]
    <3>1. i + 1 \in 1 .. Len(list) + 1
      BY <1>2
    <3> QED
      BY <1>4, <1>6, <2>1, <3>1
  <2> QED
    BY <2>2, <2>3
<1>8. ASSUME NEW k \in NodeKeysOf(p)
      PROVE  Expects(Put(last.node, own, said), k, <<e>> \o list, NodeEntryKey(k), new)
  <2>1. PICK f, key, records : f = last.node /\ key = NodeEntryKey(k) /\ records = NodeRecords(p)
    OBVIOUS
  <2>2. Expects(f, k, list, key, records)
    BY <1>2, <2>1 DEF NodeSide
  <2>3. k = own <=> e.key = key
    BY <1>1, <2>1
  <2>4. new[1] = said /\ \A i \in 1 .. Len(list) : new[i + 1] = records[i]
    BY <1>7, <2>1
  <2>5. Expects(Put(f, own, said), k, <<e>> \o list, key, new)
    BY <1>1, <1>2, <2>2, <2>3, <2>4, AttachExpected
  <2> QED
    BY <2>1, <2>5
<1>9. NodeEntry(p)' = NodeEntry(p)
  BY UsersSame DEF NodeEntry
<1> QED
  BY <1>2, <1>3, <1>4, <1>8, <1>9 DEF NodeSide, own, said

LEMMA NodesModified ==
  ASSUME Shapes, NodesOK, UsersTyped, NEW d \in NodeType, sepol_node_modify(d)
  PROVE  NodesOK'
<1> DEFINE Side(p) == IF p = SEPOL_PROTO_IP4 THEN "node" ELSE "node6"
<1>1. PICK e : /\ e = node_from_record(d)
               /\ Attach(Side(d.proto), e)
               /\ Expect("node", e # Refused, sepol_node_key_extract(d), SaidNode(d))
               /\ mls' = mls /\ users' = users
  BY DEF sepol_node_modify, Called
<1>2. PICK p \in Protos : d \in NodeTypeOf(p)
  BY DEF NodeType, Protos
<1>3. d.proto = p
  BY <1>2, NodeParts
<1>4. Side(p) \in Lists /\ \A q \in Protos : Side(q) \in Lists /\ (q # p => Side(q) # Side(p))
  BY DEF Lists, Protos, SEPOL_PROTO_IP4, SEPOL_PROTO_IP6
<1>5. \A q \in Protos : NodeList(q) = ocon[Side(q)] /\ NodeList(q)' = ocon'[Side(q)]
  BY DEF NodeList
<1> DEFINE own == sepol_node_key_extract(d)
           said == SaidNode(d)
<1> HIDE DEF Side, own, said
<1>6. /\ \A q \in Protos : q # p => NodeList(q)' = NodeList(q)
      /\ NodeList(p)' = IF e = Refused THEN NodeList(p) ELSE <<e>> \o NodeList(p)
  <2>1. /\ \A x \in Lists \ {Side(p)} : ocon'[x] = ocon[x]
        /\ ocon'[Side(p)] = IF e = Refused THEN ocon[Side(p)] ELSE <<e>> \o ocon[Side(p)]
    BY <1>1, <1>3, <1>4, AttachStep
  <2> QED
    BY <1>4, <1>5, <2>1
<1>7. last'.node = IF e # Refused THEN Put(last.node, own, said) ELSE last.node
  <2>1. "node" \in Kinds
    BY DEF Kinds
  <2> QED
    BY <1>1, <2>1, ExpectStep DEF own, said
<1>8. NamesKept
  BY <1>1, UsersSame
<1>9. \A q \in Protos : NodeSide(q)
  BY DEF NodesOK
<1>10. CASE e = Refused
  <2>1. ASSUME NEW q \in Protos PROVE NodeSide(q)'
    <3>1. NodeList(q)' = NodeList(q) /\ last'.node = last.node
      BY <1>6, <1>7, <1>10
    <3> QED
      BY <1>8, <1>9, <3>1, NodeSideKept
  <2> QED
    BY <1>7, <1>10, <2>1 DEF NodesOK
<1>11. CASE e # Refused
  <2>1. own \in NodeKeysOf(p)
    BY <1>1, <1>2, <1>11, NodeAccepted DEF own
  <2>2. NodeSide(p)'
    <3>1. NodeList(p)' = <<e>> \o NodeList(p)
          /\ last'.node = Put(last.node, sepol_node_key_extract(d), SaidNode(d))
      BY <1>6, <1>7, <1>11 DEF own, said
    <3> QED
      BY <1>1, <1>2, <1>9, <1>11, <3>1, NodeSideModified
  <2>3. ASSUME NEW q \in Protos, q # p PROVE NodeSide(q)'
    <3>1. NodeList(q)' = NodeList(q)
      BY <1>6, <2>3
    <3>2. ASSUME NEW k \in NodeKeysOf(q)
          PROVE  /\ k \in DOMAIN last.node <=> k \in DOMAIN last'.node
                 /\ k \in DOMAIN last.node => last'.node[k] = last.node[k]
      <4>1. k.proto = q /\ own.proto = p
        BY <2>1 DEF NodeKeysOf
      <4>2. k # own
        BY <2>3, <4>1
      <4> QED
        BY <1>7, <1>11, <4>2 DEF Put
    <3> QED
      BY <1>8, <1>9, <3>1, <3>2, NodeSideKept
  <2>4. DOMAIN last'.node = DOMAIN last.node \cup {own}
    BY <1>7, <1>11 DEF Put
  <2>5. own \in NodeKeysOf(SEPOL_PROTO_IP4) \cup NodeKeysOf(SEPOL_PROTO_IP6)
    BY <2>1 DEF Protos
  <2> QED
    BY <2>2, <2>3, <2>4, <2>5 DEF NodesOK
<1> QED
  BY <1>10, <1>11

-----------------------------------------------------------------------------
(***************************************************************************)
(* Interfaces: an entry takes the place of the one with its name.          *)
(***************************************************************************)
LEMMA IfaceParts ==
  ASSUME NEW d \in IfaceType
  PROVE  /\ d = [name |-> d.name, netif_con |-> d.netif_con, netmsg_con |-> d.netmsg_con]
         /\ d.name \in Int /\ d.netif_con \in ContextType /\ d.netmsg_con \in ContextType
  BY DEF IfaceType

\* Setting the name and the two contexts of an interface makes the whole record.
LEMMA IfaceBuilt ==
  ASSUME NEW name, NEW c, NEW m, sepol_context_clone(c) = c, sepol_context_clone(m) = m
  PROVE  sepol_iface_set_msgcon(
             sepol_iface_set_ifcon(sepol_iface_set_name(sepol_iface_create, name), c), m)
            = [name |-> name, netif_con |-> c, netmsg_con |-> m]
<1> DEFINE a == sepol_iface_set_name(sepol_iface_create, name)
           b == sepol_iface_set_ifcon(a, c)
<1>1. a = [name |-> name, netif_con |-> NULL, netmsg_con |-> NULL]
  BY DEF sepol_iface_create, sepol_iface_set_name
<1> HIDE DEF a
<1>2. b = [name |-> name, netif_con |-> c, netmsg_con |-> NULL]
  BY <1>1 DEF sepol_iface_set_ifcon
<1> HIDE DEF b
<1>3. sepol_iface_set_msgcon(b, m) = [name |-> name, netif_con |-> c, netmsg_con |-> m]
  BY <1>2 DEF sepol_iface_set_msgcon
<1> QED
  BY <1>3 DEF a, b

LEMMA IfaceCloned ==
  ASSUME NEW d \in IfaceType
  PROVE  sepol_iface_clone(d) = d
<1>1. sepol_iface_clone(d) = [name |-> d.name, netif_con |-> d.netif_con,
                              netmsg_con |-> d.netmsg_con]
  BY IfaceParts, TypedClone, IfaceBuilt DEF sepol_iface_clone
<1> QED
  BY <1>1, IfaceParts

LEMMA IfaceRecordIs ==
  ASSUME NEW e
  PROVE  iface_to_record(e) = [name |-> e.key, netif_con |-> context_to_record(e.con),
                               netmsg_con |-> context_to_record(e.msgcon)]
  BY RecordShaped, IfaceBuilt DEF iface_to_record

LEMMA IfaceRecordNext ==
  ASSUME NEW e
  PROVE  iface_to_record(e)' = [name |-> e.key, netif_con |-> context_to_record(e.con)',
                                netmsg_con |-> context_to_record(e.msgcon)']
<1>1. iface_to_record(e) = [name |-> e.key, netif_con |-> context_to_record(e.con),
                            netmsg_con |-> context_to_record(e.msgcon)]
  BY IfaceRecordIs
<1>2. (iface_to_record(e) = [name |-> e.key, netif_con |-> context_to_record(e.con),
                             netmsg_con |-> context_to_record(e.msgcon)])'
  BY <1>1, PTL
<1> QED
  BY <1>2

LEMMA IfaceAccepted ==
  ASSUME UsersTyped, NEW d \in IfaceType, iface_from_record(d) # Refused
  PROVE  /\ iface_from_record(d) \in IfaceEntry
         /\ iface_to_record(iface_from_record(d)) = SaidIface(d)
         /\ iface_from_record(d).key = d.name
         /\ SaidIface(d).name = d.name
<1> DEFINE c == context_from_record(d.netif_con)
           m == context_from_record(d.netmsg_con)
           e == iface_from_record(d)
<1>1. e = [key |-> d.name, con |-> c, msgcon |-> m] /\ c # Refused /\ m # Refused
  BY DEF iface_from_record
<1>2. /\ c \in StoredContext /\ context_to_record(c) = SaidContext(d.netif_con)
      /\ m \in StoredContext /\ context_to_record(m) = SaidContext(d.netmsg_con)
  BY <1>1, IfaceParts, ContextAccepted
<1>3. SaidIface(d) = [name |-> d.name, netif_con |-> SaidContext(d.netif_con),
                      netmsg_con |-> SaidContext(d.netmsg_con)]
  <2> DEFINE a == [d EXCEPT !.netif_con = SaidContext(@)]
  <2>1. SaidIface(d) = [a EXCEPT !.netmsg_con = SaidContext(@)]
    BY Zenon DEF SaidIface
  <2>2. a = [name |-> d.name, netif_con |-> SaidContext(d.netif_con),
             netmsg_con |-> d.netmsg_con]
    BY IfaceParts
  <2> HIDE DEF a
  <2> QED
    BY <2>1, <2>2
<1>4. iface_to_record(e) = [name |-> e.key, netif_con |-> context_to_record(e.con),
                            netmsg_con |-> context_to_record(e.msgcon)]
  BY IfaceRecordIs
<1>5. d.name \in Int
  BY IfaceParts
<1> HIDE DEF c, m, e
<1> QED
  BY <1>1, <1>2, <1>3, <1>4, <1>5 DEF e, IfaceEntry

LEMMA IfacesKept ==
  ASSUME IfacesOK, NamesKept, ocon'.netif = ocon.netif, last'.iface = last.iface
  PROVE  IfacesOK'
<1>1. PICK list : list = ocon.netif /\ list \in Seq(IfaceEntry) /\ Len(list) \in Nat
                  /\ DOMAIN list = 1 .. Len(list)
  BY DEF IfacesOK
<1>2. ASSUME NEW i \in 1 .. Len(list)
      PROVE  /\ list[i] \in IfaceEntry'
             /\ context_to_record(list[i].con)' = context_to_record(list[i].con)
             /\ context_to_record(list[i].msgcon)' = context_to_record(list[i].msgcon)
  <2>1. PICK e : e = list[i] /\ e \in IfaceEntry
    BY <1>1
  <2>2. PICK c, m : c = e.con /\ m = e.msgcon /\ c \in StoredContext /\ m \in StoredContext
    BY <2>1 DEF IfaceEntry
  <2>3. /\ c \in StoredContext' /\ context_to_record(c)' = context_to_record(c)
        /\ m \in StoredContext' /\ context_to_record(m)' = context_to_record(m)
    BY <2>2, ContextKept
  <2>4. e \in IfaceEntry'
    BY <2>1, <2>2, <2>3 DEF IfaceEntry
  <2> QED
    BY <2>1, <2>2, <2>3, <2>4
<1>3. list \in Seq(IfaceEntry')
  <2>1. PICK S : S = IfaceEntry'
    OBVIOUS
  <2>2. \A i \in 1 .. Len(list) : list[i] \in S
    BY <1>2, <2>1
  <2>3. list = [i \in 1 .. Len(list) |-> list[i]]
    BY <1>1
  <2>4. list \in Seq(S)
    BY <1>1, <2>2, <2>3, IsASeq
  <2> QED
    BY <2>1, <2>4
<1>4. \A i \in 1 .. Len(list) : IfaceRecords'[i] = IfaceRecords[i]
  <2> TAKE i \in 1 .. Len(list)
  <2>1. IfaceRecords'[i] = iface_to_record(list[i])'
    BY <1>1 DEF IfaceRecords
  <2>2. IfaceRecords[i] = iface_to_record(list[i])
    BY <1>1 DEF IfaceRecords
  <2> QED
    BY <1>2, <2>1, <2>2, IfaceRecordIs, IfaceRecordNext
<1>5. ASSUME NEW k \in NameKeys
      PROVE  Expects(last.iface, k, list, k.name, IfaceRecords')
  <2>1. Expects(last.iface, k, list, k.name, IfaceRecords)
    BY <1>1 DEF IfacesOK
  <2> QED
    BY <1>1, <1>4, <2>1, SameExpected
<1> QED
  BY <1>1, <1>3, <1>5 DEF IfacesOK

LEMMA IfacesModified ==
  ASSUME Shapes, IfacesOK, UsersTyped, NEW d \in IfaceType, sepol_iface_modify(d)
  PROVE  IfacesOK'
<1> DEFINE said == SaidIface(d)
           own == sepol_iface_key_extract(d)
<1>1. PICK e : /\ e = iface_from_record(d)
               /\ ocon' = IF e = Refused THEN ocon
                          ELSE [ocon EXCEPT !.netif = Replaced(@, e)]
               /\ Expect("iface", e # Refused, own, said)
               /\ mls' = mls /\ users' = users
  BY DEF sepol_iface_modify, Called
<1> HIDE DEF said, own
<1>2. /\ ocon'.netif = IF e = Refused THEN ocon.netif ELSE Replaced(ocon.netif, e)
      /\ last'.iface = IF e # Refused THEN Put(last.iface, own, said) ELSE last.iface
  <2>1. "netif" \in Lists /\ "iface" \in Kinds
    BY DEF Lists, Kinds
  <2>2. ocon'.netif = IF e = Refused THEN ocon.netif ELSE Replaced(ocon.netif, e)
    BY <1>1, <2>1 DEF Shapes
  <2>3. last'.iface = IF e # Refused THEN Put(last.iface, own, said) ELSE last.iface
    BY <1>1, <2>1, ExpectStep
  <2> QED
    BY <2>2, <2>3
<1>3. CASE e = Refused
  BY <1>1, <1>2, <1>3, UsersSame, IfacesKept
<1>4. CASE e # Refused
  <2>1. /\ e \in IfaceEntry /\ iface_to_record(e) = said /\ e.key = d.name /\ d.name \in Int
    BY <1>1, <1>4, IfaceAccepted, IfaceParts DEF said
  <2>2. own = [name |-> d.name] /\ own \in NameKeys
    BY <2>1 DEF own, NameKeys, sepol_iface_key_extract, sepol_iface_key_create
  <2>3. \A k \in NameKeys : k = own <=> e.key = k.name
    BY <2>1, <2>2 DEF NameKeys
  <2>4. PICK list : list = ocon.netif /\ list \in Seq(IfaceEntry) /\ Len(list) \in Nat
    BY DEF IfacesOK
  <2>5. PICK new : new = IfaceRecords'
    OBVIOUS
  <2>6. PICK t : t = Replaced(list, e)
    OBVIOUS
  <2>7. ocon'.netif = t
    BY <1>2, <1>4, <2>4, <2>6
  <2>8. PICK n : n = First(list, e.key)
    OBVIOUS
  <2>9. /\ t \in Seq(IfaceEntry)
        /\ n = 0 => t = <<e>> \o list
        /\ n # 0 => n \in 1 .. Len(list) /\ Len(t) = Len(list)
        /\ n # 0 => \A i \in 1 .. Len(list) : t[i] = IF i = n THEN e ELSE list[i]
    <3>1. n \in 0 .. Len(list)
      BY <2>4, <2>8, FirstIs
    <3>2. CASE n = 0
      BY <2>1, <2>4, <2>6, <2>8, <3>2, AttachIs DEF Replaced
    <3>3. CASE n # 0
      <4>1. t = [list EXCEPT ![n] = e]
        BY <2>6, <2>8, <3>3 DEF Replaced
      <4> QED
        BY <2>1, <2>4, <3>1, <3>3, <4>1, ExceptSeq
    <3> QED
      BY <3>2, <3>3
  <2>10. \A x : iface_to_record(x)' = iface_to_record(x)
    BY <1>1, UsersSame, IfaceRecordIs, IfaceRecordNext
  <2>11. \A i \in 1 .. Len(t) : new[i] = iface_to_record(t[i])
    BY <2>5, <2>7, <2>9, <2>10 DEF IfaceRecords
  <2>12. \A i \in 1 .. Len(list) : IfaceRecords[i] = iface_to_record(list[i])
    BY <2>4 DEF IfaceRecords
  <2>13. \A i, j \in 1 .. Len(list) : list[i].key = list[j].key => i = j
    BY <2>4 DEF IfacesOK
  <2>14. /\ n = 0 <=> \A i \in 1 .. Len(list) : list[i].key # e.key
         /\ n # 0 => list[n].key = e.key
    BY <2>4, <2>8, FirstIs
  <2>15. ASSUME NEW k \in NameKeys
         PROVE  Expects(Put(last.iface, own, said), k, t, k.name, new)
    <3>1. PICK f, key, records : f = last.iface /\ key = k.name /\ records = IfaceRecords
      OBVIOUS
    <3>2. Expects(f, k, list, key, records)
      BY <2>4, <3>1 DEF IfacesOK
    <3>3. k = own <=> e.key = key
      BY <2>3, <3>1
    <3>4. CASE n = 0
      <4>1. /\ Len(t) = Len(list) + 1 /\ t[1] = e
            /\ \A i \in 1 .. Len(list) : t[i + 1] = list[i]
        BY <2>1, <2>4, <2>9, <3>4, AttachIs
      <4>2. new[1] = said
        BY <2>1, <2>4, <2>11, <4>1
      <4>3. ASSUME NEW i \in 1 .. Len(list) PROVE new[i + 1] = records[i]
        <5>1. i + 1 \in 1 .. Len(t)
          BY <2>4, <4>1
        <5> QED
          BY <2>11, <2>12, <3>1, <4>1, <5>1
      <4>4. Expects(Put(f, own, said), k, <<e>> \o list, key, new)
        BY <2>1, <2>4, <3>2, <3>3, <4>2, <4>3, AttachExpected
      <4> QED
        BY <2>9, <3>1, <3>4, <4>4
    <3>5. CASE n # 0
      <4>1. new[First(list, e.key)] = said
        BY <2>1, <2>8, <2>9, <2>11, <3>5
      <4>2. \A i \in 1 .. Len(list) : i # First(list, e.key) => new[i] = records[i]
        BY <2>8, <2>9, <2>11, <2>12, <3>1, <3>5
      <4>3. First(list, e.key) # 0
        BY <2>8, <3>5
      <4>4. Expects(Put(f, own, said), k, Replaced(list, e), key, new)
        BY <2>1, <2>4, <3>2, <3>3, <4>1, <4>2, <4>3, ReplaceExpected
      <4> QED
        BY <2>6, <3>1, <4>4
    <3> QED
      BY <3>4, <3>5
  <2>16. \A i, j \in 1 .. Len(t) : t[i].key = t[j].key => i = j
    <3>1. CASE n = 0
      <4>1. /\ Len(t) = Len(list) + 1 /\ t[1] = e
            /\ \A i \in 2 .. Len(list) + 1 : t[i] = list[i - 1]
        BY <2>1, <2>4, <2>9, <3>1, AttachIs
      <4>2. \A i \in 2 .. Len(t) : t[i].key # e.key
        BY <2>4, <2>14, <3>1, <4>1
      <4>3. \A i, j \in 2 .. Len(t) : t[i].key = t[j].key => i = j
        <5> TAKE i, j \in 2 .. Len(t)
        <5>1. i - 1 \in 1 .. Len(list) /\ j - 1 \in 1 .. Len(list)
              /\ t[i] = list[i - 1] /\ t[j] = list[j - 1]
          BY <2>4, <4>1
        <5>2. list[i - 1].key = list[j - 1].key => i - 1 = j - 1
          BY <2>13, <5>1
        <5> QED
          BY <5>1, <5>2
      <4>4. \A i \in 1 .. Len(t) : i = 1 \/ i \in 2 .. Len(t)
        BY <2>4, <4>1
      <4> QED
        BY <4>1, <4>2, <4>3, <4>4
    <3>2. CASE n # 0
      <4>1. \A i \in 1 .. Len(t) : t[i].key = list[i].key
        BY <2>9, <2>14, <3>2
      <4> QED
        BY <2>9, <2>13, <3>2, <4>1
    <3> QED
      BY <3>1, <3>2
  <2>17. DOMAIN t = 1 .. Len(t)
    BY <2>9
  <2>18. IfaceEntry' = IfaceEntry
    BY <1>1, UsersSame DEF IfaceEntry
  <2>19. DOMAIN Put(last.iface, own, said) \subseteq NameKeys
    BY <2>2 DEF Put, IfacesOK
  <2> QED
    BY <1>2, <1>4, <2>5, <2>7, <2>9, <2>15, <2>16, <2>17, <2>18, <2>19 DEF IfacesOK
<1> QED
  BY <1>3, <1>4

-----------------------------------------------------------------------------
(***************************************************************************)
(* Booleans.                                                               *)
(***************************************************************************)
LEMMA BoolCloned ==
  ASSUME NEW d \in BoolType
  PROVE  sepol_bool_clone(d) = d
<1> DEFINE a == sepol_bool_set_name(sepol_bool_create, d.name)
<1>1. d = [name |-> d.name, value |-> d.value]
  BY DEF BoolType
<1>2. a = [name |-> d.name, value |-> 0]
  BY DEF sepol_bool_create, sepol_bool_set_name
<1> HIDE DEF a
<1>3. sepol_bool_set_value(a, d.value) = [name |-> d.name, value |-> d.value]
  BY <1>2 DEF sepol_bool_set_value
<1> QED
  BY <1>1, <1>3 DEF sepol_bool_clone, a

LEMMA BoolRecordIs ==
  ASSUME NEW i
  PROVE  bool_to_record(i) = [name |-> bools[i].name, value |-> bools[i].state]
<1> DEFINE a == sepol_bool_set_name(sepol_bool_create, bools[i].name)
<1>1. a = [name |-> bools[i].name, value |-> 0]
  BY DEF sepol_bool_create, sepol_bool_set_name
<1> HIDE DEF a
<1>2. sepol_bool_set_value(a, bools[i].state) = [name |-> bools[i].name, value |-> bools[i].state]
  BY <1>1 DEF sepol_bool_set_value
<1> QED
  BY <1>2 DEF bool_to_record, a

LEMMA BoolRecordNext ==
  ASSUME NEW i
  PROVE  bool_to_record(i)' = [name |-> bools'[i].name, value |-> bools'[i].state]
<1>1. bool_to_record(i) = [name |-> bools[i].name, value |-> bools[i].state]
  BY BoolRecordIs
<1>2. (bool_to_record(i) = [name |-> bools[i].name, value |-> bools[i].state])'
  BY <1>1, PTL
<1> QED
  BY <1>2

LEMMA BoolsKept ==
  ASSUME BoolsOK, bools' = bools, conds' = conds, last'.bool = last.bool
  PROVE  BoolsOK'
<1>1. \A i : bool_to_record(i)' = bool_to_record(i)
  BY BoolRecordIs, BoolRecordNext
<1>2. evaluate_conds(bools)' = evaluate_conds(bools)
  BY DEF evaluate_conds
<1> QED
  BY <1>1, <1>2 DEF BoolsOK, Names, sepol_bool_key_extract, sepol_bool_key_create

LEMMA BoolsModified ==
  ASSUME Shapes, BoolsOK, NEW d \in BoolType, sepol_bool_set(d)
  PROVE  BoolsOK'
<1>1. PICK i : /\ i = ValueIn(Names(bools), d.name)
               /\ bool_update(i, d.value)
               /\ LET ok == i # 0 /\ d.value \in {0, 1} IN
                  /\ conds' = IF ok THEN evaluate_conds(bools') ELSE conds
                  /\ Expect("bool", ok, sepol_bool_key_extract(d), d)
  BY DEF sepol_bool_set
<1>2. "bool" \in Kinds
  BY DEF Kinds
<1>3. CASE ~(i # 0 /\ d.value \in {0, 1})
  <2>1. last'.bool = last.bool
    BY <1>1, <1>2, <1>3, ExpectStep
  <2>2. bools' = bools /\ conds' = conds
    BY <1>1, <1>3 DEF bool_update
  <2> QED
    BY <2>1, <2>2, BoolsKept
<1>4. CASE i # 0 /\ d.value \in {0, 1}
  <2>1. /\ bools' = [bools EXCEPT ![i].state = d.value]
        /\ conds' = evaluate_conds(bools')
        /\ last'.bool = Put(last.bool, sepol_bool_key_extract(d), d)
    BY <1>1, <1>2, <1>4, ExpectStep DEF bool_update
  <2>2. PICK list : list = bools /\ list \in Seq(BoolDatum) /\ DOMAIN list = 1 .. Len(list)
                    /\ Len(list) \in Nat
    BY DEF BoolsOK
  <2>3. i \in 1 .. Len(list) /\ list[i].name = d.name
    BY <1>1, <1>4, <2>2, ValueIs DEF Names
  <2>4. list[i] = [name |-> d.name, state |-> list[i].state] /\ d.name \in Int
    <3>1. list[i] \in BoolDatum
      BY <2>2, <2>3
    <3> QED
      BY <2>3, <3>1 DEF BoolDatum
  <2>5. PICK v : v = [name |-> d.name, state |-> d.value] /\ v \in BoolDatum
    <3>1. [name |-> d.name, state |-> d.value] \in BoolDatum
      BY <1>4, <2>4 DEF BoolDatum
    <3> QED
      BY <3>1
  <2>6. PICK new : new = [list EXCEPT ![i] = v]
    OBVIOUS
  <2>7. bools' = new
    <3>1. bools' = [list EXCEPT ![i] = [list[i] EXCEPT !.state = d.value]]
      BY <2>1, <2>2, <2>3
    <3>2. [list[i] EXCEPT !.state = d.value] = v
      BY <2>4, <2>5
    <3> QED
      BY <2>6, <3>1, <3>2
  <2>8. /\ new \in Seq(BoolDatum) /\ DOMAIN new = 1 .. Len(list)
        /\ \A j \in 1 .. Len(list) : new[j] = IF j = i THEN v ELSE list[j]
    BY <2>2, <2>3, <2>5, <2>6, ExceptSeq
  <2>9. \A j \in 1 .. Len(list) : new[j].name = list[j].name
    BY <2>3, <2>5, <2>8
  <2>10. Injective(Names(new))
    <3>1. Injective(Names(list))
      BY <2>2 DEF BoolsOK
    <3>2. Names(new) = Names(list)
      BY <2>2, <2>8, <2>9 DEF Names
    <3> QED
      BY <3>1, <3>2
  <2>11. \A x : sepol_bool_key_extract(x) = [name |-> x.name]
    BY DEF sepol_bool_key_extract, sepol_bool_key_create
  <2>12. DOMAIN last'.bool = {sepol_bool_key_extract(new[j]) : j \in 1 .. Len(list)}
    <3>1. DOMAIN last.bool = {[name |-> list[j].name] : j \in 1 .. Len(list)}
      BY <2>2, <2>11 DEF BoolsOK
    <3>2. DOMAIN last'.bool = DOMAIN last.bool \cup {[name |-> list[i].name]}
      BY <2>1, <2>3, <2>11 DEF Put
    <3> QED
      BY <2>3, <2>9, <2>11, <3>1, <3>2
  <2>13. ASSUME NEW j \in 1 .. Len(list)
         PROVE  last'.bool[sepol_bool_key_extract(new[j])] = bool_to_record(j)'
    <3>1. bool_to_record(j)' = [name |-> new[j].name, value |-> new[j].state]
      BY <2>7, BoolRecordNext
    <3>2. CASE j = i
      <4>1. last'.bool[sepol_bool_key_extract(d)] = d
        BY <2>1 DEF Put
      <4>2. d = [name |-> d.name, value |-> d.value]
        BY DEF BoolType
      <4> QED
        BY <2>5, <2>8, <2>11, <3>1, <3>2, <4>1, <4>2
    <3>3. CASE j # i
      <4>1. list[j].name # list[i].name
        BY <2>2, <2>3, <3>3 DEF BoolsOK, Injective, Names
      <4>2. PICK k : k = sepol_bool_key_extract(new[j])
        OBVIOUS
      <4>3. k # sepol_bool_key_extract(d) /\ k = sepol_bool_key_extract(list[j])
        BY <2>3, <2>9, <2>11, <4>1, <4>2
      <4>4. k \in DOMAIN last.bool /\ last.bool[k] = bool_to_record(j)
        BY <2>2, <4>3 DEF BoolsOK
      <4>5. last'.bool[k] = bool_to_record(j)
        BY <2>1, <4>3, <4>4 DEF Put
      <4>6. bool_to_record(j) = [name |-> list[j].name, value |-> list[j].state]
        BY <2>2, BoolRecordIs
      <4> QED
        BY <2>8, <3>1, <3>3, <4>2, <4>5, <4>6
    <3> QED
      BY <3>2, <3>3
  <2>14. conds' = evaluate_conds(bools)'
    BY <2>1 DEF evaluate_conds
  <2> QED
    BY <2>7, <2>8, <2>10, <2>12, <2>13, <2>14 DEF BoolsOK
<1> QED
  BY <1>3, <1>4

-----------------------------------------------------------------------------
(***************************************************************************)
(* Roles that are added one after the other.                               *)
(***************************************************************************)
LEMMA UserParts ==
  ASSUME NEW u \in UserType
  PROVE  /\ u = [name |-> u.name, roles |-> u.roles, mls_level |-> u.mls_level,
                 mls_range |-> u.mls_range]
         /\ u.name \in Int /\ u.roles \in Seq(STRING)
         /\ u.mls_level \in STRING \cup {NULL} /\ u.mls_range \in STRING \cup {NULL}
  BY DEF UserType

LEMMA WithRoles ==
  ASSUME NEW u \in UserType, NEW roles \in Seq(STRING)
  PROVE  /\ [u EXCEPT !.roles = roles] = [name |-> u.name, roles |-> roles,
                                          mls_level |-> u.mls_level, mls_range |-> u.mls_range]
         /\ [u EXCEPT !.roles = roles] \in UserType
  BY DEF UserType

LEMMA AddRole ==
  ASSUME NEW u \in UserType, NEW role \in STRING
  PROVE  /\ sepol_user_add_role(u, role) \in UserType
         /\ sepol_user_add_role(u, role)
               = IF \E i \in 1 .. Len(u.roles) : u.roles[i] = role THEN u
                 ELSE [u EXCEPT !.roles = Append(u.roles, role)]
<1>1. u.roles \in Seq(STRING) /\ DOMAIN u.roles = 1 .. Len(u.roles)
  BY UserParts
<1>2. sepol_user_add_role(u, role)
         = IF \E i \in 1 .. Len(u.roles) : u.roles[i] = role THEN u
           ELSE [u EXCEPT !.roles = Append(u.roles, role)]
  <2>1. sepol_user_has_role(u, role) <=> \E i \in 1 .. Len(u.roles) : u.roles[i] = role
    BY <1>1 DEF sepol_user_has_role
  <2>2. [u EXCEPT !.roles = Append(@, role)] = [u EXCEPT !.roles = Append(u.roles, role)]
    BY DEF UserType
  <2> QED
    BY <2>1, <2>2 DEF sepol_user_add_role
<1>3. Append(u.roles, role) \in Seq(STRING)
  BY <1>1
<1> QED
  BY <1>2, <1>3, WithRoles

LEMMA AddRolesSteps ==
  ASSUME NEW u \in UserType, NEW names \in Seq(STRING), NEW places
  PROVE  \E f \in [0 .. Len(names) -> UserType] :
            /\ f[0] = u
            /\ \A i \in 1 .. Len(names) :
                   f[i] = IF i \in places THEN sepol_user_add_role(f[i - 1], names[i])
                          ELSE f[i - 1]
            /\ AddRoles(u, names, places) = f[Len(names)]
<1> DEFINE n == Len(names)
           Step(i, v) == IF i \in places THEN sepol_user_add_role(v, names[i]) ELSE v
           P(f) == f = [i \in 0 .. n |-> IF i = 0 THEN u
                                         ELSE IF i \in places
                                              THEN sepol_user_add_role(f[i - 1], names[i])
                                              ELSE f[i - 1]]
           s == [p \in (1 .. n) \X UserType |-> Step(p[1], p[2])]
<1>1. n \in Nat /\ \A i \in 1 .. n : names[i] \in STRING
  OBVIOUS
<1>2. s \in Steps(n, UserType)
  <2>1. \A i \in 1 .. n : \A v \in UserType : Step(i, v) \in UserType
    BY <1>1, AddRole
  <2> HIDE DEF Step
  <2> QED
    BY <2>1 DEF Steps
<1>3. PICK f \in [0 .. n -> UserType] : f[0] = u /\ \A i \in 1 .. n : f[i] = s[<<i, f[i - 1]>>]
  <2> HIDE DEF s, n, P
  <2>1. \E f : Follows(f, n, UserType, u, s)
    BY <1>1, <1>2, Iterates
  <2> QED
    BY <2>1 DEF Follows
<1>4. \A i \in 1 .. n : f[i - 1] \in UserType
  BY <1>1, <1>3
<1>5. \A i \in 1 .. n : f[i] = Step(i, f[i - 1])
  <2> HIDE DEF Step
  <2> QED
    BY <1>3, <1>4
<1>6. P(f)
  BY <1>1, <1>3, <1>5
<1>7. \A g : P(g) => g = f
  <2> TAKE g
  <2> HAVE P(g)
  <2>1. /\ DOMAIN g = 0 .. n /\ g[0] = u
        /\ \A i \in 1 .. n : g[i] = Step(i, g[i - 1])
    <3> DEFINE F(i) == IF i = 0 THEN u
                       ELSE IF i \in places THEN sepol_user_add_role(g[i - 1], names[i])
                            ELSE g[i - 1]
    <3>1. g = [i \in 0 .. n |-> F(i)]
      OBVIOUS
    <3>2. F(0) = u /\ \A i \in 1 .. n : F(i) = Step(i, g[i - 1])
      OBVIOUS
    <3> HIDE DEF F, Step, P
    <3>3. DOMAIN g = 0 .. n /\ \A i \in 0 .. n : g[i] = F(i)
      BY <3>1
    <3> QED
      BY <1>1, <3>2, <3>3
  <2>2. PICK S : S = {i \in 0 .. n : g[i] = f[i]}
    OBVIOUS
  <2> HIDE DEF P, Step, n
  <2>3. S = 0 .. n
    <3>1. S \in SUBSET (0 .. n) /\ 0 \in S
      BY <1>1, <1>3, <2>1, <2>2
    <3>2. \A i \in 1 .. n : i - 1 \in S => i \in S
      BY <1>1, <1>5, <2>1, <2>2
    <3> QED
      BY <1>1, <3>1, <3>2, Induct
  <2>4. g = [i \in 0 .. n |-> g[i]]
    BY <2>1, P(g) DEF P
  <2>5. f = [i \in 0 .. n |-> f[i]]
    OBVIOUS
  <2> QED
    BY <2>2, <2>3, <2>4, <2>5
<1>8. AddRoles(u, names, places) = (CHOOSE g : P(g))[n]
  BY DEF AddRoles
<1>9. (CHOOSE g : P(g)) = f
  <2> HIDE DEF P
  <2> QED
    BY <1>6, <1>7
<1> QED
  BY <1>3, <1>5, <1>8, <1>9

\* The names at some places in the order of the places.
Rank(places, r) == Cardinality({q \in places : q <= r})
Enumerates(roles, names, places) ==
    \E t \in [1 .. Cardinality(places) -> places] :
        /\ \A j \in 1 .. Cardinality(places) : Rank(places, t[j]) = j
        /\ roles = [j \in 1 .. Cardinality(places) |-> names[t[j]]]

LEMMA PlacesFinite ==
  ASSUME NEW n \in Nat, NEW P \in SUBSET (1 .. n)
  PROVE  /\ IsFiniteSet(P) /\ Cardinality(P) \in Nat
         /\ \A r : IsFiniteSet({q \in P : q <= r}) /\ Rank(P, r) \in Nat
<1>1. IsFiniteSet(1 .. n)
  BY FS_Interval
<1>2. IsFiniteSet(P)
  BY <1>1, FS_Subset
<1>3. ASSUME NEW r PROVE IsFiniteSet({q \in P : q <= r}) /\ Rank(P, r) \in Nat
  <2>1. {q \in P : q <= r} \in SUBSET P
    OBVIOUS
  <2>2. IsFiniteSet({q \in P : q <= r})
    BY <1>2, <2>1, FS_Subset
  <2> QED
    BY <2>2, FS_CardinalityType DEF Rank
<1> QED
  BY <1>2, <1>3, FS_CardinalityType

LEMMA RankNat ==
  ASSUME NEW n \in Nat, NEW P \in SUBSET (1 .. n), NEW r
  PROVE  Rank(P, r) \in Nat
  BY PlacesFinite

LEMMA RankIncreases ==
  ASSUME NEW n \in Nat, NEW P \in SUBSET (1 .. n), NEW r \in P, NEW s \in P, r < s
  PROVE  Rank(P, r) < Rank(P, s)
<1> DEFINE A == {q \in P : q <= r}
           B == {q \in P : q <= s}
<1>1. A \in SUBSET B /\ s \in B /\ s \notin A
  <2>1. r \in Int /\ s \in Int /\ \A q \in P : q \in Int
    OBVIOUS
  <2>2. \A q \in P : q <= r => q <= s
    BY <2>1
  <2>3. s <= s /\ ~(s <= r)
    BY <2>1
  <2> QED
    BY <2>2, <2>3
<1>2. IsFiniteSet(A) /\ IsFiniteSet(B) /\ Rank(P, r) \in Nat /\ Rank(P, s) \in Nat
  BY PlacesFinite
<1>3. Cardinality(A) <= Cardinality(B) /\ (Cardinality(B) = Cardinality(A) => B = A)
  BY <1>1, <1>2, FS_Subset
<1>4. Rank(P, r) = Cardinality(A) /\ Rank(P, s) = Cardinality(B)
  BY DEF Rank
<1> HIDE DEF A, B
<1> QED
  BY <1>1, <1>2, <1>3, <1>4

LEMMA RankUnique ==
  ASSUME NEW n \in Nat, NEW P \in SUBSET (1 .. n), NEW r \in P, NEW s \in P,
         Rank(P, r) = Rank(P, s)
  PROVE  r = s
<1>1. Rank(P, r) \in Nat /\ r \in Int /\ s \in Int
  <2>1. Rank(P, r) \in Nat
    BY RankNat
  <2> QED
    BY <2>1
<1>2. ASSUME r < s PROVE FALSE
  <2>1. Rank(P, r) < Rank(P, s)
    BY <1>2, RankIncreases
  <2> QED
    BY <1>1, <2>1
<1>3. ASSUME s < r PROVE FALSE
  <2>1. Rank(P, s) < Rank(P, r)
    BY <1>3, RankIncreases
  <2> QED
    BY <1>1, <2>1
<1> QED
  BY <1>1, <1>2, <1>3

\* The place that is added is behind all the others.
LEMMA RankAdded ==
  ASSUME NEW n \in Nat, NEW i \in 1 .. n, NEW P \in SUBSET (1 .. i - 1)
  PROVE  LET all == P \cup {i} IN
         /\ Cardinality(all) = Cardinality(P) + 1
         /\ Rank(all, i) = Cardinality(P) + 1
         /\ \A r \in P : Rank(all, r) = Rank(P, r)
<1> DEFINE all == P \cup {i}
<1>1. IsFiniteSet(P) /\ \A q \in P : q \in Int /\ q < i
  <2>1. i - 1 \in Nat
    OBVIOUS
  <2>2. IsFiniteSet(P)
    BY <2>1, PlacesFinite
  <2> QED
    BY <2>2
<1>2. Cardinality(all) = Cardinality(P) + 1
  <2>1. i \notin P
    OBVIOUS
  <2> QED
    BY <1>1, <2>1, FS_AddElement
<1>3. Rank(all, i) = Cardinality(all)
  <2>1. \A q \in all : q <= i
    BY <1>1
  <2>2. {q \in all : q <= i} = all
    BY <2>1
  <2> QED
    BY <2>2 DEF Rank
<1>4. ASSUME NEW r \in P PROVE Rank(all, r) = Rank(P, r)
  <2>1. {q \in all : q <= r} = {q \in P : q <= r}
    BY <1>1
  <2> QED
    BY <2>1 DEF Rank
<1> QED
  BY <1>2, <1>3, <1>4

LEMMA EnumeratedNext ==
  ASSUME NEW names \in Seq(STRING), NEW i \in 1 .. Len(names), NEW P \in SUBSET (1 .. i - 1),
         NEW roles \in Seq(STRING), Enumerates(roles, names, P)
  PROVE  Enumerates(Append(roles, names[i]), names, P \cup {i})
<1>1. PICK all, m : all = P \cup {i} /\ m = Cardinality(P)
  OBVIOUS
<1>2. Len(names) \in Nat /\ m \in Nat
  <2>1. i - 1 \in Nat
    OBVIOUS
  <2>2. Cardinality(P) \in Nat
    BY <2>1, PlacesFinite
  <2> QED
    BY <1>1, <2>2
<1>3. /\ Cardinality(all) = m + 1 /\ Rank(all, i) = m + 1
      /\ \A r \in P : Rank(all, r) = Rank(P, r)
  BY <1>1, <1>2, RankAdded
<1>4. PICK t \in [1 .. m -> P] :
         /\ \A j \in 1 .. m : Rank(P, t[j]) = j
         /\ roles = [j \in 1 .. m |-> names[t[j]]]
  BY <1>1 DEF Enumerates
<1> DEFINE w == [j \in 1 .. m + 1 |-> IF j = m + 1 THEN i ELSE t[j]]
<1>5. ASSUME NEW j \in 1 .. m + 1
      PROVE  /\ w[j] \in all /\ Rank(all, w[j]) = j
             /\ Append(roles, names[i])[j] = names[w[j]]
  <2>1. Len(roles) = m
    BY <1>2, <1>4
  <2>2. CASE j = m + 1
    BY <1>1, <1>2, <1>3, <2>1, <2>2
  <2>3. CASE j # m + 1
    <3>1. j \in 1 .. m /\ w[j] = t[j] /\ t[j] \in P
      BY <1>2, <1>4, <2>3
    <3>2. Append(roles, names[i])[j] = roles[j]
      BY <2>1, <3>1
    <3> QED
      BY <1>1, <1>3, <1>4, <3>1, <3>2
  <2> QED
    BY <2>2, <2>3
<1>6. Append(roles, names[i]) = [j \in 1 .. m + 1 |-> names[w[j]]]
  <2>1. Len(roles) = m
    BY <1>2, <1>4
  <2>2. PICK a : a = Append(roles, names[i])
    OBVIOUS
  <2>3. a = [j \in 1 .. m + 1 |-> a[j]]
    BY <2>1, <2>2
  <2> HIDE DEF w
  <2> QED
    BY <1>5, <2>2, <2>3
<1>7. w \in [1 .. m + 1 -> all]
  BY <1>5
<1>8. \A j \in 1 .. m + 1 : Rank(all, w[j]) = j
  BY <1>5
<1> HIDE DEF w
<1>9. Enumerates(Append(roles, names[i]), names, all)
  <2>1. PICK c, a : c = m + 1 /\ a = Append(roles, names[i])
    OBVIOUS
  <2>2. /\ w \in [1 .. c -> all] /\ \A j \in 1 .. c : Rank(all, w[j]) = j
        /\ a = [j \in 1 .. c |-> names[w[j]]] /\ Cardinality(all) = c
    BY <1>3, <1>6, <1>7, <1>8, <2>1
  <2>3. Enumerates(a, names, all)
    BY <2>2 DEF Enumerates
  <2> QED
    BY <2>1, <2>3
<1> QED
  BY <1>1, <1>9

LEMMA RolesEnumerated ==
  ASSUME NEW u \in UserType, u.roles = <<>>, NEW names \in Seq(STRING), Injective(names),
         NEW places \in SUBSET (1 .. Len(names))
  PROVE  \E roles \in Seq(STRING) :
            /\ Enumerates(roles, names, places)
            /\ AddRoles(u, names, places)
                  = [name |-> u.name, roles |-> roles, mls_level |-> u.mls_level,
                     mls_range |-> u.mls_range]
<1>1. PICK n : n = Len(names) /\ n \in Nat
  OBVIOUS
<1>2. PICK f \in [0 .. n -> UserType] :
         /\ f[0] = u
         /\ \A i \in 1 .. n :
                f[i] = IF i \in places THEN sepol_user_add_role(f[i - 1], names[i])
                       ELSE f[i - 1]
         /\ AddRoles(u, names, places) = f[n]
  <2>1. \E f \in [0 .. Len(names) -> UserType] :
            /\ f[0] = u
            /\ \A i \in 1 .. Len(names) :
                   f[i] = IF i \in places THEN sepol_user_add_role(f[i - 1], names[i])
                          ELSE f[i - 1]
            /\ AddRoles(u, names, places) = f[Len(names)]
    BY AddRolesSteps
  <2> QED
    BY <1>1, <2>1
<1> DEFINE Good(i) == /\ Enumerates(f[i].roles, names, places \cap (1 .. i))
                      /\ f[i].name = u.name /\ f[i].mls_level = u.mls_level
                      /\ f[i].mls_range = u.mls_range
<1>3. Good(0)
  <2>1. places \cap (1 .. 0) = {} /\ f[0].roles = <<>>
    BY <1>2
  <2>2. Enumerates(<<>>, names, {})
    <3>1. Cardinality({}) = 0
      BY FS_EmptySet
    <3>2. [j \in 1 .. 0 |-> 0] \in [1 .. 0 -> {}]
      OBVIOUS
    <3>3. <<>> = [j \in 1 .. 0 |-> names[[k \in 1 .. 0 |-> 0][j]]]
      OBVIOUS
    <3> QED
      BY <3>1, <3>2, <3>3 DEF Enumerates
  <2> QED
    BY <1>2, <2>1, <2>2
<1>4. ASSUME NEW i \in 1 .. n, Good(i - 1) PROVE Good(i)
  <2>1. PICK P, v : P = places \cap (1 .. i - 1) /\ v = f[i - 1] /\ v \in UserType
    <3>1. f[i - 1] \in UserType
      BY <1>1, <1>2
    <3> QED
      BY <3>1
  <2>2. /\ Enumerates(v.roles, names, P)
        /\ v.name = u.name /\ v.mls_level = u.mls_level /\ v.mls_range = u.mls_range
    BY <1>4, <2>1
  <2>3. CASE i \notin places
    <3>1. places \cap (1 .. i) = P /\ f[i] = v
      BY <1>1, <1>2, <2>1, <2>3
    <3> QED
      BY <2>2, <3>1
  <2>4. CASE i \in places
    <3>1. places \cap (1 .. i) = P \cup {i} /\ f[i] = sepol_user_add_role(v, names[i])
      BY <1>1, <1>2, <2>1, <2>4
    <3>2. names[i] \in STRING /\ v.roles \in Seq(STRING) /\ P \in SUBSET (1 .. i - 1)
      BY <1>1, <2>1, UserParts
    <3>3. \A j \in 1 .. Len(v.roles) : v.roles[j] # names[i]
      <4>1. PICK t \in [1 .. Cardinality(P) -> P] :
               v.roles = [j \in 1 .. Cardinality(P) |-> names[t[j]]]
        BY <2>2 DEF Enumerates
      <4> TAKE j \in 1 .. Len(v.roles)
      <4>2. j \in 1 .. Cardinality(P)
        <5>1. i - 1 \in Nat
          BY <1>1
        <5>2. Cardinality(P) \in Nat
          BY <3>2, <5>1, PlacesFinite
        <5> QED
          BY <4>1, <5>2
      <4>3. v.roles[j] = names[t[j]] /\ t[j] \in 1 .. n /\ t[j] # i
        BY <1>1, <2>1, <4>1, <4>2
      <4> QED
        BY <1>1, <4>3 DEF Injective
    <3>4. sepol_user_add_role(v, names[i]) = [v EXCEPT !.roles = Append(v.roles, names[i])]
      BY <2>1, <3>2, <3>3, AddRole
    <3>5. f[i] = [name |-> v.name, roles |-> Append(v.roles, names[i]),
                  mls_level |-> v.mls_level, mls_range |-> v.mls_range]
      <4>1. PICK w : w = Append(v.roles, names[i]) /\ w \in Seq(STRING)
        <5>1. Append(v.roles, names[i]) \in Seq(STRING)
          BY <3>2
        <5> QED
          BY <5>1
      <4>2. [v EXCEPT !.roles = w] = [name |-> v.name, roles |-> w,
                                      mls_level |-> v.mls_level, mls_range |-> v.mls_range]
        BY <2>1, <4>1, WithRoles
      <4> QED
        BY <3>1, <3>4, <4>1, <4>2
    <3>6. Enumerates(Append(v.roles, names[i]), names, P \cup {i})
      BY <1>1, <2>2, <3>2, EnumeratedNext
    <3>7. /\ f[i].roles = Append(v.roles, names[i])
          /\ f[i].name = v.name /\ f[i].mls_level = v.mls_level /\ f[i].mls_range = v.mls_range
      BY <3>5
    <3> QED
      BY <2>2, <3>1, <3>6, <3>7
  <2> QED
    BY <2>3, <2>4
<1>5. Good(n)
  <2>1. PICK S : S = {i \in 0 .. n : Good(i)}
    OBVIOUS
  <2> HIDE DEF Good
  <2>2. S \in SUBSET (0 .. n) /\ 0 \in S /\ \A i \in 1 .. n : i - 1 \in S => i \in S
    BY <1>1, <1>3, <1>4, <2>1
  <2>3. S = 0 .. n
    BY <1>1, <2>2, Induct
  <2> QED
    BY <1>1, <2>1, <2>3
<1>6. places \cap (1 .. n) = places
  BY <1>1
<1>7. f[n] \in UserType
  BY <1>1, <1>2
<1>8. PICK v : v = f[n] /\ v \in UserType
  BY <1>7
<1>9. /\ v = [name |-> v.name, roles |-> v.roles, mls_level |-> v.mls_level,
              mls_range |-> v.mls_range]
      /\ v.roles \in Seq(STRING)
  BY <1>8, UserParts
<1>10. /\ Enumerates(v.roles, names, places)
       /\ v.name = u.name /\ v.mls_level = u.mls_level /\ v.mls_range = u.mls_range
  BY <1>5, <1>6, <1>8
<1>11. AddRoles(u, names, places) = v
  BY <1>2, <1>8
<1> HIDE DEF Good
<1> QED
  BY <1>9, <1>10, <1>11

LEMMA EnumerationIs ==
  ASSUME NEW names \in Seq(STRING), NEW P \in SUBSET (1 .. Len(names)), NEW roles,
         Enumerates(roles, names, P)
  PROVE  roles = [i \in 1 .. Cardinality(P) |->
                     names[CHOOSE r \in P : Cardinality({q \in P : q <= r}) = i]]
<1>1. PICK t \in [1 .. Cardinality(P) -> P] :
         /\ \A j \in 1 .. Cardinality(P) : Rank(P, t[j]) = j
         /\ roles = [j \in 1 .. Cardinality(P) |-> names[t[j]]]
  BY DEF Enumerates
<1>2. ASSUME NEW j \in 1 .. Cardinality(P)
      PROVE  t[j] = CHOOSE r \in P : Cardinality({q \in P : q <= r}) = j
  <2>1. t[j] \in P /\ Rank(P, t[j]) = j
    BY <1>1
  <2> DEFINE c == CHOOSE r \in P : Rank(P, r) = j
  <2>2. c \in P /\ Rank(P, c) = j
    BY <2>1
  <2> HIDE DEF c
  <2>3. c = t[j]
    <3>1. PICK a, n : a = t[j] /\ n = Len(names) /\ n \in Nat
      OBVIOUS
    <3>2. a \in P /\ Rank(P, c) = Rank(P, a) /\ P \in SUBSET (1 .. n)
      BY <2>1, <2>2, <3>1
    <3> QED
      BY <2>2, <3>1, <3>2, RankUnique
  <2>4. c = CHOOSE r \in P : Cardinality({q \in P : q <= r}) = j
    BY DEF c, Rank
  <2> QED
    BY <2>3, <2>4
<1> QED
  BY <1>1, <1>2

LEMMA EnumerationInjective ==
  ASSUME NEW names \in Seq(STRING), Injective(names), NEW P \in SUBSET (1 .. Len(names)),
         NEW roles, Enumerates(roles, names, P)
  PROVE  Injective(roles)
<1>1. PICK t \in [1 .. Cardinality(P) -> P] :
         /\ \A j \in 1 .. Cardinality(P) : Rank(P, t[j]) = j
         /\ roles = [j \in 1 .. Cardinality(P) |-> names[t[j]]]
  BY DEF Enumerates
<1>2. ASSUME NEW i \in DOMAIN roles, NEW j \in DOMAIN roles, roles[i] = roles[j] PROVE i = j
  <2>1. i \in 1 .. Cardinality(P) /\ j \in 1 .. Cardinality(P)
    BY <1>1
  <2>2. names[t[i]] = names[t[j]] /\ t[i] \in DOMAIN names /\ t[j] \in DOMAIN names
    <3>1. DOMAIN names = 1 .. Len(names)
      OBVIOUS
    <3>2. t[i] \in P /\ t[j] \in P
      BY <1>1, <2>1
    <3>3. roles[i] = names[t[i]] /\ roles[j] = names[t[j]]
      BY <1>1, <2>1
    <3> QED
      BY <1>2, <3>1, <3>2, <3>3
  <2>3. t[i] = t[j]
    BY <2>2 DEF Injective
  <2> QED
    BY <1>1, <2>1, <2>3
<1> QED
  BY <1>2 DEF Injective

\* All names in order are the list of names.
LEMMA EnumerateAll ==
  ASSUME NEW names \in Seq(STRING), NEW roles, Enumerates(roles, names, 1 .. Len(names))
  PROVE  roles = names
<1>1. PICK n, P : n = Len(names) /\ n \in Nat /\ P = 1 .. n
  OBVIOUS
<1>2. Cardinality(P) = n
  <2>1. 1 \in Int /\ n \in Int
    BY <1>1
  <2>2. Cardinality(1 .. n) = IF 1 > n THEN 0 ELSE n - 1 + 1
    BY <2>1, FS_Interval
  <2> QED
    BY <1>1, <2>2
<1>3. ASSUME NEW r \in P PROVE Rank(P, r) = r
  <2>1. {q \in P : q <= r} = 1 .. r
    BY <1>1
  <2>2. Cardinality(1 .. r) = r
    BY <1>1, FS_Interval
  <2> QED
    BY <2>1, <2>2 DEF Rank
<1>4. PICK t \in [1 .. n -> P] : /\ \A j \in 1 .. n : Rank(P, t[j]) = j
                                 /\ roles = [j \in 1 .. n |-> names[t[j]]]
  <2>1. Enumerates(roles, names, P)
    BY <1>1
  <2> QED
    BY <1>2, <2>1 DEF Enumerates
<1>5. \A j \in 1 .. n : t[j] = j
  BY <1>3, <1>4
<1>6. roles = [j \in 1 .. n |-> names[j]]
  BY <1>4, <1>5
<1> QED
  BY <1>1, <1>6

LEMMA NamedUser ==
  ASSUME NEW name \in Int
  PROVE  /\ sepol_user_set_name(sepol_user_create, name)
               = [name |-> name, roles |-> <<>>, mls_level |-> NULL, mls_range |-> NULL]
         /\ sepol_user_set_name(sepol_user_create, name) \in UserType
<1>1. sepol_user_set_name(sepol_user_create, name)
         = [name |-> name, roles |-> <<>>, mls_level |-> NULL, mls_range |-> NULL]
  BY DEF sepol_user_set_name, sepol_user_create
<1>2. <<>> \in Seq(STRING)
  OBVIOUS
<1> QED
  BY <1>1, <1>2 DEF UserType

LEMMA RolesAdded ==
  ASSUME NEW name \in Int, NEW all \in SUBSET DOMAIN RoleNames
  PROVE  /\ AddRoles(sepol_user_set_name(sepol_user_create, name), RoleNames, all)
               = [name |-> name, roles |-> RoleList(all), mls_level |-> NULL, mls_range |-> NULL]
         /\ RoleList(all) \in Seq(STRING) /\ Injective(RoleList(all))
<1>1. PICK u : u = sepol_user_set_name(sepol_user_create, name)
  OBVIOUS
<1>2. u = [name |-> name, roles |-> <<>>, mls_level |-> NULL, mls_range |-> NULL]
      /\ u \in UserType
  BY <1>1, NamedUser
<1>3. RoleNames \in Seq(STRING) /\ Injective(RoleNames) /\ all \in SUBSET (1 .. Len(RoleNames))
  BY RolesAssumption
<1>4. u.roles = <<>> /\ u.name = name /\ u.mls_level = NULL /\ u.mls_range = NULL
  BY <1>2
<1>5. PICK roles \in Seq(STRING) :
         /\ Enumerates(roles, RoleNames, all)
         /\ AddRoles(u, RoleNames, all)
               = [name |-> u.name, roles |-> roles, mls_level |-> u.mls_level,
                  mls_range |-> u.mls_range]
  BY <1>2, <1>3, <1>4, RolesEnumerated
<1>6. roles = RoleList(all)
  BY <1>3, <1>5, EnumerationIs DEF RoleList
<1>7. Injective(roles)
  BY <1>3, <1>5, EnumerationInjective
<1> QED
  BY <1>1, <1>4, <1>5, <1>6, <1>7

LEMMA WithLevels ==
  ASSUME NEW u, NEW name, NEW roles, NEW l, NEW r, NEW x, NEW y,
         u = [name |-> name, roles |-> roles, mls_level |-> x, mls_range |-> y]
  PROVE  [u EXCEPT !.mls_level = l, !.mls_range = r]
            = [name |-> name, roles |-> roles, mls_level |-> l, mls_range |-> r]
<1> DEFINE v == [u EXCEPT !.mls_level = l]
<1>1. [u EXCEPT !.mls_level = l, !.mls_range = r] = [v EXCEPT !.mls_range = r]
  BY Zenon
<1>2. v = [name |-> name, roles |-> roles, mls_level |-> l, mls_range |-> y]
  OBVIOUS
<1> HIDE DEF v
<1> QED
  BY <1>1, <1>2

\* A copy has the same roles as long as none occurs twice.
LEMMA UserCloned ==
  ASSUME NEW u \in UserType
  PROVE  /\ sepol_user_clone(u) \in UserType
         /\ Injective(u.roles) => sepol_user_clone(u) = u
<1>1. PICK c : c = sepol_user_set_name(sepol_user_create, u.name)
  OBVIOUS
<1>2. /\ u = [name |-> u.name, roles |-> u.roles, mls_level |-> u.mls_level,
              mls_range |-> u.mls_range]
      /\ u.name \in Int /\ u.roles \in Seq(STRING)
      /\ u.mls_level \in STRING \cup {NULL} /\ u.mls_range \in STRING \cup {NULL}
  BY UserParts
<1>3. c = [name |-> u.name, roles |-> <<>>, mls_level |-> NULL, mls_range |-> NULL]
      /\ c \in UserType
  BY <1>1, <1>2, NamedUser
<1>4. PICK v : v = AddRoles(c, u.roles, DOMAIN u.roles)
  OBVIOUS
<1>5. sepol_user_clone(u) = [v EXCEPT !.mls_level = u.mls_level, !.mls_range = u.mls_range]
  BY <1>1, <1>4 DEF sepol_user_clone
<1>6. v \in UserType
  <2>1. PICK names, n, places : names = u.roles /\ n = Len(names) /\ n \in Nat
                                /\ places = DOMAIN u.roles
    BY <1>2
  <2>2. \E f \in [0 .. Len(names) -> UserType] :
            /\ f[0] = c
            /\ \A i \in 1 .. Len(names) :
                   f[i] = IF i \in places THEN sepol_user_add_role(f[i - 1], names[i])
                          ELSE f[i - 1]
            /\ AddRoles(c, names, places) = f[Len(names)]
    <3>1. names \in Seq(STRING) /\ c \in UserType
      BY <1>2, <1>3, <2>1
    <3> QED
      BY <3>1, AddRolesSteps
  <2>3. PICK f \in [0 .. n -> UserType] : AddRoles(c, names, places) = f[n]
    BY <2>1, <2>2
  <2> QED
    BY <1>4, <2>1, <2>3
<1>7. sepol_user_clone(u) = [name |-> v.name, roles |-> v.roles,
                             mls_level |-> u.mls_level, mls_range |-> u.mls_range]
  BY <1>5, <1>6, UserParts, WithLevels
<1>8. sepol_user_clone(u) \in UserType
  BY <1>2, <1>6, <1>7, UserParts DEF UserType
<1>9. ASSUME Injective(u.roles) PROVE v.name = u.name /\ v.roles = u.roles
  <2>1. PICK names : names = u.roles /\ names \in Seq(STRING) /\ Injective(names)
                     /\ DOMAIN u.roles = 1 .. Len(names)
    BY <1>2, <1>9
  <2>2. c.roles = <<>> /\ c.name = u.name
    BY <1>3
  <2>3. PICK roles \in Seq(STRING) :
           /\ Enumerates(roles, names, 1 .. Len(names))
           /\ AddRoles(c, names, 1 .. Len(names))
                 = [name |-> c.name, roles |-> roles, mls_level |-> c.mls_level,
                    mls_range |-> c.mls_range]
    <3>1. PICK places : places = 1 .. Len(names) /\ places \in SUBSET (1 .. Len(names))
      OBVIOUS
    <3>2. \E roles \in Seq(STRING) :
             /\ Enumerates(roles, names, places)
             /\ AddRoles(c, names, places)
                   = [name |-> c.name, roles |-> roles, mls_level |-> c.mls_level,
                      mls_range |-> c.mls_range]
      BY <1>3, <2>1, <2>2, <3>1, RolesEnumerated
    <3> QED
      BY <3>1, <3>2
  <2>4. roles = names
    BY <2>1, <2>3, EnumerateAll
  <2> QED
    BY <1>4, <2>1, <2>2, <2>3, <2>4
<1> QED
  BY <1>2, <1>7, <1>8, <1>9

-----------------------------------------------------------------------------
(***************************************************************************)
(* Users.                                                                  *)
(***************************************************************************)
LEMMA UserBuilt ==
  ASSUME NEW u \in UserDatum, NEW l, NEW r
  PROVE  LET named == AddRoles(sepol_user_set_name(sepol_user_create, u.name), RoleNames, u.roles)
         IN /\ named = [name |-> u.name, roles |-> RoleList(u.roles), mls_level |-> NULL,
                        mls_range |-> NULL]
            /\ sepol_user_set_mlsrange(sepol_user_set_mlslevel(named, l), r)
                  = [name |-> u.name, roles |-> RoleList(u.roles), mls_level |-> l,
                     mls_range |-> r]
<1>1. u.name \in Int /\ u.roles \in SUBSET DOMAIN RoleNames
  BY DEF UserDatum
<1> DEFINE named == AddRoles(sepol_user_set_name(sepol_user_create, u.name), RoleNames, u.roles)
           a == sepol_user_set_mlslevel(named, l)
<1>2. named = [name |-> u.name, roles |-> RoleList(u.roles), mls_level |-> NULL,
               mls_range |-> NULL]
  BY <1>1, RolesAdded
<1> HIDE DEF named
<1>3. a = [name |-> u.name, roles |-> RoleList(u.roles), mls_level |-> l, mls_range |-> NULL]
  BY <1>2 DEF sepol_user_set_mlslevel
<1> HIDE DEF a
<1>4. sepol_user_set_mlsrange(a, r)
         = [name |-> u.name, roles |-> RoleList(u.roles), mls_level |-> l, mls_range |-> r]
  BY <1>3 DEF sepol_user_set_mlsrange
<1> QED
  BY <1>2, <1>4 DEF a, named

LEMMA UserRecordIs ==
  ASSUME UsersTyped, NEW i \in DOMAIN users
  PROVE  user_to_record(i) = IF mls => users[i].range # NoRange THEN RecordOf(mls, users[i])
                             ELSE HalfOf(users[i])
<1>1. PICK u : u = users[i] /\ u \in UserDatum
  BY DEF UsersTyped
<1>2. PICK named : named = AddRoles(sepol_user_set_name(sepol_user_create, u.name), RoleNames,
                                    u.roles)
  OBVIOUS
<1>3. PICK l, r : /\ l = IF mls => u.range # NoRange THEN MlsString[Point(u.level)] ELSE Unknown
                  /\ r = IF mls => u.range # NoRange THEN MlsString[u.range] ELSE Unknown
  OBVIOUS
<1>4. user_to_record(i)
         = IF ~mls THEN named
           ELSE sepol_user_set_mlsrange(sepol_user_set_mlslevel(named, l), r)
  BY <1>1, <1>2, <1>3 DEF user_to_record, Whole, mls_to_string
<1>5. /\ named = [name |-> u.name, roles |-> RoleList(u.roles), mls_level |-> NULL,
                  mls_range |-> NULL]
      /\ sepol_user_set_mlsrange(sepol_user_set_mlslevel(named, l), r)
            = [name |-> u.name, roles |-> RoleList(u.roles), mls_level |-> l, mls_range |-> r]
  BY <1>1, <1>2, UserBuilt
<1>6. CASE ~mls
  BY <1>1, <1>4, <1>5, <1>6 DEF RecordOf
<1>7. CASE mls /\ u.range # NoRange
  BY <1>1, <1>3, <1>4, <1>5, <1>7 DEF RecordOf
<1>8. CASE mls /\ u.range = NoRange
  BY <1>1, <1>3, <1>4, <1>5, <1>8 DEF HalfOf
<1> QED
  BY <1>6, <1>7, <1>8, <1>1

LEMMA SaidUserIs ==
  ASSUME NEW d \in UserType
  PROVE  SaidUser(d)
            = [name |-> d.name, roles |-> RoleList(Dominated(d.roles)),
               mls_level |-> IF d.mls_level = NULL THEN NULL
                             ELSE MlsString[Point(MlsOf[d.mls_level].low)],
               mls_range |-> IF d.mls_range = NULL THEN NULL ELSE MlsString[MlsOf[d.mls_range]]]
<1>1. d = [name |-> d.name, roles |-> d.roles, mls_level |-> d.mls_level,
           mls_range |-> d.mls_range]
  BY UserParts
<1> DEFINE a == [d EXCEPT !.roles = RoleList(Dominated(@))]
           b == [a EXCEPT !.mls_level = IF @ = NULL THEN NULL
                                        ELSE MlsString[Point(MlsOf[@].low)]]
<1>2. SaidUser(d) = [b EXCEPT !.mls_range = IF @ = NULL THEN NULL ELSE MlsString[MlsOf[@]]]
  BY Zenon DEF SaidUser, SaidRoles, RoleList
<1>3. a = [name |-> d.name, roles |-> RoleList(Dominated(d.roles)), mls_level |-> d.mls_level,
           mls_range |-> d.mls_range]
  BY <1>1
<1> HIDE DEF a
<1>4. b = [name |-> d.name, roles |-> RoleList(Dominated(d.roles)),
           mls_level |-> IF d.mls_level = NULL THEN NULL
                         ELSE MlsString[Point(MlsOf[d.mls_level].low)],
           mls_range |-> d.mls_range]
  BY <1>3
<1> HIDE DEF b
<1> QED
  BY <1>2, <1>4

LEMMA MaxIn ==
  ASSUME NEW n \in Nat, NEW S \in SUBSET (0 .. n), 0 \in S
  PROVE  Max(S) \in S
<1>1. PICK T : T = {n - y : y \in S} /\ T \in SUBSET Nat /\ T # {}
  <2>1. \A y \in S : n - y \in Nat
    OBVIOUS
  <2>2. {n - y : y \in S} \in SUBSET Nat /\ n - 0 \in {n - y : y \in S}
    BY <2>1
  <2> QED
    BY <2>2
<1>2. Min(T) \in T /\ \A y \in T : Min(T) <= y
  BY <1>1, MinIs
<1>3. PICK x \in S : Min(T) = n - x
  BY <1>1, <1>2
<1>4. \A y \in S : x >= y
  <2> TAKE y \in S
  <2>1. n - x <= n - y /\ x \in Nat /\ y \in Nat
    BY <1>1, <1>2, <1>3
  <2> QED
    BY <2>1
<1> QED
  BY <1>4 DEF Max

\* The roles that are taken before the first that is not known.
Known(roles) ==
    {n \in 0 .. Len(roles) : \A i \in 1 .. n : ValueIn(RoleNames, roles[i]) # 0}
Taken(roles) == SubSeq(roles, 1, Max(Known(roles)))

LEMMA RolesTaken ==
  ASSUME NEW roles \in Seq(STRING)
  PROVE  Dominated(Taken(roles)) \in SUBSET DOMAIN RoleNames
<1>1. PICK m : m = Max(Known(roles))
  OBVIOUS
<1>2. m \in 0 .. Len(roles) /\ \A i \in 1 .. m : ValueIn(RoleNames, roles[i]) # 0
  <2>1. Known(roles) \in SUBSET (0 .. Len(roles)) /\ 0 \in Known(roles) /\ Len(roles) \in Nat
    BY DEF Known
  <2>2. m \in Known(roles)
    BY <1>1, <2>1, MaxIn
  <2> QED
    BY <2>2 DEF Known
<1>3. PICK t : t = Taken(roles) /\ DOMAIN t = 1 .. m /\ \A i \in 1 .. m : t[i] = roles[i]
  <2>1. SubSeq(roles, 1, m) = Taken(roles)
    BY <1>1 DEF Taken
  <2>2. DOMAIN SubSeq(roles, 1, m) = 1 .. m /\ \A i \in 1 .. m : SubSeq(roles, 1, m)[i] = roles[i]
    BY <1>2
  <2> QED
    BY <2>1, <2>2
<1>4. ASSUME NEW i \in DOMAIN t
      PROVE  Dominates[ValueIn(RoleNames, t[i])] \in SUBSET DOMAIN RoleNames
  <2>1. ValueIn(RoleNames, t[i]) \in DOMAIN RoleNames
    BY <1>2, <1>3, ValueIs
  <2> QED
    BY <2>1, RolesAssumption
<1>5. Dominated(t) \in SUBSET DOMAIN RoleNames
  BY <1>4 DEF Dominated
<1> QED
  BY <1>3, <1>5

\* What a call makes of the user it names.
LevelOf(d) == IF d.mls_level = NULL THEN NoRange ELSE mls_from_string(d.mls_level)
RangeOf(d) == IF d.mls_range = NULL THEN NoRange ELSE mls_from_string(d.mls_range)
LevelOK(d) == Taken(d.roles) = d.roles /\ mls /\ LevelOf(d) # NoRange
UserOK(d) ==
    IF mls THEN LevelOK(d) /\ RangeOf(d) # NoRange
    ELSE Taken(d.roles) = d.roles /\ d.mls_level = NULL /\ d.mls_range = NULL
Modified(d) ==
    [name |-> d.name, roles |-> Dominated(Taken(d.roles)), cache |-> {},
     level |-> IF LevelOK(d) THEN LevelOf(d).low ELSE 0,
     range |-> IF UserOK(d) /\ mls THEN RangeOf(d) ELSE NoRange]

LEMMA ModifyIs ==
  ASSUME NEW d, sepol_user_modify(d)
  PROVE  LET i == ValueIn(Names(users), d.name)
             new == [Modified(d) EXCEPT !.cache = Modified(d).roles]
         IN /\ mls' = mls
            /\ users' = IF i # 0 THEN [users EXCEPT ![i] = Modified(d)]
                        ELSE IF UserOK(d) THEN Append(users, new) ELSE users
            /\ Expect("user", UserOK(d) \/ i # 0, sepol_user_key_extract(d),
                      IF UserOK(d) THEN SaidUser(d) ELSE HalfUser(d.name, Taken(d.roles)))
            /\ UNCHANGED <<bools, conds, ocon>>
<1> DEFINE taken == Taken(d.roles)
           rolesok == taken = d.roles
           levelok == rolesok /\ mls /\ LevelOf(d) # NoRange
           ok == IF mls THEN levelok /\ RangeOf(d) # NoRange
                 ELSE rolesok /\ d.mls_level = NULL /\ d.mls_range = NULL
           Filled(u) == [u EXCEPT !.roles = Dominated(taken),
                                  !.level = IF levelok THEN LevelOf(d).low ELSE @,
                                  !.range = IF ok /\ mls THEN RangeOf(d) ELSE @]
           Expanded(u) == [u EXCEPT !.cache = u.roles]
           f == Filled(user_datum_init(d.name))
<1>1. \E i \in {ValueIn(Names(users), d.name)} :
         /\ Called(ok)
         /\ users' = IF i # 0 THEN [users EXCEPT ![i] = f]
                     ELSE IF ok THEN Append(users, Expanded(f))
                     ELSE users
         /\ Expect("user", ok \/ i # 0, sepol_user_key_extract(d),
                   IF ok THEN SaidUser(d) ELSE HalfUser(d.name, taken))
         /\ UNCHANGED <<bools, conds, ocon>>
  BY Zenon DEF sepol_user_modify, Taken, Known, LevelOf, RangeOf
<1>2. LevelOK(d) <=> levelok
  BY DEF LevelOK
<1>3. UserOK(d) <=> ok
  BY <1>2 DEF UserOK
<1>4. f = Modified(d)
  <2> DEFINE u == user_datum_init(d.name)
             a == [u EXCEPT !.roles = Dominated(taken)]
             b == [a EXCEPT !.level = IF levelok THEN LevelOf(d).low ELSE @]
  <2>1. f = [b EXCEPT !.range = IF ok /\ mls THEN RangeOf(d) ELSE @]
    BY Zenon
  <2>2. u = [name |-> d.name, roles |-> {}, cache |-> {}, level |-> 0, range |-> NoRange]
    BY DEF user_datum_init
  <2> HIDE DEF u, taken, levelok, ok
  <2>3. a = [name |-> d.name, roles |-> Dominated(taken), cache |-> {}, level |-> 0,
             range |-> NoRange]
    BY <2>2
  <2> HIDE DEF a
  <2>4. b = [name |-> d.name, roles |-> Dominated(taken), cache |-> {},
             level |-> IF levelok THEN LevelOf(d).low ELSE 0, range |-> NoRange]
    BY <2>3
  <2> HIDE DEF b, f
  <2>5. f = [name |-> d.name, roles |-> Dominated(taken), cache |-> {},
             level |-> IF levelok THEN LevelOf(d).low ELSE 0,
             range |-> IF ok /\ mls THEN RangeOf(d) ELSE NoRange]
    BY <2>1, <2>4
  <2> QED
    BY <1>2, <1>3, <2>5 DEF Modified, taken
<1> HIDE DEF f, ok
<1>5. Expanded(f) = [Modified(d) EXCEPT !.cache = Modified(d).roles]
  BY <1>4
<1> QED
  BY <1>1, <1>3, <1>4, <1>5 DEF Called

LEMMA ModifiedIs ==
  ASSUME mls \in BOOLEAN, NEW d \in UserType
  PROVE  /\ Modified(d) \in UserDatum
         /\ UserOK(d) => /\ RecordOf(mls, Modified(d)) = SaidUser(d)
                         /\ SaidUser(d) \in UserType
                         /\ mls => Modified(d).range # NoRange
         /\ ~UserOK(d) => Modified(d).range = NoRange
         /\ HalfUser(d.name, Taken(d.roles)) = HalfOf(Modified(d))
<1>1. PICK u : u = Modified(d)
  OBVIOUS
<1>2. PICK roles, level, range : /\ roles = Dominated(Taken(d.roles))
                                 /\ level = IF LevelOK(d) THEN LevelOf(d).low ELSE 0
                                 /\ range = IF UserOK(d) /\ mls THEN RangeOf(d) ELSE NoRange
  OBVIOUS
<1>3. u = [name |-> d.name, roles |-> roles, cache |-> {}, level |-> level, range |-> range]
  BY <1>1, <1>2 DEF Modified
<1>4. /\ d.name \in Int /\ d.roles \in Seq(STRING)
      /\ d.mls_level \in STRING \cup {NULL} /\ d.mls_range \in STRING \cup {NULL}
  BY UserParts
<1>5. NoRange \in MlsRange
  BY DEF NoRange, MlsRange
<1>6. LevelOf(d) \in MlsRange /\ RangeOf(d) \in MlsRange
  BY <1>5, MlsPrintedParsesBack DEF LevelOf, RangeOf, mls_from_string
<1>7. roles \in SUBSET DOMAIN RoleNames
  BY <1>2, <1>4, RolesTaken
<1>8. level \in Nat
  <2>1. LevelOf(d).low \in Nat
    BY <1>6 DEF MlsRange
  <2> QED
    BY <1>2, <2>1
<1>9. range \in MlsRange
  BY <1>2, <1>5, <1>6
<1>10. u \in UserDatum
  BY <1>3, <1>4, <1>7, <1>8, <1>9 DEF UserDatum
<1>11. ASSUME UserOK(d)
       PROVE  /\ RecordOf(mls, u) = SaidUser(d) /\ SaidUser(d) \in UserType
              /\ mls => range # NoRange
  <2>1. roles = Dominated(d.roles)
    BY <1>2, <1>11 DEF UserOK, LevelOK
  <2>2. RoleList(roles) \in Seq(STRING)
    BY <1>4, <1>7, RolesAdded
  <2>3. RecordOf(mls, u) = [name |-> d.name, roles |-> RoleList(roles),
                            mls_level |-> IF mls THEN MlsString[Point(level)] ELSE NULL,
                            mls_range |-> IF mls THEN MlsString[range] ELSE NULL]
    BY <1>3 DEF RecordOf
  <2>4. SaidUser(d)
          = [name |-> d.name, roles |-> RoleList(roles),
             mls_level |-> IF d.mls_level = NULL THEN NULL
                           ELSE MlsString[Point(MlsOf[d.mls_level].low)],
             mls_range |-> IF d.mls_range = NULL THEN NULL ELSE MlsString[MlsOf[d.mls_range]]]
    BY <2>1, SaidUserIs
  <2>5. CASE ~mls
    <3>1. d.mls_level = NULL /\ d.mls_range = NULL
      BY <1>11, <2>5 DEF UserOK
    <3> QED
      BY <1>4, <2>2, <2>3, <2>4, <2>5, <3>1 DEF UserType
  <2>6. CASE mls
    <3>1. LevelOK(d) /\ LevelOf(d) # NoRange /\ RangeOf(d) # NoRange
      BY <1>11, <2>6 DEF UserOK, LevelOK
    <3>2. /\ d.mls_level # NULL /\ d.mls_level \in DOMAIN MlsOf
          /\ level = MlsOf[d.mls_level].low
      BY <1>2, <3>1 DEF LevelOf, mls_from_string
    <3>3. /\ d.mls_range # NULL /\ d.mls_range \in DOMAIN MlsOf /\ range = MlsOf[d.mls_range]
          /\ range # NoRange
      BY <1>2, <1>11, <2>6, <3>1 DEF RangeOf, mls_from_string
    <3>4. MlsString[Point(level)] \in STRING /\ MlsString[range] \in STRING
      BY <3>2, <3>3, MlsPrintedParsesBack
    <3> QED
      BY <1>4, <2>2, <2>3, <2>4, <2>6, <3>2, <3>3, <3>4 DEF UserType
  <2> QED
    BY <2>5, <2>6
<1>12. HalfUser(d.name, Taken(d.roles)) = HalfOf(u)
  BY <1>2, <1>3 DEF HalfUser, HalfOf, SaidRoles, RoleList
<1> QED
  BY <1>1, <1>2, <1>3, <1>10, <1>11, <1>12

\* One user is set, the others are as they were.
LEMMA UserPut ==
  ASSUME UsersOK, mls' = mls, NEW new \in Seq(UserDatum), users' = new,
         NEW i \in DOMAIN new, DOMAIN new = DOMAIN users \cup {i},
         \A j \in DOMAIN users : users[j].name = new[i].name <=> j = i,
         \A j \in DOMAIN users : j # i => new[j] = users[j],
         NEW said, UserSaid(said, mls, new[i]),
         last'.user = Put(last.user, [name |-> new[i].name], said)
  PROVE  UsersOK' /\ NamesKept
<1>1. NamesKept
  BY DEF NamesKept
<1>2. UsersTyped'
  BY DEF UsersOK, UsersTyped
<1>3. \A x : sepol_user_key_extract(x) = [name |-> x.name]
  BY DEF sepol_user_key_extract, sepol_user_key_create
<1>4. \A j \in DOMAIN new : new[j].name = new[i].name => j = i
  OBVIOUS
<1>5. Injective(Names(new))
  <2>1. \A j, m \in DOMAIN users : users[j].name = users[m].name => j = m
    BY DEF UsersOK, Injective, Names
  <2>2. \A j, m \in DOMAIN new : new[j].name = new[m].name => j = m
    BY <1>4, <2>1
  <2> QED
    BY <2>2 DEF Injective, Names
<1>6. DOMAIN last'.user = {sepol_user_key_extract(new[j]) : j \in DOMAIN new}
  <2>1. DOMAIN last.user = {[name |-> users[j].name] : j \in DOMAIN users}
    BY <1>3 DEF UsersOK
  <2>2. DOMAIN last'.user = DOMAIN last.user \cup {[name |-> new[i].name]}
    BY DEF Put
  <2>3. {[name |-> users[j].name] : j \in DOMAIN users} \cup {[name |-> new[i].name]}
           = {[name |-> new[j].name] : j \in DOMAIN new}
    OBVIOUS
  <2>4. DOMAIN last'.user = {[name |-> new[j].name] : j \in DOMAIN new}
    BY <2>1, <2>2, <2>3, Zenon
  <2>5. {sepol_user_key_extract(new[j]) : j \in DOMAIN new}
           = {[name |-> new[j].name] : j \in DOMAIN new}
    BY <1>3
  <2> QED
    BY <2>4, <2>5
<1>7. ASSUME NEW j \in DOMAIN new
      PROVE  UserSaid(last'.user[sepol_user_key_extract(new[j])], mls, new[j])
  <2>1. PICK k : k = sepol_user_key_extract(new[j]) /\ k = [name |-> new[j].name]
    BY <1>3
  <2>2. CASE j = i
    <3>1. last'.user[k] = said
      BY <2>1, <2>2 DEF Put
    <3> QED
      BY <2>1, <2>2, <3>1
  <2>3. CASE j # i
    <3>1. j \in DOMAIN users /\ new[j] = users[j]
      BY <2>3
    <3>2. k # [name |-> new[i].name]
      BY <1>4, <2>1, <2>3
    <3>3. k = sepol_user_key_extract(users[j]) /\ k \in DOMAIN last.user
          /\ UserSaid(last.user[k], mls, users[j])
      BY <2>1, <3>1 DEF UsersOK
    <3>4. last'.user[k] = last.user[k]
      BY <3>2, <3>3 DEF Put
    <3> QED
      BY <2>1, <3>1, <3>3, <3>4
  <2> QED
    BY <2>2, <2>3
<1>8. \A j \in DOMAIN users' :
         UserSaid(last'.user[sepol_user_key_extract(users'[j])], mls', users'[j])
  BY <1>7
<1>9. Injective(Names(users))' /\ DOMAIN users' = DOMAIN new
  BY <1>5 DEF Names, Injective
<1>10. DOMAIN last'.user = {sepol_user_key_extract(users'[j]) : j \in DOMAIN users'}
  BY <1>6
<1> QED
  BY <1>1, <1>2, <1>8, <1>9, <1>10, Zenon
     DEF UsersOK, UserSaid, RecordOf, HalfOf, sepol_user_key_extract, sepol_user_key_create, Point,
         RoleList

LEMMA UsersKept ==
  ASSUME UsersOK, mls' = mls, users' = users, last'.user = last.user
  PROVE  UsersOK'
<1>1. UsersTyped'
  BY DEF UsersOK, UsersTyped
<1>2. Injective(Names(users))'
  BY DEF UsersOK, Names, Injective
<1>3. (DOMAIN last.user = {sepol_user_key_extract(users[i]) : i \in DOMAIN users})'
  BY DEF UsersOK, sepol_user_key_extract, sepol_user_key_create
<1>4. (\A i \in DOMAIN users :
          UserSaid(last.user[sepol_user_key_extract(users[i])], mls, users[i]))'
  BY DEF UsersOK, UserSaid, RecordOf, HalfOf, sepol_user_key_extract, sepol_user_key_create
<1> QED
  BY <1>1, <1>2, <1>3, <1>4 DEF UsersOK

\* A user that exists is emptied and filled, another is added when the data are good.
LEMMA UsersModified ==
  ASSUME Shapes, UsersOK, NEW d \in UserType, sepol_user_modify(d)
  PROVE  UsersOK' /\ NamesKept
<1>1. PICK list : list = users /\ list \in Seq(UserDatum) /\ DOMAIN list = 1 .. Len(list)
                  /\ Len(list) \in Nat
  BY DEF UsersOK, UsersTyped
<1>2. PICK i : i = ValueIn(Names(list), d.name)
  OBVIOUS
<1>3. PICK u : u = Modified(d) /\ u \in UserDatum
  BY ModifiedIs DEF UsersOK, UsersTyped
<1>4. u.name = d.name /\ u.cache = {}
  BY <1>3 DEF Modified
<1>5. PICK new : new = [u EXCEPT !.cache = u.roles]
  OBVIOUS
<1>6. new \in UserDatum /\ new.name = d.name /\ new.cache = new.roles /\ new.range = u.range
      /\ RecordOf(mls, new) = RecordOf(mls, u)
  BY <1>3, <1>4, <1>5 DEF UserDatum, RecordOf
<1>7. PICK said : said = IF UserOK(d) THEN SaidUser(d) ELSE HalfUser(d.name, Taken(d.roles))
  OBVIOUS
<1>8. /\ mls' = mls
      /\ users' = IF i # 0 THEN [list EXCEPT ![i] = u]
                  ELSE IF UserOK(d) THEN Append(list, new) ELSE list
      /\ Expect("user", UserOK(d) \/ i # 0, sepol_user_key_extract(d), said)
  BY <1>1, <1>2, <1>3, <1>5, <1>7, ModifyIs
<1>9. last'.user = IF UserOK(d) \/ i # 0 THEN Put(last.user, [name |-> d.name], said)
                   ELSE last.user
  <2>1. "user" \in Kinds /\ sepol_user_key_extract(d) = [name |-> d.name]
    BY DEF Kinds, sepol_user_key_extract, sepol_user_key_create
  <2> QED
    BY <1>8, <2>1, ExpectStep
<1>10. UserSaid(said, mls, u)
  BY <1>3, <1>4, <1>7, ModifiedIs DEF UserSaid, UsersOK, UsersTyped
<1>11. UserOK(d) => UserSaid(said, mls, new)
  BY <1>3, <1>6, <1>7, ModifiedIs DEF UserSaid, UsersOK, UsersTyped
<1>12. /\ i \in DOMAIN list \cup {0}
       /\ i # 0 => list[i].name = d.name
       /\ i = 0 => \A j \in DOMAIN list : list[j].name # d.name
  <2>1. 0 \notin DOMAIN list /\ DOMAIN Names(list) = DOMAIN list
        /\ \A j \in DOMAIN list : Names(list)[j] = list[j].name
    BY <1>1 DEF Names
  <2> QED
    BY <1>2, <2>1, ValueIs
<1>13. \A j, m \in DOMAIN list : list[j].name = list[m].name => j = m
  BY <1>1 DEF UsersOK, Injective, Names
<1>14. CASE i # 0
  <2>1. PICK to : to = [list EXCEPT ![i] = u]
    OBVIOUS
  <2>2. /\ to \in Seq(UserDatum) /\ DOMAIN to = DOMAIN list /\ to[i] = u
        /\ \A j \in DOMAIN list : j # i => to[j] = list[j]
    BY <1>1, <1>3, <1>12, <1>14, <2>1, ExceptSeq
  <2>3. i \in DOMAIN to /\ DOMAIN to = DOMAIN users \cup {i}
    BY <1>1, <1>12, <1>14, <2>2
  <2>4. \A j \in DOMAIN users : users[j].name = to[i].name <=> j = i
    BY <1>1, <1>4, <1>12, <1>13, <1>14, <2>2
  <2>5. last'.user = Put(last.user, [name |-> to[i].name], said)
    BY <1>4, <1>9, <1>14, <2>2
  <2>6. users' = to /\ mls' = mls /\ UserSaid(said, mls, to[i])
    BY <1>8, <1>10, <1>14, <2>1, <2>2
  <2>7. \A j \in DOMAIN users : j # i => to[j] = users[j]
    BY <1>1, <2>2
  <2> QED
    BY <2>2, <2>3, <2>4, <2>5, <2>6, <2>7, UserPut
<1>15. CASE i = 0 /\ UserOK(d)
  <2>1. PICK to : to = Append(list, new)
    OBVIOUS
  <2>2. PICK n : n = Len(list) + 1
    OBVIOUS
  <2>3. /\ to \in Seq(UserDatum) /\ DOMAIN to = DOMAIN list \cup {n} /\ to[n] = new
        /\ n \notin DOMAIN list
        /\ \A j \in DOMAIN list : to[j] = list[j]
    BY <1>1, <1>6, <2>1, <2>2
  <2>4. \A j \in DOMAIN users : users[j].name = to[n].name <=> j = n
    BY <1>1, <1>6, <1>12, <1>15, <2>3
  <2>5. last'.user = Put(last.user, [name |-> to[n].name], said)
    BY <1>6, <1>9, <1>15, <2>3
  <2>6. users' = to /\ mls' = mls /\ UserSaid(said, mls, to[n])
    BY <1>8, <1>11, <1>15, <2>1, <2>3
  <2>7. n \in DOMAIN to /\ DOMAIN to = DOMAIN users \cup {n}
        /\ \A j \in DOMAIN users : j # n => to[j] = users[j]
    BY <1>1, <2>3
  <2> QED
    BY <2>3, <2>4, <2>5, <2>6, <2>7, UserPut
<1>16. CASE i = 0 /\ ~UserOK(d)
  <2>1. mls' = mls /\ users' = users /\ last'.user = last.user
    BY <1>1, <1>8, <1>9, <1>16
  <2> QED
    BY <2>1, UsersKept DEF NamesKept
<1> QED
  BY <1>14, <1>15, <1>16

-----------------------------------------------------------------------------
(***************************************************************************)
(* A user that is read, edited and handed back.                            *)
(***************************************************************************)
LEMMA Deleted ==
  ASSUME NEW roles \in Seq(STRING), NEW i \in 1 .. Len(roles)
  PROVE  DeleteAt(roles, i) \in Seq(STRING)
<1>1. PICK n : n = Len(roles) /\ n \in Nat /\ roles[n] \in STRING /\ n >= 1
  OBVIOUS
<1>2. PICK moved : moved = [roles EXCEPT ![i] = roles[n]]
  OBVIOUS
<1>3. moved \in Seq(STRING) /\ Len(moved) = n
  BY <1>1, <1>2, ExceptSeq
<1>4. \A j \in 1 .. n - 1 : moved[j] \in STRING
  BY <1>1, <1>3
<1>5. SubSeq(moved, 1, n - 1) \in Seq(STRING)
  BY <1>1, <1>3, <1>4
<1> QED
  BY <1>1, <1>2, <1>5 DEF DeleteAt

LEMMA DelRole ==
  ASSUME NEW u \in UserType, NEW role
  PROVE  sepol_user_del_role(u, role) \in UserType
<1> DEFINE n == Len(u.roles)
           Step(i, v) == IF i \in DOMAIN v /\ v[i] = role THEN DeleteAt(v, i) ELSE v
           P(f) == f = [i \in 0 .. n |-> IF i = 0 THEN u.roles
                                         ELSE IF i \in DOMAIN f[i - 1] /\ f[i - 1][i] = role
                                              THEN DeleteAt(f[i - 1], i) ELSE f[i - 1]]
           s == [p \in (1 .. n) \X Seq(STRING) |-> Step(p[1], p[2])]
<1>1. u.roles \in Seq(STRING) /\ n \in Nat
  BY UserParts
<1>2. s \in Steps(n, Seq(STRING))
  <2>1. ASSUME NEW i \in 1 .. n, NEW v \in Seq(STRING) PROVE Step(i, v) \in Seq(STRING)
    <3>1. DOMAIN v = 1 .. Len(v)
      OBVIOUS
    <3> QED
      BY <3>1, Deleted
  <2> HIDE DEF Step
  <2> QED
    BY <2>1 DEF Steps
<1>3. PICK f \in [0 .. n -> Seq(STRING)] :
          f[0] = u.roles /\ \A i \in 1 .. n : f[i] = s[<<i, f[i - 1]>>]
  <2> HIDE DEF s, n, P
  <2>1. \E f : Follows(f, n, Seq(STRING), u.roles, s)
    BY <1>1, <1>2, Iterates
  <2> QED
    BY <2>1 DEF Follows
<1>4. \A i \in 1 .. n : f[i - 1] \in Seq(STRING)
  BY <1>1, <1>3
<1>5. \A i \in 1 .. n : f[i] = Step(i, f[i - 1])
  <2> HIDE DEF Step
  <2> QED
    BY <1>3, <1>4
<1>6. P(f)
  BY <1>1, <1>3, <1>5
<1>7. \A g : P(g) => g = f
  <2> TAKE g
  <2> HAVE P(g)
  <2>1. /\ DOMAIN g = 0 .. n /\ g[0] = u.roles
        /\ \A i \in 1 .. n : g[i] = Step(i, g[i - 1])
    <3> DEFINE F(i) == IF i = 0 THEN u.roles
                       ELSE IF i \in DOMAIN g[i - 1] /\ g[i - 1][i] = role
                            THEN DeleteAt(g[i - 1], i) ELSE g[i - 1]
    <3>1. g = [i \in 0 .. n |-> F(i)]
      OBVIOUS
    <3>2. F(0) = u.roles /\ \A i \in 1 .. n : F(i) = Step(i, g[i - 1])
      OBVIOUS
    <3> HIDE DEF F, Step, P
    <3>3. DOMAIN g = 0 .. n /\ \A i \in 0 .. n : g[i] = F(i)
      BY <3>1
    <3> QED
      BY <1>1, <3>2, <3>3
  <2>2. PICK S : S = {i \in 0 .. n : g[i] = f[i]}
    OBVIOUS
  <2> HIDE DEF P, Step, n
  <2>3. S = 0 .. n
    <3>1. S \in SUBSET (0 .. n) /\ 0 \in S
      BY <1>1, <1>3, <2>1, <2>2
    <3>2. \A i \in 1 .. n : i - 1 \in S => i \in S
      BY <1>1, <1>5, <2>1, <2>2
    <3> QED
      BY <1>1, <3>1, <3>2, Induct
  <2>4. g = [i \in 0 .. n |-> g[i]]
    BY <2>1, P(g) DEF P
  <2>5. f = [i \in 0 .. n |-> f[i]]
    OBVIOUS
  <2> QED
    BY <2>2, <2>3, <2>4, <2>5
<1>8. sepol_user_del_role(u, role) = [u EXCEPT !.roles = (CHOOSE g : P(g))[n]]
  BY DEF sepol_user_del_role
<1>9. (CHOOSE g : P(g)) = f
  <2> HIDE DEF P
  <2> QED
    BY <1>6, <1>7
<1>10. f[n] \in Seq(STRING)
  BY <1>1, <1>3
<1>11. PICK roles : roles = f[n] /\ roles \in Seq(STRING)
  BY <1>10
<1>12. sepol_user_del_role(u, role) = [u EXCEPT !.roles = roles]
  BY <1>8, <1>9, <1>11, Zenon
<1> HIDE DEF n, P
<1> QED
  BY <1>11, <1>12, WithRoles

\* What a client reads of a user with a range.
LEMMA UserRead ==
  ASSUME UsersOK, NEW i \in DOMAIN users, Whole(users[i])
  PROVE  /\ sepol_user_query(sepol_user_key_create(users[i].name)) = RecordOf(mls, users[i])
         /\ RecordOf(mls, users[i]) \in UserType
<1>1. users \in Seq(UserDatum) /\ i \in 1 .. Len(users) /\ i # 0 /\ users[i] \in UserDatum
      /\ mls \in BOOLEAN
  BY DEF UsersOK, UsersTyped
<1>2. ValueIn(Names(users), users[i].name) = i
  <2>1. i \in DOMAIN Names(users) /\ Names(users)[i] = users[i].name /\ Injective(Names(users))
    BY DEF Names, UsersOK
  <2> QED
    BY <2>1, ValueOf
<1>3. user_to_record(i) = RecordOf(mls, users[i])
  BY UserRecordIs DEF UsersOK, Whole
<1>4. sepol_user_query(sepol_user_key_create(users[i].name)) = RecordOf(mls, users[i])
  BY <1>1, <1>2, <1>3 DEF sepol_user_query, sepol_user_key_create
<1>5. RecordOf(mls, users[i]) \in UserType
  <2>1. PICK said : UserSaid(said, mls, users[i])
    BY DEF UsersOK
  <2>2. CASE said = RecordOf(mls, users[i]) /\ said \in UserType
    BY <2>2
  <2>3. CASE users[i].range = NoRange
    <3>1. ~mls
      BY <2>3 DEF Whole
    <3>2. users[i].name \in Int /\ users[i].roles \in SUBSET DOMAIN RoleNames
      BY <1>1 DEF UserDatum
    <3>3. RoleList(users[i].roles) \in Seq(STRING)
      BY <3>2, RolesAdded
    <3> QED
      BY <3>1, <3>2, <3>3 DEF RecordOf, UserType
  <2> QED
    BY <2>1, <2>2, <2>3 DEF UserSaid
<1> QED
  BY <1>4, <1>5

LEMMA UserEdited ==
  ASSUME UsersOK, EditUser
  PROVE  \E d \in UserType : sepol_user_modify(d)
<1>1. PICK i \in DOMAIN users, role \in {RoleNames[r] : r \in DOMAIN RoleNames} :
          /\ Whole(users[i])
          /\ \E u \in {sepol_user_query(sepol_user_key_create(users[i].name))} :
                \/ sepol_user_modify(sepol_user_add_role(u, role))
                \/ sepol_user_modify(sepol_user_del_role(u, role))
  BY DEF EditUser
<1>2. role \in STRING
  BY RolesAssumption
<1>3. PICK u : /\ u = sepol_user_query(sepol_user_key_create(users[i].name))
               /\ \/ sepol_user_modify(sepol_user_add_role(u, role))
                  \/ sepol_user_modify(sepol_user_del_role(u, role))
  BY <1>1
<1>4. u \in UserType
  BY <1>1, <1>3, UserRead
<1>5. sepol_user_add_role(u, role) \in UserType /\ sepol_user_del_role(u, role) \in UserType
  BY <1>2, <1>4, AddRole, DelRole
<1> QED
  BY <1>3, <1>5

-----------------------------------------------------------------------------
(***************************************************************************)
(* Every call keeps the invariant.                                         *)
(***************************************************************************)
\* What a call leaves alone stays as it should be.
LEMMA RestKept ==
  ASSUME IInv, NamesKept, Shapes',
         PortsOK' \/ (ocon'.port = ocon.port /\ last'.port = last.port),
         NodesOK' \/ (ocon'.node = ocon.node /\ ocon'.node6 = ocon.node6
                         /\ last'.node = last.node),
         IfacesOK' \/ (ocon'.netif = ocon.netif /\ last'.iface = last.iface),
         IbpkeysOK' \/ (ocon'.ibpkey = ocon.ibpkey /\ last'.ibpkey = last.ibpkey),
         IbendportsOK' \/ (ocon'.ibendport = ocon.ibendport
                              /\ last'.ibendport = last.ibendport),
         BoolsOK' \/ (bools' = bools /\ conds' = conds /\ last'.bool = last.bool),
         UsersOK' \/ (users' = users /\ last'.user = last.user)
  PROVE  IInv'
<1>1. PortsOK /\ NodesOK /\ IfacesOK /\ IbpkeysOK /\ IbendportsOK /\ BoolsOK /\ UsersOK
  BY DEF IInv
<1>2. PortsOK'
  BY <1>1, PortsKept
<1>3. NodesOK'
  BY <1>1, NodesKept
<1>4. IfacesOK'
  BY <1>1, IfacesKept
<1>5. IbpkeysOK'
  BY <1>1, IbpkeysKept
<1>6. IbendportsOK'
  BY <1>1, IbendportsKept
<1>7. BoolsOK'
  BY <1>1, BoolsKept
<1>8. UsersOK'
  BY <1>1, UsersKept DEF NamesKept
<1> QED
  BY <1>2, <1>3, <1>4, <1>5, <1>6, <1>7, <1>8 DEF IInv

LEMMA AttachKeepsShapes ==
  ASSUME Shapes, NEW list \in Lists, NEW e, Attach(list, e),
         NEW kind \in Kinds, NEW ok, NEW key, NEW record, Expect(kind, ok, key, record)
  PROVE  Shapes'
  BY AttachStep, ExpectStep DEF Shapes

LEMMA PortStep ==
  ASSUME IInv, NEW d \in PortType, sepol_port_modify(d)
  PROVE  IInv'
<1>1. PICK e : /\ Attach("port", e)
               /\ Expect("port", e # Refused, sepol_port_key_extract(SaidPort(d)), SaidPort(d))
               /\ mls' = mls /\ UNCHANGED <<users, bools, conds>>
  BY DEF sepol_port_modify, Called
<1>2. "port" \in Lists /\ "port" \in Kinds
  BY DEF Lists, Kinds
<1>3. Shapes /\ Shapes' /\ NamesKept /\ UsersTyped
  BY <1>1, <1>2, AttachKeepsShapes, UsersSame DEF IInv, UsersOK
<1>4. /\ \A x \in Lists \ {"port"} : ocon'[x] = ocon[x]
      /\ \A x \in Kinds \ {"port"} : last'[x] = last[x]
  BY <1>1, <1>2, <1>3, AttachStep, ExpectStep
<1>5. PortsOK'
  BY <1>3, PortsModified DEF IInv
<1> QED
  BY <1>1, <1>3, <1>4, <1>5, RestKept DEF Lists, Kinds

LEMMA NodeStep ==
  ASSUME IInv, NEW d \in NodeType, sepol_node_modify(d)
  PROVE  IInv'
<1>1. PICK list, e : /\ list \in {"node", "node6"} /\ Attach(list, e)
                     /\ Expect("node", e # Refused, sepol_node_key_extract(d), SaidNode(d))
                     /\ mls' = mls /\ UNCHANGED <<users, bools, conds>>
  BY DEF sepol_node_modify, Called
<1>2. list \in Lists /\ "node" \in Kinds
  BY <1>1 DEF Lists, Kinds
<1>3. Shapes /\ Shapes' /\ NamesKept /\ UsersTyped
  BY <1>1, <1>2, AttachKeepsShapes, UsersSame DEF IInv, UsersOK
<1>4. /\ \A x \in Lists \ {list} : ocon'[x] = ocon[x]
      /\ \A x \in Kinds \ {"node"} : last'[x] = last[x]
  BY <1>1, <1>2, <1>3, AttachStep, ExpectStep
<1>5. NodesOK'
  BY <1>3, NodesModified DEF IInv
<1> QED
  BY <1>1, <1>3, <1>4, <1>5, RestKept DEF Lists, Kinds

LEMMA IfaceStep ==
  ASSUME IInv, NEW d \in IfaceType, sepol_iface_modify(d)
  PROVE  IInv'
<1>1. PICK e : /\ ocon' = IF e = Refused THEN ocon
                          ELSE [ocon EXCEPT !.netif = Replaced(@, e)]
               /\ Expect("iface", e # Refused, sepol_iface_key_extract(d), SaidIface(d))
               /\ mls' = mls /\ UNCHANGED <<users, bools, conds>>
  BY DEF sepol_iface_modify, Called
<1>2. "iface" \in Kinds
  BY DEF Kinds
<1>3. Shapes /\ NamesKept /\ UsersTyped
  BY <1>1, UsersSame DEF IInv, UsersOK
<1>4. /\ ocon' = [x \in Lists |-> ocon'[x]]
      /\ \A x \in Lists \ {"netif"} : ocon'[x] = ocon[x]
  BY <1>1, <1>3 DEF Shapes
<1>5. /\ last' = [x \in Kinds |-> last'[x]]
      /\ \A x \in Kinds \ {"iface"} : last'[x] = last[x]
  BY <1>1, <1>2, <1>3, ExpectStep
<1>6. Shapes'
  BY <1>4, <1>5 DEF Shapes
<1>7. IfacesOK'
  BY <1>3, IfacesModified DEF IInv
<1> QED
  BY <1>1, <1>3, <1>4, <1>5, <1>6, <1>7, RestKept DEF Lists, Kinds

LEMMA IbpkeyStep ==
  ASSUME IInv, NEW d \in IbpkeyType, sepol_ibpkey_modify(d)
  PROVE  IInv'
<1>1. PICK e : /\ Attach("ibpkey", e)
               /\ Expect("ibpkey", e # Refused, sepol_ibpkey_key_extract(SaidPort(d)),
                         SaidPort(d))
               /\ mls' = mls /\ UNCHANGED <<users, bools, conds>>
  BY DEF sepol_ibpkey_modify, Called
<1>2. "ibpkey" \in Lists /\ "ibpkey" \in Kinds
  BY DEF Lists, Kinds
<1>3. Shapes /\ Shapes' /\ NamesKept /\ UsersTyped
  BY <1>1, <1>2, AttachKeepsShapes, UsersSame DEF IInv, UsersOK
<1>4. /\ \A x \in Lists \ {"ibpkey"} : ocon'[x] = ocon[x]
      /\ \A x \in Kinds \ {"ibpkey"} : last'[x] = last[x]
  BY <1>1, <1>2, <1>3, AttachStep, ExpectStep
<1>5. IbpkeysOK'
  BY <1>3, IbpkeysModified DEF IInv
<1> QED
  BY <1>1, <1>3, <1>4, <1>5, RestKept DEF Lists, Kinds

LEMMA IbendportStep ==
  ASSUME IInv, NEW d \in IbendportType, sepol_ibendport_modify(d)
  PROVE  IInv'
<1>1. PICK e : /\ Attach("ibendport", e)
               /\ Expect("ibendport", e # Refused, sepol_ibendport_key_extract(SaidIbendport(d)),
                         SaidIbendport(d))
               /\ mls' = mls /\ UNCHANGED <<users, bools, conds>>
  BY DEF sepol_ibendport_modify, Called
<1>2. "ibendport" \in Lists /\ "ibendport" \in Kinds
  BY DEF Lists, Kinds
<1>3. Shapes /\ Shapes' /\ NamesKept /\ UsersTyped
  BY <1>1, <1>2, AttachKeepsShapes, UsersSame DEF IInv, UsersOK
<1>4. /\ \A x \in Lists \ {"ibendport"} : ocon'[x] = ocon[x]
      /\ \A x \in Kinds \ {"ibendport"} : last'[x] = last[x]
  BY <1>1, <1>2, <1>3, AttachStep, ExpectStep
<1>5. IbendportsOK'
  BY <1>3, IbendportsModified DEF IInv
<1> QED
  BY <1>1, <1>3, <1>4, <1>5, RestKept DEF Lists, Kinds

LEMMA BoolStep ==
  ASSUME IInv, NEW d \in BoolType, sepol_bool_set(d)
  PROVE  IInv'
<1>1. PICK ok : /\ Expect("bool", ok, sepol_bool_key_extract(d), d)
                /\ mls' = mls /\ UNCHANGED <<users, ocon>>
  BY DEF sepol_bool_set, Called
<1>2. "bool" \in Kinds
  BY DEF Kinds
<1>3. Shapes /\ NamesKept
  BY <1>1, UsersSame DEF IInv
<1>4. /\ last' = [x \in Kinds |-> last'[x]]
      /\ \A x \in Kinds \ {"bool"} : last'[x] = last[x]
  BY <1>1, <1>2, <1>3, ExpectStep
<1>5. Shapes'
  BY <1>1, <1>3, <1>4 DEF Shapes
<1>6. BoolsOK'
  BY <1>3, BoolsModified DEF IInv
<1> QED
  BY <1>1, <1>3, <1>4, <1>5, <1>6, RestKept DEF Kinds

LEMMA UserStep ==
  ASSUME IInv, NEW d \in UserType, sepol_user_modify(d)
  PROVE  IInv'
<1>1. PICK ok, said : /\ Expect("user", ok, sepol_user_key_extract(d), said)
                      /\ UNCHANGED <<bools, conds, ocon>>
  BY ModifyIs
<1>2. "user" \in Kinds
  BY DEF Kinds
<1>3. Shapes
  BY DEF IInv
<1>4. /\ last' = [x \in Kinds |-> last'[x]]
      /\ \A x \in Kinds \ {"user"} : last'[x] = last[x]
  BY <1>1, <1>2, <1>3, ExpectStep
<1>5. Shapes'
  BY <1>1, <1>3, <1>4 DEF Shapes
<1>6. UsersOK' /\ NamesKept
  BY <1>3, UsersModified DEF IInv
<1> QED
  BY <1>1, <1>4, <1>5, <1>6, RestKept DEF Kinds

LEMMA Step ==
  ASSUME IInv, [Next]_vars
  PROVE  IInv'
<1>1. CASE UNCHANGED vars
  <2>1. /\ mls' = mls /\ users' = users /\ bools' = bools /\ conds' = conds /\ ocon' = ocon
        /\ last' = last
    BY <1>1 DEF vars
  <2>2. NamesKept /\ Shapes'
    BY <2>1, UsersSame DEF IInv, Shapes
  <2> QED
    BY <2>1, <2>2, RestKept
<1>2. ASSUME NEW d \in PortData, sepol_port_modify(sepol_port_clone(d)) PROVE IInv'
  BY <1>2, DataAssumption, PortCloned, PortStep
<1>3. ASSUME NEW d \in NodeData, sepol_node_modify(sepol_node_clone(d)) PROVE IInv'
  <2>1. d \in NodeType
    BY DataAssumption
  <2>2. sepol_node_clone(d) = d
    BY <2>1, NodeCloned DEF NodeType, Protos
  <2> QED
    BY <1>3, <2>1, <2>2, NodeStep
<1>4. ASSUME NEW d \in IfaceData, sepol_iface_modify(sepol_iface_clone(d)) PROVE IInv'
  BY <1>4, DataAssumption, IfaceCloned, IfaceStep
<1>5. ASSUME NEW d \in IbpkeyData, sepol_ibpkey_modify(sepol_ibpkey_clone(d)) PROVE IInv'
  BY <1>5, DataAssumption, IbpkeyCloned, IbpkeyStep
<1>6. ASSUME NEW d \in IbendportData, sepol_ibendport_modify(sepol_ibendport_clone(d))
      PROVE IInv'
  BY <1>6, DataAssumption, IbendportCloned, IbendportStep
<1>7. ASSUME NEW d \in BoolData, sepol_bool_set(sepol_bool_clone(d)) PROVE IInv'
  BY <1>7, DataAssumption, BoolCloned, BoolStep
<1>8. ASSUME NEW d \in UserData, sepol_user_modify(sepol_user_clone(d)) PROVE IInv'
  BY <1>8, DataAssumption, UserCloned, UserStep
<1>9. CASE EditUser
  BY <1>9, UserEdited, UserStep DEF IInv
<1> QED
  BY <1>1, <1>2, <1>3, <1>4, <1>5, <1>6, <1>7, <1>8, <1>9 DEF Next

-----------------------------------------------------------------------------
(***************************************************************************)
(* The policy that is loaded satisfies the invariant.                      *)
(***************************************************************************)
LEMMA NothingExpected ==
  ASSUME NEW k, NEW key, NEW records
  PROVE  Expects(<<>>, k, <<>>, key, records)
  BY DEF Expects, First

LEMMA PortsLoaded ==
  ASSUME UsersTyped, NEW data \in Seq(PortType),
         ocon.port = [i \in DOMAIN data |-> port_from_record(data[i])],
         \A i \in DOMAIN ocon.port : ocon.port[i] # Refused,
         last.port = Said([i \in DOMAIN data |-> SaidPort(data[i])], sepol_port_key_extract)
  PROVE  PortsOK
<1>1. PICK n : n = Len(data) /\ n \in Nat /\ DOMAIN data = 1 .. n
  OBVIOUS
<1>2. PICK list : list = ocon.port
  OBVIOUS
<1>3. PICK keyof : keyof = [i \in 1 .. n |-> sepol_port_key_extract(SaidPort(data[i]))]
  OBVIOUS
<1>4. ASSUME NEW i \in 1 .. n
      PROVE  /\ list[i] \in PortEntry /\ port_to_record(list[i]) = SaidPort(data[i])
             /\ keyof[i] \in PortKeys
             /\ \A k \in PortKeys : keyof[i] = k <=> list[i].key = PortEntryKey(k)
  <2>1. data[i] \in PortType /\ list[i] = port_from_record(data[i]) /\ list[i] # Refused
    BY <1>1, <1>2
  <2>2. keyof[i] = sepol_port_key_extract(SaidPort(data[i]))
    BY <1>3
  <2> QED
    BY <2>1, <2>2, PortAccepted
<1>5. list \in Seq(PortEntry) /\ Len(list) = n /\ DOMAIN list = 1 .. n
  <2>1. list = [i \in 1 .. n |-> list[i]]
    BY <1>1, <1>2
  <2>2. \A i \in 1 .. n : list[i] \in PortEntry
    BY <1>4
  <2>3. [i \in 1 .. n |-> list[i]] \in Seq(PortEntry)
    BY <1>1, <2>2, IsASeq
  <2>4. DOMAIN list = 1 .. n
    BY <2>1
  <2> QED
    BY <1>1, <2>1, <2>3, <2>4
<1>6. \A i \in 1 .. n : PortRecords[i] = SaidPort(data[i])
  BY <1>2, <1>4, <1>5 DEF PortRecords
<1>7. last.port = [x \in {keyof[i] : i \in 1 .. n} |->
                      PortRecords[Min({i \in 1 .. n : keyof[i] = x})]]
  <2>1. PICK records : records = [i \in 1 .. n |-> SaidPort(data[i])]
    OBVIOUS
  <2>2. records = PortRecords
    BY <1>2, <1>5, <1>6, <2>1 DEF PortRecords
  <2>3. \A i \in 1 .. n : sepol_port_key_extract(records[i]) = keyof[i]
    BY <1>3, <2>1
  <2> DEFINE Own(x) == {i \in 1 .. n : sepol_port_key_extract(records[i]) = x}
             Has(x) == {i \in 1 .. n : keyof[i] = x}
  <2>4. last.port = [x \in {sepol_port_key_extract(records[i]) : i \in 1 .. n} |->
                     records[Min(Own(x))]]
    BY <1>1, <2>1 DEF Said
  <2>5. {sepol_port_key_extract(records[i]) : i \in 1 .. n} = {keyof[i] : i \in 1 .. n}
    BY <2>3
  <2>6. \A x : Own(x) = Has(x)
    BY <2>3
  <2>7. last.port = [x \in {keyof[i] : i \in 1 .. n} |-> PortRecords[Min(Has(x))]]
    <3> HIDE DEF Own, Has
    <3> QED
      BY <2>2, <2>4, <2>5, <2>6
  <2> QED
    BY <2>7
<1>8. DOMAIN last.port \subseteq PortKeys
  <2>1. DOMAIN last.port = {keyof[i] : i \in 1 .. n}
    BY <1>7
  <2>2. \A i \in 1 .. n : keyof[i] \in PortKeys
    BY <1>4
  <2> QED
    BY <2>1, <2>2
<1>9. ASSUME NEW k \in PortKeys
      PROVE  Expects(last.port, k, list, PortEntryKey(k), PortRecords)
  <2>1. PICK f, key, records : f = last.port /\ key = PortEntryKey(k) /\ records = PortRecords
    OBVIOUS
  <2>2. \A i \in 1 .. Len(list) : keyof[i] = k <=> list[i].key = key
    BY <1>4, <1>5, <2>1
  <2>3. f = [x \in {keyof[i] : i \in 1 .. Len(list)} |->
                records[Min({i \in 1 .. Len(list) : keyof[i] = x})]]
    BY <1>5, <1>7, <2>1
  <2>4. Expects(f, k, list, key, records)
    BY <1>5, <2>2, <2>3, SaidExpected
  <2> QED
    BY <2>1, <2>4
<1> QED
  BY <1>2, <1>5, <1>8, <1>9 DEF PortsOK

LEMMA IfacesLoaded ==
  ASSUME UsersTyped, NEW data \in Seq(IfaceType), Injective(Names(data)),
         ocon.netif = [i \in DOMAIN data |-> iface_from_record(data[i])],
         \A i \in DOMAIN ocon.netif : ocon.netif[i] # Refused,
         last.iface = Said([i \in DOMAIN data |-> SaidIface(data[i])], sepol_iface_key_extract)
  PROVE  IfacesOK
<1>1. PICK n : n = Len(data) /\ n \in Nat /\ DOMAIN data = 1 .. n
  OBVIOUS
<1>2. PICK list : list = ocon.netif
  OBVIOUS
<1>3. PICK keyof : keyof = [i \in 1 .. n |-> [name |-> data[i].name]]
  OBVIOUS
<1>4. ASSUME NEW i \in 1 .. n
      PROVE  /\ list[i] \in IfaceEntry /\ iface_to_record(list[i]) = SaidIface(data[i])
             /\ list[i].key = data[i].name /\ keyof[i] \in NameKeys
             /\ sepol_iface_key_extract(SaidIface(data[i])) = keyof[i]
             /\ \A k \in NameKeys : keyof[i] = k <=> list[i].key = k.name
  <2>1. data[i] \in IfaceType /\ list[i] = iface_from_record(data[i]) /\ list[i] # Refused
    <3>1. i \in DOMAIN data /\ data[i] \in IfaceType
      BY <1>1
    <3>2. list = [j \in DOMAIN data |-> iface_from_record(data[j])]
      BY <1>2
    <3>3. list[i] = iface_from_record(data[i]) /\ i \in DOMAIN ocon.netif
      BY <1>2, <3>1, <3>2
    <3> QED
      BY <1>2, <3>1, <3>3
  <2>2. keyof[i] = [name |-> data[i].name] /\ data[i].name \in Int
    BY <1>3, <2>1, IfaceParts
  <2>3. /\ list[i] \in IfaceEntry /\ iface_to_record(list[i]) = SaidIface(data[i])
        /\ list[i].key = data[i].name /\ SaidIface(data[i]).name = data[i].name
    BY <2>1, IfaceAccepted
  <2>4. keyof[i] \in NameKeys
    BY <2>2 DEF NameKeys
  <2>5. \A k \in NameKeys : keyof[i] = k <=> list[i].key = k.name
    BY <2>2, <2>3 DEF NameKeys
  <2>6. sepol_iface_key_extract(SaidIface(data[i])) = keyof[i]
    BY <2>2, <2>3 DEF sepol_iface_key_extract, sepol_iface_key_create
  <2> QED
    BY <2>3, <2>4, <2>5, <2>6
<1>5. list \in Seq(IfaceEntry) /\ Len(list) = n /\ DOMAIN list = 1 .. n
  <2>1. list = [i \in 1 .. n |-> list[i]]
    BY <1>1, <1>2
  <2>2. \A i \in 1 .. n : list[i] \in IfaceEntry
    BY <1>4
  <2>3. [i \in 1 .. n |-> list[i]] \in Seq(IfaceEntry)
    BY <1>1, <2>2, IsASeq
  <2>4. DOMAIN list = 1 .. n
    BY <2>1
  <2> QED
    BY <1>1, <2>1, <2>3, <2>4
<1>6. \A i \in 1 .. n : IfaceRecords[i] = SaidIface(data[i])
  BY <1>2, <1>4, <1>5 DEF IfaceRecords
<1>7. last.iface = [x \in {keyof[i] : i \in 1 .. n} |->
                       IfaceRecords[Min({i \in 1 .. n : keyof[i] = x})]]
  <2>1. PICK records : records = [i \in 1 .. n |-> SaidIface(data[i])]
    OBVIOUS
  <2>2. records = IfaceRecords
    BY <1>2, <1>5, <1>6, <2>1 DEF IfaceRecords
  <2>3. \A i \in 1 .. n : sepol_iface_key_extract(records[i]) = keyof[i]
    BY <1>4, <2>1
  <2> DEFINE Own(x) == {i \in 1 .. n : sepol_iface_key_extract(records[i]) = x}
             Has(x) == {i \in 1 .. n : keyof[i] = x}
  <2>4. last.iface = [x \in {sepol_iface_key_extract(records[i]) : i \in 1 .. n} |->
                     records[Min(Own(x))]]
    BY <1>1, <2>1 DEF Said
  <2>5. {sepol_iface_key_extract(records[i]) : i \in 1 .. n} = {keyof[i] : i \in 1 .. n}
    BY <2>3
  <2>6. \A x : Own(x) = Has(x)
    BY <2>3
  <2>7. last.iface = [x \in {keyof[i] : i \in 1 .. n} |-> IfaceRecords[Min(Has(x))]]
    <3> HIDE DEF Own, Has
    <3> QED
      BY <2>2, <2>4, <2>5, <2>6
  <2> QED
    BY <2>7
<1>8. DOMAIN last.iface \subseteq NameKeys
  <2>1. \A i \in 1 .. n : keyof[i] \in NameKeys
    BY <1>4
  <2>2. DOMAIN last.iface = {keyof[i] : i \in 1 .. n}
    BY <1>7
  <2> QED
    BY <2>1, <2>2
<1>9. ASSUME NEW k \in NameKeys
      PROVE  Expects(last.iface, k, list, k.name, IfaceRecords)
  <2>1. PICK f, key, records : f = last.iface /\ key = k.name /\ records = IfaceRecords
    OBVIOUS
  <2>2. \A i \in 1 .. Len(list) : keyof[i] = k <=> list[i].key = key
    BY <1>4, <1>5, <2>1
  <2>3. f = [x \in {keyof[i] : i \in 1 .. Len(list)} |->
                records[Min({i \in 1 .. Len(list) : keyof[i] = x})]]
    BY <1>5, <1>7, <2>1
  <2>4. Expects(f, k, list, key, records)
    BY <1>5, <2>2, <2>3, SaidExpected
  <2> QED
    BY <2>1, <2>4
<1>10. \A i, j \in DOMAIN list : list[i].key = list[j].key => i = j
  BY <1>1, <1>4, <1>5 DEF Injective, Names
<1> QED
  BY <1>2, <1>5, <1>8, <1>9, <1>10 DEF IfacesOK

LEMMA BoolsLoaded ==
  ASSUME bools \in Seq(BoolDatum), Injective(Names(bools)), conds = evaluate_conds(bools),
         last.bool = Said([i \in DOMAIN bools |-> sepol_bool_clone(bool_to_record(i))],
                          sepol_bool_key_extract)
  PROVE  BoolsOK
<1>1. PICK n : n = Len(bools) /\ n \in Nat /\ DOMAIN bools = 1 .. n
  OBVIOUS
<1>2. PICK records : records = [i \in 1 .. n |-> bool_to_record(i)]
  OBVIOUS
<1>3. PICK keyof : keyof = [i \in 1 .. n |-> sepol_bool_key_extract(bools[i])]
  OBVIOUS
<1>4. ASSUME NEW i \in 1 .. n
      PROVE  /\ records[i] = bool_to_record(i)
             /\ sepol_bool_clone(bool_to_record(i)) = records[i]
             /\ keyof[i] = [name |-> bools[i].name]
             /\ sepol_bool_key_extract(records[i]) = keyof[i]
  <2>1. bool_to_record(i) = [name |-> bools[i].name, value |-> bools[i].state]
    BY BoolRecordIs
  <2>2. bools[i] \in BoolDatum
    BY <1>1
  <2>3. bools[i].name \in Int /\ bools[i].state \in Int
    BY <2>2 DEF BoolDatum
  <2>4. bool_to_record(i) \in BoolType
    BY <2>1, <2>3 DEF BoolType
  <2>5. sepol_bool_clone(bool_to_record(i)) = bool_to_record(i)
    BY <2>4, BoolCloned
  <2>6. records[i] = bool_to_record(i)
    BY <1>2
  <2>7. keyof[i] = [name |-> bools[i].name]
    BY <1>3 DEF sepol_bool_key_extract, sepol_bool_key_create
  <2>8. sepol_bool_key_extract(records[i]) = keyof[i]
    <3>1. records[i].name = bools[i].name
      BY <2>1, <2>6
    <3> QED
      BY <2>7, <3>1 DEF sepol_bool_key_extract, sepol_bool_key_create
  <2> QED
    BY <2>5, <2>6, <2>7, <2>8
<1>5. records = [i \in DOMAIN bools |-> sepol_bool_clone(bool_to_record(i))]
  BY <1>1, <1>2, <1>4
<1>6. last.bool = [x \in {keyof[i] : i \in 1 .. n} |->
                      records[Min({i \in 1 .. n : keyof[i] = x})]]
  <2> DEFINE Own(x) == {i \in 1 .. n : sepol_bool_key_extract(records[i]) = x}
             Has(x) == {i \in 1 .. n : keyof[i] = x}
  <2>1. last.bool = [x \in {sepol_bool_key_extract(records[i]) : i \in 1 .. n} |->
                        records[Min(Own(x))]]
    <3>1. last.bool = Said(records, sepol_bool_key_extract)
      BY <1>5
    <3>2. DOMAIN records = 1 .. n
      BY <1>2
    <3> QED
      BY <3>1, <3>2 DEF Said
  <2>2. {sepol_bool_key_extract(records[i]) : i \in 1 .. n} = {keyof[i] : i \in 1 .. n}
    BY <1>4
  <2>3. \A x : Own(x) = Has(x)
    BY <1>4
  <2>4. last.bool = [x \in {keyof[i] : i \in 1 .. n} |-> records[Min(Has(x))]]
    <3> HIDE DEF Own, Has
    <3> QED
      BY <2>1, <2>2, <2>3
  <2> QED
    BY <2>4
<1>7. \A i, j \in 1 .. n : keyof[i] = keyof[j] => i = j
  <2>1. \A i, j \in 1 .. n : bools[i].name = bools[j].name => i = j
    BY <1>1 DEF Injective, Names
  <2>2. ASSUME NEW i \in 1 .. n PROVE keyof[i].name = bools[i].name
    <3>1. keyof[i] = [name |-> bools[i].name]
      BY <1>4
    <3> QED
      BY <3>1
  <2> QED
    BY <2>1, <2>2
<1>8. /\ DOMAIN last.bool = {keyof[i] : i \in 1 .. n}
      /\ \A i \in 1 .. n : last.bool[keyof[i]] = records[i]
  <2>1. DOMAIN last.bool = {keyof[i] : i \in 1 .. n}
    BY <1>6
  <2>2. ASSUME NEW i \in 1 .. n PROVE last.bool[keyof[i]] = records[i]
    <3>1. {j \in 1 .. n : keyof[j] = keyof[i]} = {i}
      BY <1>7
    <3>2. {i} \in SUBSET Nat
      BY <1>1
    <3>3. Min({i}) = i
      BY <3>2, OneMin
    <3>4. last.bool[keyof[i]] = records[Min({j \in 1 .. n : keyof[j] = keyof[i]})]
      BY <1>6
    <3> QED
      BY <3>1, <3>3, <3>4
  <2> QED
    BY <2>1, <2>2
<1>9. DOMAIN last.bool = {sepol_bool_key_extract(bools[i]) : i \in DOMAIN bools}
  BY <1>1, <1>3, <1>8
<1>10. \A i \in DOMAIN bools : last.bool[sepol_bool_key_extract(bools[i])] = bool_to_record(i)
  BY <1>1, <1>3, <1>4, <1>8
<1> QED
  BY <1>9, <1>10 DEF BoolsOK

LEMMA UsersLoaded ==
  ASSUME UsersTyped, Injective(Names(users)),
         \A i \in DOMAIN users :
             /\ users[i].cache = users[i].roles
             /\ mls => /\ users[i].range # NoRange
                       /\ {users[i].range, Point(users[i].level)} \subseteq DOMAIN MlsString,
         last.user = Said([i \in DOMAIN users |-> sepol_user_clone(user_to_record(i))],
                          sepol_user_key_extract)
  PROVE  UsersOK
<1>1. PICK n : n = Len(users) /\ n \in Nat /\ DOMAIN users = 1 .. n
  BY DEF UsersTyped
<1>2. PICK records : records = [i \in 1 .. n |-> RecordOf(mls, users[i])]
  OBVIOUS
<1>3. PICK keyof : keyof = [i \in 1 .. n |-> sepol_user_key_extract(users[i])]
  OBVIOUS
<1>4. ASSUME NEW i \in 1 .. n
      PROVE  /\ records[i] = RecordOf(mls, users[i]) /\ records[i] \in UserType
             /\ sepol_user_clone(user_to_record(i)) = records[i]
             /\ keyof[i] = [name |-> users[i].name]
             /\ sepol_user_key_extract(records[i]) = keyof[i]
  <2>1. user_to_record(i) = RecordOf(mls, users[i])
    BY <1>1, UserRecordIs
  <2>2. users[i] \in UserDatum
    BY <1>1 DEF UsersTyped
  <2>3. users[i].name \in Int /\ users[i].roles \in SUBSET DOMAIN RoleNames
    BY <2>2 DEF UserDatum
  <2>4. RoleList(users[i].roles) \in Seq(STRING) /\ Injective(RoleList(users[i].roles))
    BY <2>3, RolesAdded
  <2>5. mls => MlsString[users[i].range] \in STRING /\ MlsString[Point(users[i].level)] \in STRING
    BY <1>1, MlsPrintedParsesBack
  <2>6. RecordOf(mls, users[i]) \in UserType
    BY <2>3, <2>4, <2>5 DEF RecordOf, UserType
  <2>7. Injective(RecordOf(mls, users[i]).roles) /\ RecordOf(mls, users[i]).name = users[i].name
    BY <2>4 DEF RecordOf
  <2>8. sepol_user_clone(user_to_record(i)) = RecordOf(mls, users[i])
    BY <2>1, <2>6, <2>7, UserCloned
  <2>9. records[i] = RecordOf(mls, users[i])
    BY <1>2
  <2>10. keyof[i] = [name |-> users[i].name]
    BY <1>3 DEF sepol_user_key_extract, sepol_user_key_create
  <2>11. sepol_user_key_extract(records[i]) = keyof[i]
    BY <2>7, <2>9, <2>10 DEF sepol_user_key_extract, sepol_user_key_create
  <2> QED
    BY <2>6, <2>8, <2>9, <2>10, <2>11
<1>5. records = [i \in DOMAIN users |-> sepol_user_clone(user_to_record(i))]
  BY <1>1, <1>2, <1>4
<1>6. last.user = [x \in {keyof[i] : i \in 1 .. n} |->
                      records[Min({i \in 1 .. n : keyof[i] = x})]]
  <2> DEFINE Own(x) == {i \in 1 .. n : sepol_user_key_extract(records[i]) = x}
             Has(x) == {i \in 1 .. n : keyof[i] = x}
  <2>1. last.user = [x \in {sepol_user_key_extract(records[i]) : i \in 1 .. n} |->
                        records[Min(Own(x))]]
    <3>1. last.user = Said(records, sepol_user_key_extract)
      BY <1>5
    <3>2. DOMAIN records = 1 .. n
      BY <1>2
    <3> QED
      BY <3>1, <3>2 DEF Said
  <2>2. {sepol_user_key_extract(records[i]) : i \in 1 .. n} = {keyof[i] : i \in 1 .. n}
    BY <1>4
  <2>3. \A x : Own(x) = Has(x)
    BY <1>4
  <2>4. last.user = [x \in {keyof[i] : i \in 1 .. n} |-> records[Min(Has(x))]]
    <3> HIDE DEF Own, Has
    <3> QED
      BY <2>1, <2>2, <2>3
  <2> QED
    BY <2>4
<1>7. \A i, j \in 1 .. n : keyof[i] = keyof[j] => i = j
  <2>1. \A i, j \in 1 .. n : users[i].name = users[j].name => i = j
    BY <1>1 DEF Injective, Names
  <2>2. ASSUME NEW i \in 1 .. n PROVE keyof[i].name = users[i].name
    <3>1. keyof[i] = [name |-> users[i].name]
      BY <1>4
    <3> QED
      BY <3>1
  <2> QED
    BY <2>1, <2>2
<1>8. /\ DOMAIN last.user = {keyof[i] : i \in 1 .. n}
      /\ \A i \in 1 .. n : last.user[keyof[i]] = records[i]
  <2>1. DOMAIN last.user = {keyof[i] : i \in 1 .. n}
    BY <1>6
  <2>2. ASSUME NEW i \in 1 .. n PROVE last.user[keyof[i]] = records[i]
    <3>1. {j \in 1 .. n : keyof[j] = keyof[i]} = {i}
      BY <1>7
    <3>2. {i} \in SUBSET Nat
      BY <1>1
    <3>3. Min({i}) = i
      BY <3>2, OneMin
    <3>4. last.user[keyof[i]] = records[Min({j \in 1 .. n : keyof[j] = keyof[i]})]
      BY <1>6
    <3> QED
      BY <3>1, <3>3, <3>4
  <2> QED
    BY <2>1, <2>2
<1>9. DOMAIN last.user = {sepol_user_key_extract(users[i]) : i \in DOMAIN users}
  BY <1>1, <1>3, <1>8
<1>10. ASSUME NEW i \in DOMAIN users
       PROVE  UserSaid(last.user[sepol_user_key_extract(users[i])], mls, users[i])
  <2>1. last.user[sepol_user_key_extract(users[i])] = RecordOf(mls, users[i])
        /\ RecordOf(mls, users[i]) \in UserType
    <3>1. i \in 1 .. n /\ keyof[i] = sepol_user_key_extract(users[i])
      BY <1>1, <1>3
    <3>2. records[i] = RecordOf(mls, users[i]) /\ records[i] \in UserType
      BY <1>4, <3>1
    <3> QED
      BY <1>8, <3>1, <3>2
  <2> QED
    BY <2>1 DEF UserSaid
<1> QED
  BY <1>9, <1>10 DEF UsersOK

LEMMA Start ==
  ASSUME Init
  PROVE  IInv
<1>1. /\ mls \in BOOLEAN /\ users = LoadedUsers[mls] /\ users \in Seq(UserDatum)
      /\ Injective(Names(users))
  BY LoadedAssumption DEF Init
<1>2. UsersTyped
  BY <1>1 DEF UsersTyped
<1>3. Shapes
  BY DEF Init, Shapes, Lists, Kinds
<1>4. PortsOK
  <2>1. PICK data : data = LoadedPorts[mls] /\ data \in Seq(PortType)
    BY <1>1, LoadedAssumption
  <2>2. /\ ocon.port = [i \in DOMAIN data |-> port_from_record(data[i])]
        /\ \A i \in DOMAIN ocon.port : ocon.port[i] # Refused
        /\ last.port = Said([i \in DOMAIN data |-> SaidPort(data[i])], sepol_port_key_extract)
    BY <2>1 DEF Init
  <2> QED
    BY <1>2, <2>1, <2>2, PortsLoaded
<1>5. IfacesOK
  <2>1. PICK data : data = LoadedIfaces[mls] /\ data \in Seq(IfaceType) /\ Injective(Names(data))
    BY <1>1, LoadedAssumption
  <2>2. /\ ocon.netif = [i \in DOMAIN data |-> iface_from_record(data[i])]
        /\ \A i \in DOMAIN ocon.netif : ocon.netif[i] # Refused
        /\ last.iface = Said([i \in DOMAIN data |-> SaidIface(data[i])], sepol_iface_key_extract)
    BY <2>1 DEF Init
  <2> QED
    BY <1>2, <2>1, <2>2, IfacesLoaded
<1>6. /\ ocon.node = <<>> /\ ocon.node6 = <<>> /\ ocon.ibpkey = <<>> /\ ocon.ibendport = <<>>
      /\ last.node = <<>> /\ last.ibpkey = <<>> /\ last.ibendport = <<>>
  BY DEF Init
<1>7. \A S : <<>> \in Seq(S)
  OBVIOUS
<1>8. NodesOK
  <2>1. \A p \in Protos : NodeList(p) = <<>>
    BY <1>6 DEF NodeList
  <2>2. ASSUME NEW p \in Protos PROVE NodeSide(p)
    <3>1. \A k : Expects(last.node, k, NodeList(p), NodeEntryKey(k), NodeRecords(p))
      BY <1>6, <2>1, NothingExpected
    <3> QED
      BY <1>7, <2>1, <3>1 DEF NodeSide
  <2>3. DOMAIN last.node = {}
    BY <1>6
  <2> QED
    BY <2>2, <2>3 DEF NodesOK
<1>9. IbpkeysOK
  BY <1>6, <1>7, NothingExpected DEF IbpkeysOK
<1>10. IbendportsOK
  BY <1>6, <1>7, NothingExpected DEF IbendportsOK
<1>11. BoolsOK
  <2>1. /\ bools \in Seq(BoolDatum) /\ Injective(Names(bools)) /\ conds = evaluate_conds(bools)
        /\ last.bool = Said([i \in DOMAIN bools |-> sepol_bool_clone(bool_to_record(i))],
                            sepol_bool_key_extract)
    BY LoadedAssumption DEF Init
  <2> QED
    BY <2>1, BoolsLoaded
<1>12. UsersOK
  <2>1. \A i \in DOMAIN users :
           /\ users[i].cache = users[i].roles
           /\ mls => /\ users[i].range # NoRange
                     /\ {users[i].range, Point(users[i].level)} \subseteq DOMAIN MlsString
    BY <1>1, LoadedAssumption
  <2>2. last.user = Said([i \in DOMAIN users |-> sepol_user_clone(user_to_record(i))],
                         sepol_user_key_extract)
    BY DEF Init
  <2> QED
    BY <1>1, <1>2, <2>1, <2>2, UsersLoaded
<1> QED
  BY <1>3, <1>4, <1>5, <1>8, <1>9, <1>10, <1>11, <1>12 DEF IInv

\* In every policy, whatever the calls, the first entry with a key is the one that was
\* accepted last, names occur once and the users of a context keep their values.
THEOREM Inductive == Spec => []IInv
<1>1. Init => IInv
  BY Start
<1>2. IInv /\ [Next]_vars => IInv'
  BY Step
<1> QED
  BY <1>1, <1>2, PTL DEF Spec

-----------------------------------------------------------------------------
(***************************************************************************)
(* Queries answer with what was accepted last.                             *)
(***************************************************************************)
LEMMA ExpectedAnswer ==
  ASSUME NEW f, NEW k, NEW list, NEW key, NEW records, Expects(f, k, list, key, records)
  PROVE  Answer(f, k) = IF First(list, key) = 0 THEN NULL ELSE records[First(list, key)]
  BY DEF Expects, Answer

LEMMA PortAnswers ==
  ASSUME PortsOK, NEW k \in PortKeys
  PROVE  sepol_port_query(k) = Answer(last.port, k)
<1>1. k.proto \in 0 .. 3 /\ k.proto \in Int
  BY DEF PortKeys
<1>2. ~(sepol2ipproto(k.proto) < 0)
  <2>1. sepol2ipproto(k.proto) >= 0
    BY <1>1, Protocols
  <2>2. sepol2ipproto(k.proto) \in Int
    BY <1>1 DEF sepol2ipproto, IpProto
  <2> QED
    BY <2>1, <2>2
<1>3. Expects(last.port, k, ocon.port, PortEntryKey(k), PortRecords)
  BY DEF PortsOK
<1> QED
  BY <1>2, <1>3, ExpectedAnswer DEF sepol_port_query

LEMMA NodeAnswers ==
  ASSUME NodesOK, NEW p \in Protos, NEW k \in NodeKeysOf(p)
  PROVE  sepol_node_query(k) = Answer(last.node, k)
<1>1. k.proto = p
  BY DEF NodeKeysOf
<1>2. Expects(last.node, k, NodeList(p), NodeEntryKey(k), NodeRecords(p))
  BY DEF NodesOK, NodeSide
<1> QED
  BY <1>1, <1>2, ExpectedAnswer DEF sepol_node_query

LEMMA IfaceAnswers ==
  ASSUME IfacesOK, NEW k \in NameKeys
  PROVE  sepol_iface_query(k) = Answer(last.iface, k)
<1>1. Expects(last.iface, k, ocon.netif, k.name, IfaceRecords)
  BY DEF IfacesOK
<1> QED
  BY <1>1, ExpectedAnswer DEF sepol_iface_query

LEMMA IbpkeyAnswers ==
  ASSUME IbpkeysOK, NEW k \in IbpkeyKeys
  PROVE  sepol_ibpkey_query(k) = Answer(last.ibpkey, k)
<1>1. Expects(last.ibpkey, k, ocon.ibpkey, k, IbpkeyRecords)
  BY DEF IbpkeysOK
<1> QED
  BY <1>1, ExpectedAnswer DEF sepol_ibpkey_query

LEMMA IbendportAnswers ==
  ASSUME IbendportsOK, NEW k \in IbendportKeys
  PROVE  sepol_ibendport_query(k) = Answer(last.ibendport, k)
<1>1. Expects(last.ibendport, k, ocon.ibendport, k, IbendportRecords)
  BY DEF IbendportsOK
<1> QED
  BY <1>1, ExpectedAnswer DEF sepol_ibendport_query

\* A name finds the entry of a table that has it.
LEMMA NameFinds ==
  ASSUME NEW S, NEW table \in Seq(S), NEW name
  PROVE  LET i == ValueIn(Names(table), name) IN
         /\ i # 0 => i \in DOMAIN table /\ table[i].name = name
         /\ i = 0 => \A j \in DOMAIN table : table[j].name # name
<1>1. /\ DOMAIN Names(table) = DOMAIN table /\ 0 \notin DOMAIN table
      /\ \A j \in DOMAIN table : Names(table)[j] = table[j].name
  BY DEF Names
<1> QED
  BY <1>1, ValueIs

LEMMA BoolAnswers ==
  ASSUME BoolsOK, NEW k \in NameKeys
  PROVE  sepol_bool_query(k) = Answer(last.bool, k)
<1>1. PICK i : i = ValueIn(Names(bools), k.name)
  OBVIOUS
<1>2. /\ i # 0 => i \in DOMAIN bools /\ bools[i].name = k.name
      /\ i = 0 => \A j \in DOMAIN bools : bools[j].name # k.name
  BY <1>1, NameFinds DEF BoolsOK
<1>3. \A x : sepol_bool_key_extract(x) = [name |-> x.name]
  BY DEF sepol_bool_key_extract, sepol_bool_key_create
<1>4. k = [name |-> k.name]
  BY DEF NameKeys
<1>5. CASE i # 0
  <2>1. k = sepol_bool_key_extract(bools[i])
    BY <1>2, <1>3, <1>4, <1>5
  <2>2. k \in DOMAIN last.bool /\ last.bool[k] = bool_to_record(i)
    BY <1>2, <1>5, <2>1 DEF BoolsOK
  <2> QED
    BY <1>1, <1>5, <2>2 DEF sepol_bool_query, Answer
<1>6. CASE i = 0
  <2>1. ASSUME k \in DOMAIN last.bool PROVE FALSE
    <3>1. PICK j \in DOMAIN bools : k = sepol_bool_key_extract(bools[j])
      BY <2>1 DEF BoolsOK
    <3>2. k.name = bools[j].name
      BY <1>3, <3>1
    <3> QED
      BY <1>2, <1>6, <3>2
  <2> QED
    BY <1>1, <1>6, <2>1 DEF sepol_bool_query, Answer
<1> QED
  BY <1>5, <1>6

\* A user record with its MLS strings left open.
LEMMA UserBlurred ==
  ASSUME NEW x, NEW y, NEW level, NEW range
  PROVE  WithoutMls([name |-> x, roles |-> y, mls_level |-> level, mls_range |-> range])
            = [name |-> x, roles |-> y, mls_level |-> Unknown, mls_range |-> Unknown]
<1> DEFINE r == [name |-> x, roles |-> y, mls_level |-> level, mls_range |-> range]
           a == [r EXCEPT !.mls_level = Unknown]
           b == [a EXCEPT !.mls_range = Unknown]
<1>1. a = [name |-> x, roles |-> y, mls_level |-> Unknown, mls_range |-> range]
  OBVIOUS
<1>2. b = [name |-> x, roles |-> y, mls_level |-> Unknown, mls_range |-> Unknown]
  <2> HIDE DEF a
  <2> QED
    BY <1>1
<1> QED
  BY <1>2 DEF WithoutMls

LEMMA UserAnswers ==
  ASSUME UsersOK, NEW k \in NameKeys
  PROVE  UserAnswer(k) = Answer(last.user, k)
<1>1. PICK i : i = ValueIn(Names(users), k.name)
  OBVIOUS
<1>2. /\ i # 0 => i \in DOMAIN users /\ users[i].name = k.name
      /\ i = 0 => \A j \in DOMAIN users : users[j].name # k.name
  BY <1>1, NameFinds DEF UsersOK, UsersTyped
<1>3. \A x : sepol_user_key_extract(x) = [name |-> x.name]
  BY DEF sepol_user_key_extract, sepol_user_key_create
<1>4. k = [name |-> k.name]
  BY DEF NameKeys
<1>5. CASE i # 0
  <2>1. k = sepol_user_key_extract(users[i])
    BY <1>2, <1>3, <1>4, <1>5
  <2>2. k \in DOMAIN last.user /\ UserSaid(last.user[k], mls, users[i])
    BY <1>2, <1>5, <2>1 DEF UsersOK
  <2>3. PICK u : u = users[i]
    OBVIOUS
  <2>4. sepol_user_query(k) = IF mls => u.range # NoRange THEN RecordOf(mls, u) ELSE HalfOf(u)
    BY <1>1, <1>2, <1>5, <2>3, UserRecordIs DEF sepol_user_query, UsersOK
  <2>5. CASE last.user[k] \in UserType
    <3>1. last.user[k].mls_range # Unknown
      BY <2>5, UserParts, DataAssumption
    <3>2. HalfOf(u).mls_range = Unknown
      BY DEF HalfOf
    <3>3. last.user[k] = RecordOf(mls, u) /\ (mls => u.range # NoRange)
      BY <2>2, <2>3, <3>1, <3>2 DEF UserSaid
    <3>4. ~HalfFilled(k)
      BY <3>1 DEF HalfFilled
    <3> QED
      BY <2>2, <2>4, <3>3, <3>4 DEF UserAnswer, Answer
  <2>6. CASE last.user[k] = HalfOf(u)
    <3>1. HalfFilled(k)
      BY <2>2, <2>6 DEF HalfFilled, HalfOf
    <3>2. WithoutMls(RecordOf(mls, u)) = HalfOf(u)
      BY UserBlurred DEF RecordOf, HalfOf
    <3>3. WithoutMls(HalfOf(u)) = HalfOf(u)
      BY UserBlurred DEF HalfOf
    <3>4. UserAnswer(k) = HalfOf(u)
      BY <2>4, <3>1, <3>2, <3>3 DEF UserAnswer
    <3> QED
      BY <2>2, <2>6, <3>4 DEF Answer
  <2> QED
    BY <2>2, <2>3, <2>5, <2>6 DEF UserSaid
<1>6. CASE i = 0
  <2>1. ASSUME k \in DOMAIN last.user PROVE FALSE
    <3>1. PICK j \in DOMAIN users : k = sepol_user_key_extract(users[j])
      BY <2>1 DEF UsersOK
    <3>2. k.name = users[j].name
      BY <1>3, <3>1
    <3> QED
      BY <1>2, <1>6, <3>2
  <2> QED
    BY <1>1, <1>6, <2>1 DEF sepol_user_query, Answer, UserAnswer, HalfFilled
<1> QED
  BY <1>5, <1>6

\* A user left half filled has no roles in its cache.
LEMMA HalfFilledAuthorisesNothing ==
  ASSUME UsersOK, NEW con, HalfFilled(sepol_user_key_create(con.user)),
         con.role # RoleNames[OBJECT_R_VAL]
  PROVE  context_from_record(con) = Refused
<1> SUFFICES ASSUME context_from_record(con) # Refused PROVE FALSE
  OBVIOUS
<1>1. PICK u, r, c : /\ u = ValueIn(Names(users), con.user) /\ r = ValueIn(RoleNames, con.role)
                     /\ c.user = u /\ c.role = r /\ u # 0 /\ r # 0 /\ context_is_valid(c)
  BY DEF context_from_record
<1>2. u \in DOMAIN users /\ users[u].name = con.user
  BY <1>1, NameFinds DEF UsersOK, UsersTyped
<1>3. r # OBJECT_R_VAL
  BY <1>1, ValueIs
<1>4. users[u].cache = {}
  <2>1. PICK k : k = sepol_user_key_create(con.user) /\ k = sepol_user_key_extract(users[u])
    BY <1>2 DEF sepol_user_key_extract, sepol_user_key_create
  <2>2. UserSaid(last.user[k], mls, users[u])
    BY <1>2, <2>1 DEF UsersOK
  <2>3. last.user[k] \notin UserType
    BY <2>1, UserParts, DataAssumption DEF HalfFilled
  <2> QED
    BY <2>2, <2>3 DEF UserSaid
<1> QED
  BY <1>1, <1>3, <1>4 DEF context_is_valid

\* The conditionals hold as the booleans set last say.
LEMMA CondsFollow ==
  ASSUME BoolsOK, NEW c \in DOMAIN CondTruth
  PROVE  conds[c] = ({k.name : k \in {x \in DOMAIN last.bool : last.bool[x].value = 1}}
                        \in CondTruth[c])
<1>1. \A x : sepol_bool_key_extract(x) = [name |-> x.name]
  BY DEF sepol_bool_key_extract, sepol_bool_key_create
<1>2. PICK on : on = {bools[i].name : i \in {j \in DOMAIN bools : bools[j].state = 1}}
  OBVIOUS
<1>3. PICK said : said = {x \in DOMAIN last.bool : last.bool[x].value = 1}
  OBVIOUS
<1>4. ASSUME NEW i \in DOMAIN bools
      PROVE  /\ [name |-> bools[i].name] \in DOMAIN last.bool
             /\ last.bool[[name |-> bools[i].name]].value = bools[i].state
  <2>1. bool_to_record(i).value = bools[i].state
    BY BoolRecordIs
  <2> QED
    BY <1>1, <2>1 DEF BoolsOK
<1>5. {k.name : k \in said} = on
  <2>1. ASSUME NEW k \in said PROVE k.name \in on
    <3>1. PICK i \in DOMAIN bools : k = [name |-> bools[i].name]
      BY <1>1, <1>3, <2>1 DEF BoolsOK
    <3>2. k.name = bools[i].name
      BY <3>1
    <3>3. bools[i].state = 1
      BY <1>3, <1>4, <2>1, <3>1
    <3> QED
      BY <1>2, <3>2, <3>3
  <2>2. ASSUME NEW i \in DOMAIN bools, bools[i].state = 1
        PROVE  bools[i].name \in {k.name : k \in said}
    <3>1. PICK k : k = [name |-> bools[i].name]
      OBVIOUS
    <3>2. k \in said /\ k.name = bools[i].name
      BY <1>3, <1>4, <2>2, <3>1
    <3> QED
      BY <3>2
  <2> QED
    BY <1>2, <2>1, <2>2
<1>6. conds[c] = (on \in CondTruth[c])
  BY <1>2 DEF BoolsOK, evaluate_conds
<1> QED
  BY <1>3, <1>5, <1>6

\* The keys of what clients hand in have the shape of what is expected.
LEMMA DataKeys ==
  /\ \A d \in PortData : sepol2ipproto(d.proto) >= 0 => sepol_port_key_extract(d) \in PortKeys
  /\ \A d \in NodeData : \E p \in Protos : sepol_node_key_extract(d) \in NodeKeysOf(p)
  /\ \A d \in IfaceData : sepol_iface_key_extract(d) \in NameKeys
  /\ \A d \in IbpkeyData : sepol_ibpkey_key_extract(d) \in IbpkeyKeys
  /\ \A d \in IbendportData : sepol_ibendport_key_extract(d) \in IbendportKeys
  /\ \A d \in BoolData : sepol_bool_key_extract(d) \in NameKeys
  /\ \A d \in UserData : sepol_user_key_extract(d) \in NameKeys
<1>1. ASSUME NEW d \in PortData, sepol2ipproto(d.proto) >= 0
      PROVE  sepol_port_key_extract(d) \in PortKeys
  <2>1. d \in PortType
    BY DataAssumption
  <2>2. d.low \in Int /\ d.high \in Int /\ d.proto \in Int
    BY <2>1 DEF PortType
  <2>3. d.proto \in 0 .. 3
    BY <1>1, <2>2, Protocols
  <2> QED
    BY <2>2, <2>3 DEF PortKeys, sepol_port_key_extract, sepol_port_key_create
<1>2. ASSUME NEW d \in NodeData
      PROVE  \E p \in Protos : sepol_node_key_extract(d) \in NodeKeysOf(p)
  <2>1. PICK p \in Protos : d \in NodeTypeOf(p)
    BY DataAssumption DEF NodeType, Protos
  <2>2. d.addr \in Addresses(p) /\ d.mask \in Addresses(p) /\ d.proto = p
    BY <2>1, NodeParts
  <2>3. sepol_node_key_extract(d) \in NodeKeysOf(p)
    BY <2>2 DEF NodeKeysOf, sepol_node_key_extract
  <2> QED
    BY <2>3
<1>3. ASSUME NEW d \in IfaceData PROVE sepol_iface_key_extract(d) \in NameKeys
  <2>1. d.name \in Int
    BY DataAssumption, IfaceParts
  <2> QED
    BY <2>1 DEF NameKeys, sepol_iface_key_extract, sepol_iface_key_create
<1>4. ASSUME NEW d \in IbpkeyData PROVE sepol_ibpkey_key_extract(d) \in IbpkeyKeys
  <2>1. d \in IbpkeyType
    BY DataAssumption
  <2>2. d.subnet_prefix \in Prefixes /\ d.low \in Int /\ d.high \in Int
    BY <2>1 DEF IbpkeyType
  <2> QED
    BY <2>2, IbpkeyKeyIs DEF IbpkeyKeys
<1>5. ASSUME NEW d \in IbendportData PROVE sepol_ibendport_key_extract(d) \in IbendportKeys
  <2>1. d \in IbendportType
    BY DataAssumption
  <2>2. d.ibdev_name \in CutNames /\ d.port \in Int
    BY <2>1 DEF IbendportType
  <2>3. Cut[d.ibdev_name] \in CutNames
    BY <2>2, CutAgain
  <2> QED
    BY <2>2, <2>3 DEF IbendportKeys, sepol_ibendport_key_extract, sepol_ibendport_key_create
<1>6. ASSUME NEW d \in BoolData PROVE sepol_bool_key_extract(d) \in NameKeys
  <2>1. d \in BoolType
    BY DataAssumption
  <2>2. d.name \in Int
    BY <2>1 DEF BoolType
  <2> QED
    BY <2>2 DEF NameKeys, sepol_bool_key_extract, sepol_bool_key_create
<1>7. ASSUME NEW d \in UserData PROVE sepol_user_key_extract(d) \in NameKeys
  <2>1. d.name \in Int
    BY DataAssumption, UserParts
  <2> QED
    BY <2>1 DEF NameKeys, sepol_user_key_extract, sepol_user_key_create
<1> QED
  BY <1>1, <1>2, <1>3, <1>4, <1>5, <1>6, <1>7

LEMMA TableKeys ==
  ASSUME BoolsOK, UsersOK
  PROVE  DOMAIN last.bool \subseteq NameKeys /\ DOMAIN last.user \subseteq NameKeys
<1>1. \A i \in DOMAIN bools : sepol_bool_key_extract(bools[i]) \in NameKeys
  <2> TAKE i \in DOMAIN bools
  <2>1. bools[i] \in BoolDatum
    BY DEF BoolsOK
  <2>2. bools[i].name \in Int
    BY <2>1 DEF BoolDatum
  <2> QED
    BY <2>2 DEF NameKeys, sepol_bool_key_extract, sepol_bool_key_create
<1>2. \A i \in DOMAIN users : sepol_user_key_extract(users[i]) \in NameKeys
  <2> TAKE i \in DOMAIN users
  <2>1. users[i] \in UserDatum
    BY DEF UsersOK, UsersTyped
  <2>2. users[i].name \in Int
    BY <2>1 DEF UserDatum
  <2> QED
    BY <2>2 DEF NameKeys, sepol_user_key_extract, sepol_user_key_create
<1> QED
  BY <1>1, <1>2 DEF BoolsOK, UsersOK

LEMMA AnswersFollow ==
  ASSUME IInv
  PROVE  QueryAnswersLast
<1>1. PortsOK /\ NodesOK /\ IfacesOK /\ IbpkeysOK /\ IbendportsOK /\ BoolsOK /\ UsersOK
  BY DEF IInv
<1>2. AnswersLast("port", {sepol_port_key_extract(d) : d \in
                             {p \in PortData : sepol2ipproto(p.proto) >= 0}}, sepol_port_query)
  <2>1. DOMAIN last.port \subseteq PortKeys
    BY <1>1 DEF PortsOK
  <2> QED
    BY <1>1, <2>1, DataKeys, PortAnswers DEF AnswersLast
<1>3. AnswersLast("node", {sepol_node_key_extract(d) : d \in NodeData}, sepol_node_query)
  <2>1. DOMAIN last.node \subseteq UNION {NodeKeysOf(p) : p \in Protos}
    BY <1>1 DEF NodesOK, Protos
  <2> QED
    BY <1>1, <2>1, DataKeys, NodeAnswers DEF AnswersLast
<1>4. AnswersLast("iface", {sepol_iface_key_extract(d) : d \in IfaceData}, sepol_iface_query)
  <2>1. DOMAIN last.iface \subseteq NameKeys
    BY <1>1 DEF IfacesOK
  <2> QED
    BY <1>1, <2>1, DataKeys, IfaceAnswers DEF AnswersLast
<1>5. AnswersLast("ibpkey", {sepol_ibpkey_key_extract(d) : d \in IbpkeyData}, sepol_ibpkey_query)
  <2>1. DOMAIN last.ibpkey \subseteq IbpkeyKeys
    BY <1>1 DEF IbpkeysOK
  <2> QED
    BY <1>1, <2>1, DataKeys, IbpkeyAnswers DEF AnswersLast
<1>6. AnswersLast("ibendport", {sepol_ibendport_key_extract(d) : d \in IbendportData},
                  sepol_ibendport_query)
  <2>1. DOMAIN last.ibendport \subseteq IbendportKeys
    BY <1>1 DEF IbendportsOK
  <2> QED
    BY <1>1, <2>1, DataKeys, IbendportAnswers DEF AnswersLast
<1>7. AnswersLast("bool", {sepol_bool_key_extract(d) : d \in BoolData}, sepol_bool_query)
  BY <1>1, TableKeys, DataKeys, BoolAnswers DEF AnswersLast
<1>8. AnswersLast("user", {sepol_user_key_extract(d) : d \in UserData}, UserAnswer)
  BY <1>1, TableKeys, DataKeys, UserAnswers DEF AnswersLast
<1>9. \A con \in NamedContexts :
         HalfFilled(sepol_user_key_create(con.user)) /\ con.role # RoleNames[OBJECT_R_VAL] =>
             context_from_record(con) = Refused
  BY <1>1, HalfFilledAuthorisesNothing
<1> QED
  BY <1>1, <1>2, <1>3, <1>4, <1>5, <1>6, <1>7, <1>8, <1>9, CondsFollow DEF QueryAnswersLast

\* A query answers with the record accepted last for its key, in every policy and whatever
\* the other calls were: sepol_port_query and its six siblings after the modify functions.
THEOREM AnswersLastHolds == Spec => []QueryAnswersLast
<1>1. IInv => QueryAnswersLast
  BY AnswersFollow
<1> QED
  BY <1>1, Inductive, PTL

-----------------------------------------------------------------------------
(***************************************************************************)
(* The functions that look at records agree.                               *)
(***************************************************************************)
LEMMA VisitAll ==
  ASSUME NEW records, 0 \notin DOMAIN records
  PROVE  Visit(records, [stop |-> 0, status |-> 0]).seen = records
<1>1. PICK r : /\ r = Visit(records, [stop |-> 0, status |-> 0])
               /\ r = [ok |-> TRUE, seen |-> records]
  BY DEF Visit
<1>2. r.seen = records
  BY <1>1
<1> QED
  BY <1>1, <1>2, Zenon

LEMMA VisitStopped ==
  ASSUME NEW records, NEW n \in DOMAIN records
  PROVE  /\ Visit(records, [stop |-> n, status |-> -1]).seen = SubSeq(records, 1, n)
         /\ ~Visit(records, [stop |-> n, status |-> -1]).ok
<1>1. PICK h : h = [stop |-> n, status |-> -1]
  OBVIOUS
<1>2. h.stop = n /\ h.status = -1 /\ (h.status >= 0) = FALSE
  BY <1>1
<1>3. PICK r : r = Visit(records, h) /\ r = [ok |-> FALSE, seen |-> SubSeq(records, 1, n)]
  BY <1>2, Zenon DEF Visit
<1>4. r.seen = SubSeq(records, 1, n) /\ r.ok = FALSE
  <2>1. PICK s : s = SubSeq(records, 1, n)
    OBVIOUS
  <2>2. r = [ok |-> FALSE, seen |-> s]
    BY <1>3, <2>1, Zenon
  <2>3. r.ok = FALSE
    BY <2>2
  <2>4. r.seen = s
    BY <2>2
  <2> QED
    BY <2>1, <2>3, <2>4
<1> QED
  BY <1>1, <1>3, <1>4, Zenon

\* A function over the places of a list is a list of the same length.
LEMMA Mapped ==
  ASSUME NEW n \in Nat, NEW f, f = [i \in 1 .. n |-> f[i]]
  PROVE  f \in Seq({f[i] : i \in 1 .. n}) /\ Len(f) = n /\ DOMAIN f = 1 .. n
<1>1. \A i \in 1 .. n : f[i] \in {f[j] : j \in 1 .. n}
  OBVIOUS
<1>2. [i \in 1 .. n |-> f[i]] \in Seq({f[j] : j \in 1 .. n})
  BY <1>1, IsASeq
<1>3. f \in Seq({f[i] : i \in 1 .. n}) /\ DOMAIN f = 1 .. n
  BY <1>2
<1>4. Len(f) \in Nat /\ DOMAIN f = 1 .. Len(f)
  BY <1>3
<1>5. Len(f) = n
  BY <1>3, <1>4
<1> QED
  BY <1>3, <1>5

LEMMA Ordered ==
  ASSUME NEW n \in Nat, NEW D, NEW t, \A i \in D : t[i] \in Tuples(n)
  PROVE  /\ \A i, j \in D : Compare(t[i], t[j]) = -Compare(t[j], t[i])
         /\ \A i, j, m \in D : Compare(t[i], t[j]) < 0 /\ Compare(t[j], t[m]) < 0
                                 => Compare(t[i], t[m]) < 0
<1>1. ASSUME NEW i \in D, NEW j \in D PROVE Compare(t[i], t[j]) = -Compare(t[j], t[i])
  BY CompareAnti
<1>2. ASSUME NEW i \in D, NEW j \in D, NEW m \in D,
             Compare(t[i], t[j]) < 0, Compare(t[j], t[m]) < 0
      PROVE  Compare(t[i], t[m]) < 0
  BY <1>2, CompareLess
<1> QED
  BY <1>1, <1>2

LEMMA Pairs ==
  /\ \A a \in Int : <<a>> \in Tuples(1)
  /\ \A a, b \in Int : <<a, b>> \in Tuples(2)
  /\ \A a, b, c \in Int : <<a, b, c>> \in Tuples(3)
  BY DEF Tuples

LEMMA PortMatches ==
  ASSUME NEW e \in PortEntry, NEW k \in PortKeys
  PROVE  sepol_port_compare(port_to_record(e), k) = 0 <=> e.key = PortEntryKey(k)
<1>1. /\ e.key = [protocol |-> e.key.protocol, low |-> e.key.low, high |-> e.key.high]
      /\ e.key.low \in Int /\ e.key.high \in Int
      /\ e.key.protocol \in {IpProto[i] : i \in DOMAIN IpProto}
  BY DEF PortEntry, EntryOf
<1>2. PICK q \in 0 .. 3 : e.key.protocol = sepol2ipproto(q) /\ ipproto2sepol(e.key.protocol) = q
  <2>1. \E q \in 0 .. 3 : e.key.protocol = sepol2ipproto(q)
    BY <1>1 DEF sepol2ipproto, IpProto
  <2> QED
    BY <2>1, Protocols
<1>3. k.low \in Int /\ k.high \in Int /\ k.proto \in 0 .. 3
  BY DEF PortKeys
<1>4. sepol_port_compare(port_to_record(e), k)
         = Compare(<<e.key.low, e.key.high, q>>, <<k.low, k.high, k.proto>>)
  BY <1>2, PortRecordIs DEF sepol_port_compare
<1>5. <<e.key.low, e.key.high, q>> \in Tuples(3) /\ <<k.low, k.high, k.proto>> \in Tuples(3)
  BY <1>1, <1>2, <1>3, Pairs
<1>6. sepol_port_compare(port_to_record(e), k) = 0
         <=> <<e.key.low, e.key.high, q>> = <<k.low, k.high, k.proto>>
  BY <1>4, <1>5, CompareZero
<1>7. q = k.proto <=> e.key.protocol = sepol2ipproto(k.proto)
  BY <1>2, <1>3, Protocols
<1> QED
  BY <1>1, <1>6, <1>7 DEF PortEntryKey

LEMMA PortsAgree ==
  ASSUME PortsOK
  PROVE  LooksAgree(KeysOf({p \in PortData : sepol2ipproto(p.proto) >= 0},
                           sepol_port_key_extract),
                    sepol_port_count, sepol_port_exists, sepol_port_query,
                    sepol_port_iterate, sepol_port_compare)
<1> DEFINE v == sepol_port_iterate([stop |-> 0, status |-> 0]).seen
<1>1. PICK list : list = ocon.port /\ list \in Seq(PortEntry)
  BY DEF PortsOK
<1>2. PICK n : n = Len(list) /\ n \in Nat /\ DOMAIN list = 1 .. n
  BY <1>1
<1>3. PICK records : records = PortRecords
                     /\ records = [i \in 1 .. n |-> port_to_record(list[i])]
  BY <1>1, <1>2 DEF PortRecords
<1>4. Len(records) = n /\ DOMAIN records = 1 .. n
  BY <1>2, <1>3, Mapped
<1>5. v = records
  <2>1. 0 \notin DOMAIN records
    BY <1>4
  <2>2. Visit(records, [stop |-> 0, status |-> 0]).seen = records
    BY <2>1, VisitAll
  <2> QED
    BY <1>3, <2>2 DEF sepol_port_iterate
<1> HIDE DEF v
<1>6. sepol_port_count = n
  BY <1>1, <1>2 DEF sepol_port_count
<1>7. ASSUME NEW m \in 1 .. n
      PROVE  /\ sepol_port_iterate([stop |-> m, status |-> -1]).seen = SubSeq(v, 1, m)
             /\ ~sepol_port_iterate([stop |-> m, status |-> -1]).ok
  BY <1>3, <1>4, <1>5, VisitStopped DEF sepol_port_iterate
<1>8. ASSUME NEW k \in PortKeys
      PROVE  LET hits == {i \in DOMAIN v : sepol_port_compare(v[i], k) = 0} IN
             /\ sepol_port_exists(k) = (hits # {})
             /\ sepol_port_query(k) = (IF hits = {} THEN NULL ELSE v[Min(hits)])
  <2>2. PICK key : key = PortEntryKey(k)
    OBVIOUS
  <2> DEFINE hits == {i \in DOMAIN v : sepol_port_compare(v[i], k) = 0}
             same == {i \in 1 .. Len(list) : list[i].key = key}
  <2>1. hits = same
    <3>1. ASSUME NEW i \in 1 .. n
          PROVE  sepol_port_compare(v[i], k) = 0 <=> list[i].key = PortEntryKey(k)
      <4>1. list[i] \in PortEntry /\ v[i] = port_to_record(list[i])
        BY <1>1, <1>2, <1>3, <1>5
      <4> QED
        BY <4>1, PortMatches
    <3> QED
      BY <1>2, <1>4, <1>5, <2>2, <3>1
  <2>3. /\ First(list, key) # 0 <=> same # {}
        /\ same # {} => First(list, key) = Min(same)
    <3>1. PICK S : S = PortEntry
      OBVIOUS
    <3>2. list \in Seq(S)
      BY <1>1, <3>1
    <3> QED
      BY <3>2, FirstHit
  <2>4. ~(sepol2ipproto(k.proto) < 0)
    <3>1. k.proto \in 0 .. 3 /\ k.proto \in Int
      BY DEF PortKeys
    <3>2. sepol2ipproto(k.proto) >= 0 /\ sepol2ipproto(k.proto) \in Int
      BY <3>1, Protocols DEF sepol2ipproto, IpProto
    <3> QED
      BY <3>2
  <2>5. sepol_port_exists(k) = (First(list, key) # 0)
    BY <1>1, <2>2, <2>4 DEF sepol_port_exists
  <2>6. sepol_port_query(k) = IF First(list, key) = 0 THEN NULL ELSE v[First(list, key)]
    BY <1>1, <1>3, <1>5, <2>2, <2>4 DEF sepol_port_query
  <2> HIDE DEF hits, same
  <2>7. /\ sepol_port_exists(k) = (hits # {})
        /\ sepol_port_query(k) = (IF hits = {} THEN NULL ELSE v[Min(hits)])
    BY <2>1, <2>3, <2>5, <2>6
  <2> QED
    BY <2>7 DEF hits
<1>9. PICK t : t = [i \in 1 .. n |-> <<list[i].key.low, list[i].key.high,
                                        ipproto2sepol(list[i].key.protocol)>>]
  OBVIOUS
<1>10. \A i \in DOMAIN v : t[i] \in Tuples(3)
  <2> TAKE i \in DOMAIN v
  <2>1. i \in 1 .. n /\ list[i] \in PortEntry
    BY <1>1, <1>2, <1>4, <1>5
  <2>2. /\ list[i].key.low \in Int /\ list[i].key.high \in Int
        /\ list[i].key.protocol \in {IpProto[j] : j \in DOMAIN IpProto}
    BY <2>1 DEF PortEntry, EntryOf
  <2>3. ipproto2sepol(list[i].key.protocol) \in Int
    <3>1. \E q \in 0 .. 3 : list[i].key.protocol = sepol2ipproto(q)
      BY <2>2 DEF sepol2ipproto, IpProto
    <3> QED
      BY <3>1, Protocols
  <2> QED
    BY <1>9, <2>1, <2>2, <2>3, Pairs
<1>11. \A i, j \in DOMAIN v : sepol_port_compare(v[i], v[j]) = Compare(t[i], t[j])
  <2> TAKE i, j \in DOMAIN v
  <2>1. i \in 1 .. n /\ j \in 1 .. n
    BY <1>4, <1>5
  <2>2. v[i] = port_to_record(list[i]) /\ v[j] = port_to_record(list[j])
    BY <1>3, <1>5, <2>1
  <2>3. PICK a, b : a = v[i] /\ b = v[j]
    OBVIOUS
  <2>4. /\ a.low = list[i].key.low /\ a.high = list[i].key.high
        /\ a.proto = ipproto2sepol(list[i].key.protocol)
        /\ b.low = list[j].key.low /\ b.high = list[j].key.high
        /\ b.proto = ipproto2sepol(list[j].key.protocol)
    BY <2>2, <2>3, PortRecordIs
  <2>5. t[i] = <<a.low, a.high, a.proto>> /\ t[j] = <<b.low, b.high, b.proto>>
    BY <1>9, <2>1, <2>4
  <2> QED
    BY <2>3, <2>5 DEF sepol_port_compare
<1>12. /\ \A i, j \in DOMAIN v : sepol_port_compare(v[i], v[j]) = -sepol_port_compare(v[j], v[i])
       /\ \A i, j, m \in DOMAIN v :
             sepol_port_compare(v[i], v[j]) < 0 /\ sepol_port_compare(v[j], v[m]) < 0
                => sepol_port_compare(v[i], v[m]) < 0
  <2>1. PICK D : D = DOMAIN v
    OBVIOUS
  <2>2. \A i \in D : t[i] \in Tuples(3)
    BY <1>10, <2>1
  <2>3. /\ \A i, j \in D : Compare(t[i], t[j]) = -Compare(t[j], t[i])
        /\ \A i, j, m \in D : Compare(t[i], t[j]) < 0 /\ Compare(t[j], t[m]) < 0
                                => Compare(t[i], t[m]) < 0
    BY <2>2, Ordered
  <2> QED
    BY <1>11, <2>1, <2>3
<1>13. KeysOf({p \in PortData : sepol2ipproto(p.proto) >= 0}, sepol_port_key_extract)
          \subseteq PortKeys
  BY DataKeys DEF KeysOf
<1> QED
  BY <1>4, <1>5, <1>6, <1>7, <1>8, <1>12, <1>13, Zenon DEF LooksAgree, v

LEMMA IbpkeyMatches ==
  ASSUME NEW e \in EntryOf(IbpkeyKeys), NEW k \in IbpkeyKeys
  PROVE  sepol_ibpkey_compare(ibpkey_to_record(e), k) = 0 <=> e.key = k
<1>1. e.key \in IbpkeyKeys
  BY DEF EntryOf
<1>2. \A x \in IbpkeyKeys :
         /\ x = [subnet_prefix |-> x.subnet_prefix, low |-> x.low, high |-> x.high]
         /\ x.subnet_prefix \in Int /\ x.low \in Int /\ x.high \in Int
  BY PrintedParsesBack DEF IbpkeyKeys, Prefixes
<1>3. PICK a, b : /\ a = <<e.key.subnet_prefix, e.key.low, e.key.high>>
                  /\ b = <<k.subnet_prefix, k.low, k.high>>
                  /\ a \in Tuples(3) /\ b \in Tuples(3)
  BY <1>1, <1>2, Pairs
<1>4. sepol_ibpkey_compare(ibpkey_to_record(e), k) = Compare(a, b)
  BY <1>3, IbpkeyRecordIs DEF sepol_ibpkey_compare
<1>5. sepol_ibpkey_compare(ibpkey_to_record(e), k) = 0 <=> a = b
  BY <1>3, <1>4, CompareZero
<1>6. a = b <=> e.key = k
  BY <1>1, <1>2, <1>3
<1> QED
  BY <1>5, <1>6

LEMMA IbpkeysAgree ==
  ASSUME IbpkeysOK
  PROVE  LooksAgree(KeysOf(IbpkeyData, sepol_ibpkey_key_extract), sepol_ibpkey_count,
                    sepol_ibpkey_exists,
                    sepol_ibpkey_query, sepol_ibpkey_iterate, sepol_ibpkey_compare)
<1> DEFINE v == sepol_ibpkey_iterate([stop |-> 0, status |-> 0]).seen
<1>1. PICK list : list = ocon.ibpkey /\ list \in Seq(EntryOf(IbpkeyKeys))
  BY DEF IbpkeysOK
<1>2. PICK n : n = Len(list) /\ n \in Nat /\ DOMAIN list = 1 .. n
  BY <1>1
<1>3. PICK records : records = IbpkeyRecords
                     /\ records = [i \in 1 .. n |-> ibpkey_to_record(list[i])]
  BY <1>1, <1>2 DEF IbpkeyRecords
<1>4. Len(records) = n /\ DOMAIN records = 1 .. n
  BY <1>2, <1>3, Mapped
<1>5. v = records
  <2>1. 0 \notin DOMAIN records
    BY <1>4
  <2>2. Visit(records, [stop |-> 0, status |-> 0]).seen = records
    BY <2>1, VisitAll
  <2> QED
    BY <1>3, <2>2 DEF sepol_ibpkey_iterate
<1> HIDE DEF v
<1>6. sepol_ibpkey_count = n
  BY <1>1, <1>2 DEF sepol_ibpkey_count
<1>7. ASSUME NEW m \in 1 .. n
      PROVE  /\ sepol_ibpkey_iterate([stop |-> m, status |-> -1]).seen = SubSeq(v, 1, m)
             /\ ~sepol_ibpkey_iterate([stop |-> m, status |-> -1]).ok
  BY <1>3, <1>4, <1>5, VisitStopped DEF sepol_ibpkey_iterate
<1>8. ASSUME NEW k \in IbpkeyKeys
      PROVE  LET hits == {i \in DOMAIN v : sepol_ibpkey_compare(v[i], k) = 0} IN
             /\ sepol_ibpkey_exists(k) = (hits # {})
             /\ sepol_ibpkey_query(k) = (IF hits = {} THEN NULL ELSE v[Min(hits)])
  <2>1. PICK key : key = k
    OBVIOUS
  <2> DEFINE hits == {i \in DOMAIN v : sepol_ibpkey_compare(v[i], k) = 0}
             same == {i \in 1 .. Len(list) : list[i].key = key}
  <2>2. hits = same
    <3>1. ASSUME NEW i \in 1 .. n
          PROVE  sepol_ibpkey_compare(v[i], k) = 0 <=> list[i].key = key
      <4>1. list[i] \in EntryOf(IbpkeyKeys) /\ v[i] = ibpkey_to_record(list[i])
        BY <1>1, <1>2, <1>3, <1>5
      <4> QED
        BY <2>1, <4>1, IbpkeyMatches
    <3> QED
      BY <1>2, <1>4, <1>5, <3>1
  <2>3. /\ First(list, key) # 0 <=> same # {}
        /\ same # {} => First(list, key) = Min(same)
    <3>1. PICK S : S = EntryOf(IbpkeyKeys)
      OBVIOUS
    <3>2. list \in Seq(S)
      BY <1>1, <3>1
    <3> QED
      BY <3>2, FirstHit
  <2>4. sepol_ibpkey_exists(k) = (First(list, key) # 0)
    BY <1>1, <2>1 DEF sepol_ibpkey_exists
  <2>5. sepol_ibpkey_query(k) = IF First(list, key) = 0 THEN NULL ELSE v[First(list, key)]
    BY <1>1, <1>3, <1>5, <2>1 DEF sepol_ibpkey_query
  <2> HIDE DEF hits, same
  <2>6. /\ sepol_ibpkey_exists(k) = (hits # {})
        /\ sepol_ibpkey_query(k) = (IF hits = {} THEN NULL ELSE v[Min(hits)])
    BY <2>2, <2>3, <2>4, <2>5
  <2> QED
    BY <2>6 DEF hits
<1>9. PICK t : t = [i \in 1 .. n |-> <<list[i].key.subnet_prefix, list[i].key.low,
                                        list[i].key.high>>]
  OBVIOUS
<1>10. \A i \in DOMAIN v : t[i] \in Tuples(3)
  <2> TAKE i \in DOMAIN v
  <2>1. i \in 1 .. n /\ list[i] \in EntryOf(IbpkeyKeys)
    BY <1>1, <1>2, <1>4, <1>5
  <2>2. /\ list[i].key.subnet_prefix \in Int /\ list[i].key.low \in Int
        /\ list[i].key.high \in Int
    BY <2>1, PrintedParsesBack DEF EntryOf, IbpkeyKeys, Prefixes
  <2> QED
    BY <1>9, <2>1, <2>2, Pairs
<1>11. \A i, j \in DOMAIN v : sepol_ibpkey_compare(v[i], v[j]) = Compare(t[i], t[j])
  <2> TAKE i, j \in DOMAIN v
  <2>1. /\ i \in 1 .. n /\ j \in 1 .. n
        /\ list[i] \in EntryOf(IbpkeyKeys) /\ list[j] \in EntryOf(IbpkeyKeys)
    BY <1>1, <1>2, <1>4, <1>5
  <2>2. v[i] = ibpkey_to_record(list[i]) /\ v[j] = ibpkey_to_record(list[j])
    BY <1>3, <1>5, <2>1
  <2>3. PICK a, b : a = v[i] /\ b = v[j]
    OBVIOUS
  <2>4. /\ a.subnet_prefix = list[i].key.subnet_prefix /\ a.low = list[i].key.low
        /\ a.high = list[i].key.high
        /\ b.subnet_prefix = list[j].key.subnet_prefix /\ b.low = list[j].key.low
        /\ b.high = list[j].key.high
    BY <2>1, <2>2, <2>3, IbpkeyRecordIs
  <2>5. t[i] = <<a.subnet_prefix, a.low, a.high>> /\ t[j] = <<b.subnet_prefix, b.low, b.high>>
    BY <1>9, <2>1, <2>4
  <2> QED
    BY <2>3, <2>5 DEF sepol_ibpkey_compare
<1>12. /\ \A i, j \in DOMAIN v : sepol_ibpkey_compare(v[i], v[j]) = -sepol_ibpkey_compare(v[j], v[i])
       /\ \A i, j, m \in DOMAIN v :
             sepol_ibpkey_compare(v[i], v[j]) < 0 /\ sepol_ibpkey_compare(v[j], v[m]) < 0
                => sepol_ibpkey_compare(v[i], v[m]) < 0
  <2>1. PICK D : D = DOMAIN v
    OBVIOUS
  <2>2. \A i \in D : t[i] \in Tuples(3)
    BY <1>10, <2>1
  <2>3. /\ \A i, j \in D : Compare(t[i], t[j]) = -Compare(t[j], t[i])
        /\ \A i, j, m \in D : Compare(t[i], t[j]) < 0 /\ Compare(t[j], t[m]) < 0
                                => Compare(t[i], t[m]) < 0
    BY <2>2, Ordered
  <2> QED
    BY <1>11, <2>1, <2>3
<1>13. KeysOf(IbpkeyData, sepol_ibpkey_key_extract) \subseteq IbpkeyKeys
  BY DataKeys DEF KeysOf
<1> QED
  BY <1>4, <1>5, <1>6, <1>7, <1>8, <1>12, <1>13, Zenon DEF LooksAgree, v

LEMMA IbendportMatches ==
  ASSUME NEW e \in EntryOf(IbendportKeys), NEW k \in IbendportKeys
  PROVE  sepol_ibendport_compare(ibendport_to_record(e), k) = 0 <=> e.key = k
<1>1. e.key \in IbendportKeys
  BY DEF EntryOf
<1>2. \A x \in IbendportKeys :
         /\ x = [ibdev_name |-> x.ibdev_name, port |-> x.port]
         /\ x.ibdev_name \in Int /\ x.port \in Int /\ Cut[x.ibdev_name] = x.ibdev_name
  BY CutOnce, CutAgain DEF IbendportKeys, CutNames
<1>3. PICK a, b : /\ a = <<e.key.port, e.key.ibdev_name>> /\ b = <<k.port, k.ibdev_name>>
                  /\ a \in Tuples(2) /\ b \in Tuples(2)
  BY <1>1, <1>2, Pairs
<1>4. sepol_ibendport_compare(ibendport_to_record(e), k) = Compare(a, b)
  BY <1>1, <1>2, <1>3, IbendportRecordIs DEF sepol_ibendport_compare
<1>5. sepol_ibendport_compare(ibendport_to_record(e), k) = 0 <=> a = b
  BY <1>3, <1>4, CompareZero
<1>6. a = b <=> e.key = k
  BY <1>1, <1>2, <1>3
<1> QED
  BY <1>5, <1>6

LEMMA IbendportsAgree ==
  ASSUME IbendportsOK
  PROVE  LooksAgree(KeysOf(IbendportData, sepol_ibendport_key_extract), sepol_ibendport_count,
                    sepol_ibendport_exists,
                    sepol_ibendport_query, sepol_ibendport_iterate, sepol_ibendport_compare)
<1> DEFINE v == sepol_ibendport_iterate([stop |-> 0, status |-> 0]).seen
<1>1. PICK list : list = ocon.ibendport /\ list \in Seq(EntryOf(IbendportKeys))
  BY DEF IbendportsOK
<1>2. PICK n : n = Len(list) /\ n \in Nat /\ DOMAIN list = 1 .. n
  BY <1>1
<1>3. PICK records : records = IbendportRecords
                     /\ records = [i \in 1 .. n |-> ibendport_to_record(list[i])]
  BY <1>1, <1>2 DEF IbendportRecords
<1>4. Len(records) = n /\ DOMAIN records = 1 .. n
  BY <1>2, <1>3, Mapped
<1>5. v = records
  <2>1. 0 \notin DOMAIN records
    BY <1>4
  <2>2. Visit(records, [stop |-> 0, status |-> 0]).seen = records
    BY <2>1, VisitAll
  <2> QED
    BY <1>3, <2>2 DEF sepol_ibendport_iterate
<1> HIDE DEF v
<1>6. sepol_ibendport_count = n
  BY <1>1, <1>2 DEF sepol_ibendport_count
<1>7. ASSUME NEW m \in 1 .. n
      PROVE  /\ sepol_ibendport_iterate([stop |-> m, status |-> -1]).seen = SubSeq(v, 1, m)
             /\ ~sepol_ibendport_iterate([stop |-> m, status |-> -1]).ok
  BY <1>3, <1>4, <1>5, VisitStopped DEF sepol_ibendport_iterate
<1>8. ASSUME NEW k \in IbendportKeys
      PROVE  LET hits == {i \in DOMAIN v : sepol_ibendport_compare(v[i], k) = 0} IN
             /\ sepol_ibendport_exists(k) = (hits # {})
             /\ sepol_ibendport_query(k) = (IF hits = {} THEN NULL ELSE v[Min(hits)])
  <2>1. PICK key : key = k
    OBVIOUS
  <2> DEFINE hits == {i \in DOMAIN v : sepol_ibendport_compare(v[i], k) = 0}
             same == {i \in 1 .. Len(list) : list[i].key = key}
  <2>2. hits = same
    <3>1. ASSUME NEW i \in 1 .. n
          PROVE  sepol_ibendport_compare(v[i], k) = 0 <=> list[i].key = key
      <4>1. list[i] \in EntryOf(IbendportKeys) /\ v[i] = ibendport_to_record(list[i])
        BY <1>1, <1>2, <1>3, <1>5
      <4> QED
        BY <2>1, <4>1, IbendportMatches
    <3> QED
      BY <1>2, <1>4, <1>5, <3>1
  <2>3. /\ First(list, key) # 0 <=> same # {}
        /\ same # {} => First(list, key) = Min(same)
    <3>1. PICK S : S = EntryOf(IbendportKeys)
      OBVIOUS
    <3>2. list \in Seq(S)
      BY <1>1, <3>1
    <3> QED
      BY <3>2, FirstHit
  <2>4. sepol_ibendport_exists(k) = (First(list, key) # 0)
    BY <1>1, <2>1 DEF sepol_ibendport_exists
  <2>5. sepol_ibendport_query(k) = IF First(list, key) = 0 THEN NULL ELSE v[First(list, key)]
    BY <1>1, <1>3, <1>5, <2>1 DEF sepol_ibendport_query
  <2> HIDE DEF hits, same
  <2>6. /\ sepol_ibendport_exists(k) = (hits # {})
        /\ sepol_ibendport_query(k) = (IF hits = {} THEN NULL ELSE v[Min(hits)])
    BY <2>2, <2>3, <2>4, <2>5
  <2> QED
    BY <2>6 DEF hits
<1>9. PICK t : t = [i \in 1 .. n |-> <<list[i].key.port, list[i].key.ibdev_name>>]
  OBVIOUS
<1>10. \A i \in DOMAIN v : t[i] \in Tuples(2)
  <2> TAKE i \in DOMAIN v
  <2>1. i \in 1 .. n /\ list[i] \in EntryOf(IbendportKeys)
    BY <1>1, <1>2, <1>4, <1>5
  <2>2. /\ list[i].key.port \in Int /\ list[i].key.ibdev_name \in Int
    BY <2>1, CutOnce DEF EntryOf, IbendportKeys, CutNames
  <2> QED
    BY <1>9, <2>1, <2>2, Pairs
<1>11. \A i, j \in DOMAIN v : sepol_ibendport_compare(v[i], v[j]) = Compare(t[i], t[j])
  <2> TAKE i, j \in DOMAIN v
  <2>1. /\ i \in 1 .. n /\ j \in 1 .. n
        /\ list[i] \in EntryOf(IbendportKeys) /\ list[j] \in EntryOf(IbendportKeys)
    BY <1>1, <1>2, <1>4, <1>5
  <2>2. v[i] = ibendport_to_record(list[i]) /\ v[j] = ibendport_to_record(list[j])
    BY <1>3, <1>5, <2>1
  <2>3. PICK a, b : a = v[i] /\ b = v[j]
    OBVIOUS
  <2>4. /\ a.port = list[i].key.port /\ a.ibdev_name = list[i].key.ibdev_name
        /\ b.port = list[j].key.port /\ b.ibdev_name = list[j].key.ibdev_name
    <3>1. list[i].key.ibdev_name \in CutNames /\ list[j].key.ibdev_name \in CutNames
      BY <2>1 DEF EntryOf, IbendportKeys
    <3>2. /\ Cut[list[i].key.ibdev_name] = list[i].key.ibdev_name
          /\ Cut[list[j].key.ibdev_name] = list[j].key.ibdev_name
      BY <3>1, CutAgain
    <3> QED
      BY <2>2, <2>3, <3>2, IbendportRecordIs
  <2>5. t[i] = <<a.port, a.ibdev_name>> /\ t[j] = <<b.port, b.ibdev_name>>
    BY <1>9, <2>1, <2>4
  <2> QED
    BY <2>3, <2>5 DEF sepol_ibendport_compare
<1>12. /\ \A i, j \in DOMAIN v : sepol_ibendport_compare(v[i], v[j]) = -sepol_ibendport_compare(v[j], v[i])
       /\ \A i, j, m \in DOMAIN v :
             sepol_ibendport_compare(v[i], v[j]) < 0 /\ sepol_ibendport_compare(v[j], v[m]) < 0
                => sepol_ibendport_compare(v[i], v[m]) < 0
  <2>1. PICK D : D = DOMAIN v
    OBVIOUS
  <2>2. \A i \in D : t[i] \in Tuples(2)
    BY <1>10, <2>1
  <2>3. /\ \A i, j \in D : Compare(t[i], t[j]) = -Compare(t[j], t[i])
        /\ \A i, j, m \in D : Compare(t[i], t[j]) < 0 /\ Compare(t[j], t[m]) < 0
                                => Compare(t[i], t[m]) < 0
    BY <2>2, Ordered
  <2> QED
    BY <1>11, <2>1, <2>3
<1>13. KeysOf(IbendportData, sepol_ibendport_key_extract) \subseteq IbendportKeys
  BY DataKeys DEF KeysOf
<1> QED
  BY <1>4, <1>5, <1>6, <1>7, <1>8, <1>12, <1>13, Zenon DEF LooksAgree, v

LEMMA IfaceMatches ==
  ASSUME NEW e \in IfaceEntry, NEW k \in NameKeys
  PROVE  sepol_iface_compare(iface_to_record(e), k) = 0 <=> e.key = k.name
<1>1. e.key \in Int /\ k.name \in Int
  BY DEF IfaceEntry, NameKeys
<1>2. PICK a, b : a = <<e.key>> /\ b = <<k.name>> /\ a \in Tuples(1) /\ b \in Tuples(1)
  BY <1>1, Pairs
<1>3. sepol_iface_compare(iface_to_record(e), k) = Compare(a, b)
  BY <1>2, IfaceRecordIs DEF sepol_iface_compare
<1>4. sepol_iface_compare(iface_to_record(e), k) = 0 <=> a = b
  BY <1>2, <1>3, CompareZero
<1> QED
  BY <1>2, <1>4

LEMMA IfacesAgree ==
  ASSUME IfacesOK
  PROVE  LooksAgree(KeysOf(IfaceData, sepol_iface_key_extract), sepol_iface_count,
                    sepol_iface_exists,
                    sepol_iface_query, sepol_iface_iterate, sepol_iface_compare)
<1> DEFINE v == sepol_iface_iterate([stop |-> 0, status |-> 0]).seen
<1>1. PICK list : list = ocon.netif /\ list \in Seq(IfaceEntry)
  BY DEF IfacesOK
<1>2. PICK n : n = Len(list) /\ n \in Nat /\ DOMAIN list = 1 .. n
  BY <1>1
<1>3. PICK records : records = IfaceRecords
                     /\ records = [i \in 1 .. n |-> iface_to_record(list[i])]
  BY <1>1, <1>2 DEF IfaceRecords
<1>4. Len(records) = n /\ DOMAIN records = 1 .. n
  BY <1>2, <1>3, Mapped
<1>5. v = records
  <2>1. 0 \notin DOMAIN records
    BY <1>4
  <2>2. Visit(records, [stop |-> 0, status |-> 0]).seen = records
    BY <2>1, VisitAll
  <2> QED
    BY <1>3, <2>2 DEF sepol_iface_iterate
<1> HIDE DEF v
<1>6. sepol_iface_count = n
  BY <1>1, <1>2 DEF sepol_iface_count
<1>7. ASSUME NEW m \in 1 .. n
      PROVE  /\ sepol_iface_iterate([stop |-> m, status |-> -1]).seen = SubSeq(v, 1, m)
             /\ ~sepol_iface_iterate([stop |-> m, status |-> -1]).ok
  BY <1>3, <1>4, <1>5, VisitStopped DEF sepol_iface_iterate
<1>8. ASSUME NEW k \in NameKeys
      PROVE  LET hits == {i \in DOMAIN v : sepol_iface_compare(v[i], k) = 0} IN
             /\ sepol_iface_exists(k) = (hits # {})
             /\ sepol_iface_query(k) = (IF hits = {} THEN NULL ELSE v[Min(hits)])
  <2>1. PICK key : key = k.name
    OBVIOUS
  <2> DEFINE hits == {i \in DOMAIN v : sepol_iface_compare(v[i], k) = 0}
             same == {i \in 1 .. Len(list) : list[i].key = key}
  <2>2. hits = same
    <3>1. ASSUME NEW i \in 1 .. n
          PROVE  sepol_iface_compare(v[i], k) = 0 <=> list[i].key = key
      <4>1. list[i] \in IfaceEntry /\ v[i] = iface_to_record(list[i])
        BY <1>1, <1>2, <1>3, <1>5
      <4> QED
        BY <2>1, <4>1, IfaceMatches
    <3> QED
      BY <1>2, <1>4, <1>5, <3>1
  <2>3. /\ First(list, key) # 0 <=> same # {}
        /\ same # {} => First(list, key) = Min(same)
    <3>1. PICK S : S = IfaceEntry
      OBVIOUS
    <3>2. list \in Seq(S)
      BY <1>1, <3>1
    <3> QED
      BY <3>2, FirstHit
  <2>4. sepol_iface_exists(k) = (First(list, key) # 0)
    BY <1>1, <2>1 DEF sepol_iface_exists
  <2>5. sepol_iface_query(k) = IF First(list, key) = 0 THEN NULL ELSE v[First(list, key)]
    BY <1>1, <1>3, <1>5, <2>1 DEF sepol_iface_query
  <2> HIDE DEF hits, same
  <2>6. /\ sepol_iface_exists(k) = (hits # {})
        /\ sepol_iface_query(k) = (IF hits = {} THEN NULL ELSE v[Min(hits)])
    BY <2>2, <2>3, <2>4, <2>5
  <2> QED
    BY <2>6 DEF hits
<1>9. PICK t : t = [i \in 1 .. n |-> <<list[i].key>>]
  OBVIOUS
<1>10. \A i \in DOMAIN v : t[i] \in Tuples(1)
  <2> TAKE i \in DOMAIN v
  <2>1. i \in 1 .. n /\ list[i] \in IfaceEntry
    BY <1>1, <1>2, <1>4, <1>5
  <2>2. list[i].key \in Int
    BY <2>1 DEF IfaceEntry
  <2> QED
    BY <1>9, <2>1, <2>2, Pairs
<1>11. \A i, j \in DOMAIN v : sepol_iface_compare(v[i], v[j]) = Compare(t[i], t[j])
  <2> TAKE i, j \in DOMAIN v
  <2>1. i \in 1 .. n /\ j \in 1 .. n /\ list[i] \in IfaceEntry /\ list[j] \in IfaceEntry
    BY <1>1, <1>2, <1>4, <1>5
  <2>2. v[i] = iface_to_record(list[i]) /\ v[j] = iface_to_record(list[j])
    BY <1>3, <1>5, <2>1
  <2>3. PICK a, b : a = v[i] /\ b = v[j]
    OBVIOUS
  <2>4. a.name = list[i].key /\ b.name = list[j].key
    BY <2>1, <2>2, <2>3, IfaceRecordIs
  <2>5. t[i] = <<a.name>> /\ t[j] = <<b.name>>
    BY <1>9, <2>1, <2>4
  <2> QED
    BY <2>3, <2>5 DEF sepol_iface_compare
<1>12. /\ \A i, j \in DOMAIN v : sepol_iface_compare(v[i], v[j]) = -sepol_iface_compare(v[j], v[i])
       /\ \A i, j, m \in DOMAIN v :
             sepol_iface_compare(v[i], v[j]) < 0 /\ sepol_iface_compare(v[j], v[m]) < 0
                => sepol_iface_compare(v[i], v[m]) < 0
  <2>1. PICK D : D = DOMAIN v
    OBVIOUS
  <2>2. \A i \in D : t[i] \in Tuples(1)
    BY <1>10, <2>1
  <2>3. /\ \A i, j \in D : Compare(t[i], t[j]) = -Compare(t[j], t[i])
        /\ \A i, j, m \in D : Compare(t[i], t[j]) < 0 /\ Compare(t[j], t[m]) < 0
                                => Compare(t[i], t[m]) < 0
    BY <2>2, Ordered
  <2> QED
    BY <1>11, <2>1, <2>3
<1>13. KeysOf(IfaceData, sepol_iface_key_extract) \subseteq NameKeys
  BY DataKeys DEF KeysOf
<1> QED
  BY <1>4, <1>5, <1>6, <1>7, <1>8, <1>12, <1>13, Zenon DEF LooksAgree, v

\* The place of a name that occurs once is the least of its places.
LEMMA NameHit ==
  ASSUME NEW S, NEW table \in Seq(S), Injective(Names(table)), NEW name
  PROVE  LET hits == {i \in 1 .. Len(table) : table[i].name = name} IN
         /\ ValueIn(Names(table), name) # 0 <=> hits # {}
         /\ hits # {} => ValueIn(Names(table), name) = Min(hits)
<1> DEFINE hits == {i \in 1 .. Len(table) : table[i].name = name}
<1>1. PICK i : i = ValueIn(Names(table), name)
  OBVIOUS
<1>2. DOMAIN table = 1 .. Len(table) /\ Len(table) \in Nat
  OBVIOUS
<1>3. /\ i # 0 => i \in 1 .. Len(table) /\ table[i].name = name
      /\ i = 0 => \A j \in 1 .. Len(table) : table[j].name # name
  BY <1>1, <1>2, NameFinds
<1>4. \A j, m \in 1 .. Len(table) : table[j].name = table[m].name => j = m
  BY <1>2 DEF Injective, Names
<1>5. CASE i = 0
  <2>1. hits = {}
    BY <1>3, <1>5
  <2> QED
    BY <1>1, <1>5, <2>1
<1>6. CASE i # 0
  <2>1. hits = {i}
    BY <1>3, <1>4, <1>6
  <2>2. Min({i}) = i
    <3>1. {i} \in SUBSET Nat
      BY <1>2, <1>3, <1>6
    <3> QED
      BY <3>1, OneMin
  <2> QED
    BY <1>1, <1>6, <2>1, <2>2
<1> QED
  BY <1>5, <1>6

LEMMA BoolsAgree ==
  ASSUME BoolsOK
  PROVE  LooksAgree(KeysOf(BoolData, sepol_bool_key_extract), sepol_bool_count, sepol_bool_exists,
                    sepol_bool_query, sepol_bool_iterate, sepol_bool_compare)
<1> DEFINE v == sepol_bool_iterate([stop |-> 0, status |-> 0]).seen
<1>1. PICK list : list = bools /\ list \in Seq(BoolDatum) /\ Injective(Names(list))
  BY DEF BoolsOK
<1>2. PICK n : n = Len(list) /\ n \in Nat /\ DOMAIN list = 1 .. n
  BY <1>1
<1>3. PICK records : records = BoolRecords
                     /\ records = [i \in 1 .. n |-> bool_to_record(i)]
  BY <1>1, <1>2 DEF BoolRecords
<1>4. Len(records) = n /\ DOMAIN records = 1 .. n
  BY <1>2, <1>3, Mapped
<1>5. v = records
  <2>1. 0 \notin DOMAIN records
    BY <1>4
  <2>2. Visit(records, [stop |-> 0, status |-> 0]).seen = records
    BY <2>1, VisitAll
  <2> QED
    BY <1>3, <2>2 DEF sepol_bool_iterate
<1> HIDE DEF v
<1>6. sepol_bool_count = n
  BY <1>1, <1>2 DEF sepol_bool_count
<1>7. ASSUME NEW m \in 1 .. n
      PROVE  /\ sepol_bool_iterate([stop |-> m, status |-> -1]).seen = SubSeq(v, 1, m)
             /\ ~sepol_bool_iterate([stop |-> m, status |-> -1]).ok
  BY <1>3, <1>4, <1>5, VisitStopped DEF sepol_bool_iterate
<1>8. ASSUME NEW i \in 1 .. n PROVE v[i].name = list[i].name /\ list[i].name \in Int
  <2>1. list[i] \in BoolDatum
    BY <1>1, <1>2
  <2>2. list[i].name \in Int
    BY <2>1 DEF BoolDatum
  <2>3. v[i] = bool_to_record(i)
    BY <1>3, <1>5
  <2> QED
    BY <1>1, <2>2, <2>3, BoolRecordIs
<1>9. PICK t : t = [i \in 1 .. n |-> <<list[i].name>>]
  OBVIOUS
<1>10. \A i \in DOMAIN v : t[i] \in Tuples(1)
  BY <1>4, <1>5, <1>8, <1>9, Pairs
<1>11. \A i, j \in DOMAIN v : sepol_bool_compare(v[i], v[j]) = Compare(t[i], t[j])
  BY <1>4, <1>5, <1>8, <1>9 DEF sepol_bool_compare
<1>12. /\ \A i, j \in DOMAIN v : sepol_bool_compare(v[i], v[j]) = -sepol_bool_compare(v[j], v[i])
       /\ \A i, j, m \in DOMAIN v :
             sepol_bool_compare(v[i], v[j]) < 0 /\ sepol_bool_compare(v[j], v[m]) < 0
                => sepol_bool_compare(v[i], v[m]) < 0
  <2>1. PICK D : D = DOMAIN v
    OBVIOUS
  <2>2. \A i \in D : t[i] \in Tuples(1)
    BY <1>10, <2>1
  <2>3. /\ \A i, j \in D : Compare(t[i], t[j]) = -Compare(t[j], t[i])
        /\ \A i, j, m \in D : Compare(t[i], t[j]) < 0 /\ Compare(t[j], t[m]) < 0
                                => Compare(t[i], t[m]) < 0
    BY <2>2, Ordered
  <2> QED
    BY <1>11, <2>1, <2>3
<1>13. ASSUME NEW k \in NameKeys
       PROVE  LET hits == {i \in DOMAIN v : sepol_bool_compare(v[i], k) = 0} IN
              /\ sepol_bool_exists(k) = (hits # {})
              /\ sepol_bool_query(k) = (IF hits = {} THEN NULL ELSE v[Min(hits)])
  <2>1. PICK key : key = k.name /\ key \in Int
    BY DEF NameKeys
  <2> DEFINE hits == {i \in DOMAIN v : sepol_bool_compare(v[i], k) = 0}
             same == {i \in 1 .. Len(list) : list[i].name = key}
  <2>2. hits = same
    <3>1. ASSUME NEW i \in 1 .. n
          PROVE  sepol_bool_compare(v[i], k) = 0 <=> list[i].name = key
      <4>1. PICK a, b : /\ a = <<list[i].name>> /\ b = <<key>>
                        /\ a \in Tuples(1) /\ b \in Tuples(1)
        BY <1>8, <2>1, Pairs
      <4>2. sepol_bool_compare(v[i], k) = Compare(a, b)
        BY <1>8, <2>1, <4>1 DEF sepol_bool_compare
      <4>3. Compare(a, b) = 0 <=> a = b
        BY <4>1, CompareZero
      <4> QED
        BY <4>1, <4>2, <4>3
    <3> QED
      BY <1>2, <1>4, <1>5, <3>1
  <2>3. /\ ValueIn(Names(list), key) # 0 <=> same # {}
        /\ same # {} => ValueIn(Names(list), key) = Min(same)
    <3>1. PICK S : S = BoolDatum
      OBVIOUS
    <3>2. list \in Seq(S) /\ Injective(Names(list))
      BY <1>1, <3>1
    <3> QED
      BY <3>2, NameHit
  <2>4. sepol_bool_exists(k) = (ValueIn(Names(list), key) # 0)
    BY <1>1, <2>1 DEF sepol_bool_exists
  <2>5. sepol_bool_query(k) = IF ValueIn(Names(list), key) = 0 THEN NULL
                             ELSE v[ValueIn(Names(list), key)]
    <3>1. ValueIn(Names(list), key) # 0 => ValueIn(Names(list), key) \in 1 .. n
      BY <1>1, <1>2, NameFinds
    <3>2. \A i \in 1 .. n : v[i] = bool_to_record(i)
      BY <1>3, <1>5
    <3> QED
      BY <1>1, <2>1, <3>1, <3>2 DEF sepol_bool_query
  <2> HIDE DEF hits, same
  <2>6. /\ sepol_bool_exists(k) = (hits # {})
        /\ sepol_bool_query(k) = (IF hits = {} THEN NULL ELSE v[Min(hits)])
    BY <2>2, <2>3, <2>4, <2>5
  <2> QED
    BY <2>6 DEF hits
<1>14. KeysOf(BoolData, sepol_bool_key_extract) \subseteq NameKeys
  BY DataKeys DEF KeysOf
<1> QED
  BY <1>4, <1>5, <1>6, <1>7, <1>12, <1>13, <1>14, Zenon DEF LooksAgree, v

LEMMA UsersAgree ==
  ASSUME UsersOK
  PROVE  LooksAgree(KeysOf(UserData, sepol_user_key_extract), sepol_user_count, sepol_user_exists,
                    sepol_user_query, sepol_user_iterate, sepol_user_compare)
<1> DEFINE v == sepol_user_iterate([stop |-> 0, status |-> 0]).seen
<1>1. PICK list : list = users /\ list \in Seq(UserDatum) /\ Injective(Names(list))
  BY DEF UsersOK, UsersTyped
<1>2. PICK n : n = Len(list) /\ n \in Nat /\ DOMAIN list = 1 .. n
  BY <1>1
<1>3. PICK records : records = UserRecords
                     /\ records = [i \in 1 .. n |-> user_to_record(i)]
  BY <1>1, <1>2 DEF UserRecords
<1>4. Len(records) = n /\ DOMAIN records = 1 .. n
  BY <1>2, <1>3, Mapped
<1>5. v = records
  <2>1. 0 \notin DOMAIN records
    BY <1>4
  <2>2. Visit(records, [stop |-> 0, status |-> 0]).seen = records
    BY <2>1, VisitAll
  <2> QED
    BY <1>3, <2>2 DEF sepol_user_iterate
<1> HIDE DEF v
<1>6. sepol_user_count = n
  BY <1>1, <1>2 DEF sepol_user_count
<1>7. ASSUME NEW m \in 1 .. n
      PROVE  /\ sepol_user_iterate([stop |-> m, status |-> -1]).seen = SubSeq(v, 1, m)
             /\ ~sepol_user_iterate([stop |-> m, status |-> -1]).ok
  BY <1>3, <1>4, <1>5, VisitStopped DEF sepol_user_iterate
<1>8. ASSUME NEW i \in 1 .. n PROVE v[i].name = list[i].name /\ list[i].name \in Int
  <2>1. list[i] \in UserDatum
    BY <1>1, <1>2
  <2>2. list[i].name \in Int
    BY <2>1 DEF UserDatum
  <2>3. v[i] = user_to_record(i) /\ i \in DOMAIN users
    BY <1>1, <1>2, <1>3, <1>5
  <2>4. v[i] \in {RecordOf(mls, list[i]), HalfOf(list[i])}
    BY <1>1, <2>3, UserRecordIs DEF UsersOK
  <2>5. v[i].name = list[i].name
    BY <2>4 DEF RecordOf, HalfOf
  <2> QED
    BY <2>2, <2>5
<1>9. PICK t : t = [i \in 1 .. n |-> <<list[i].name>>]
  OBVIOUS
<1>10. \A i \in DOMAIN v : t[i] \in Tuples(1)
  BY <1>4, <1>5, <1>8, <1>9, Pairs
<1>11. \A i, j \in DOMAIN v : sepol_user_compare(v[i], v[j]) = Compare(t[i], t[j])
  BY <1>4, <1>5, <1>8, <1>9 DEF sepol_user_compare
<1>12. /\ \A i, j \in DOMAIN v : sepol_user_compare(v[i], v[j]) = -sepol_user_compare(v[j], v[i])
       /\ \A i, j, m \in DOMAIN v :
             sepol_user_compare(v[i], v[j]) < 0 /\ sepol_user_compare(v[j], v[m]) < 0
                => sepol_user_compare(v[i], v[m]) < 0
  <2>1. PICK D : D = DOMAIN v
    OBVIOUS
  <2>2. \A i \in D : t[i] \in Tuples(1)
    BY <1>10, <2>1
  <2>3. /\ \A i, j \in D : Compare(t[i], t[j]) = -Compare(t[j], t[i])
        /\ \A i, j, m \in D : Compare(t[i], t[j]) < 0 /\ Compare(t[j], t[m]) < 0
                                => Compare(t[i], t[m]) < 0
    BY <2>2, Ordered
  <2> QED
    BY <1>11, <2>1, <2>3
<1>13. ASSUME NEW k \in NameKeys
       PROVE  LET hits == {i \in DOMAIN v : sepol_user_compare(v[i], k) = 0} IN
              /\ sepol_user_exists(k) = (hits # {})
              /\ sepol_user_query(k) = (IF hits = {} THEN NULL ELSE v[Min(hits)])
  <2>1. PICK key : key = k.name /\ key \in Int
    BY DEF NameKeys
  <2> DEFINE hits == {i \in DOMAIN v : sepol_user_compare(v[i], k) = 0}
             same == {i \in 1 .. Len(list) : list[i].name = key}
  <2>2. hits = same
    <3>1. ASSUME NEW i \in 1 .. n
          PROVE  sepol_user_compare(v[i], k) = 0 <=> list[i].name = key
      <4>1. PICK a, b : /\ a = <<list[i].name>> /\ b = <<key>>
                        /\ a \in Tuples(1) /\ b \in Tuples(1)
        BY <1>8, <2>1, Pairs
      <4>2. sepol_user_compare(v[i], k) = Compare(a, b)
        BY <1>8, <2>1, <4>1 DEF sepol_user_compare
      <4>3. Compare(a, b) = 0 <=> a = b
        BY <4>1, CompareZero
      <4> QED
        BY <4>1, <4>2, <4>3
    <3> QED
      BY <1>2, <1>4, <1>5, <3>1
  <2>3. /\ ValueIn(Names(list), key) # 0 <=> same # {}
        /\ same # {} => ValueIn(Names(list), key) = Min(same)
    <3>1. PICK S : S = UserDatum
      OBVIOUS
    <3>2. list \in Seq(S) /\ Injective(Names(list))
      BY <1>1, <3>1
    <3> QED
      BY <3>2, NameHit
  <2>4. sepol_user_exists(k) = (ValueIn(Names(list), key) # 0)
    BY <1>1, <2>1 DEF sepol_user_exists
  <2>5. sepol_user_query(k) = IF ValueIn(Names(list), key) = 0 THEN NULL
                             ELSE v[ValueIn(Names(list), key)]
    <3>1. ValueIn(Names(list), key) # 0 => ValueIn(Names(list), key) \in 1 .. n
      BY <1>1, <1>2, NameFinds
    <3>2. \A i \in 1 .. n : v[i] = user_to_record(i)
      BY <1>3, <1>5
    <3> QED
      BY <1>1, <2>1, <3>1, <3>2 DEF sepol_user_query
  <2> HIDE DEF hits, same
  <2>6. /\ sepol_user_exists(k) = (hits # {})
        /\ sepol_user_query(k) = (IF hits = {} THEN NULL ELSE v[Min(hits)])
    BY <2>2, <2>3, <2>4, <2>5
  <2> QED
    BY <2>6 DEF hits
<1>14. KeysOf(UserData, sepol_user_key_extract) \subseteq NameKeys
  BY DataKeys DEF KeysOf
<1> QED
  BY <1>4, <1>5, <1>6, <1>7, <1>12, <1>13, <1>14, Zenon DEF LooksAgree, v

-----------------------------------------------------------------------------
(***************************************************************************)
(* Nodes: two lists are visited one after the other.                       *)
(***************************************************************************)
\* The lengths of the addresses decide first, then the masks and the addresses.
LEMMA NodeCompareIs ==
  ASSUME NEW s \in Int, NEW r \in Int, NEW n, NEW k,
         NEW a \in Int, NEW m \in Int, NEW b \in Int, NEW c \in Int,
         n.addr = [sz |-> s, bytes |-> a], n.mask = [sz |-> s, bytes |-> m],
         k.addr = [sz |-> r, bytes |-> b], k.mask = [sz |-> r, bytes |-> c]
  PROVE  sepol_node_compare(n, k) = Compare(<<s, m, a>>, <<r, c, b>>)
<1>1. PICK x, y : x = <<s, m, a>> /\ y = <<r, c, b>> /\ x \in Tuples(3) /\ y \in Tuples(3)
  BY Pairs
<1>2. PICK u, w : u = <<m, a>> /\ w = <<c, b>> /\ u \in Tuples(2) /\ w \in Tuples(2)
  BY Pairs
<1>3. sepol_node_compare(n, k)
         = IF s < r THEN -1 ELSE IF s > r THEN 1 ELSE Compare(u, w)
  BY <1>2 DEF sepol_node_compare
<1>4. CASE s # r
  <2>1. 1 \in 1 .. 3 /\ x[1] = s /\ y[1] = r /\ \A i \in 1 .. 1 - 1 : x[i] = y[i]
    BY <1>1
  <2>2. Compare(x, y) = IF s < r THEN -1 ELSE 1
    BY <1>1, <1>4, <2>1, FirstDifference
  <2> QED
    BY <1>1, <1>3, <1>4, <2>2
<1>5. CASE s = r
  <2>1. CASE u = w
    <3>1. x = y
      BY <1>1, <1>2, <1>5, <2>1
    <3> QED
      BY <1>1, <1>2, <1>3, <1>5, <2>1, <3>1, CompareZero
  <2>2. CASE u # w
    <3>1. PICK i \in 1 .. 2 : /\ u[i] # w[i] /\ \A j \in 1 .. i - 1 : u[j] = w[j]
                              /\ Compare(u, w) = IF u[i] < w[i] THEN -1 ELSE 1
      BY <1>2, <2>2, CompareIs
    <3>2. x[1] = y[1] /\ x[2] = u[1] /\ x[3] = u[2] /\ y[2] = w[1] /\ y[3] = w[2]
      BY <1>1, <1>2, <1>5
    <3>3. CASE i = 1
      <4>1. 2 \in 1 .. 3 /\ x[2] # y[2] /\ \A j \in 1 .. 2 - 1 : x[j] = y[j]
        BY <3>1, <3>2, <3>3
      <4>2. Compare(x, y) = IF x[2] < y[2] THEN -1 ELSE 1
        BY <1>1, <4>1, FirstDifference
      <4> QED
        BY <1>1, <1>3, <1>5, <3>1, <3>2, <3>3, <4>2
    <3>4. CASE i = 2
      <4>1. u[1] = w[1]
        BY <3>1, <3>4
      <4>2. 3 \in 1 .. 3 /\ x[3] # y[3] /\ \A j \in 1 .. 3 - 1 : x[j] = y[j]
        BY <3>1, <3>2, <3>4, <4>1
      <4>3. Compare(x, y) = IF x[3] < y[3] THEN -1 ELSE 1
        BY <1>1, <4>2, FirstDifference
      <4> QED
        BY <1>1, <1>3, <1>5, <3>1, <3>2, <3>4, <4>3
    <3> QED
      BY <3>3, <3>4
  <2> QED
    BY <2>1, <2>2
<1> QED
  BY <1>4, <1>5

LEMMA AddressNumbers ==
  ASSUME NEW p \in Protos
  PROVE  /\ node_alloc_addr(p) \in Int
         /\ \A a \in Addresses(p) : a.bytes \in Int
         /\ \A q \in Protos : node_alloc_addr(p) = node_alloc_addr(q) <=> p = q
<1>1. node_alloc_addr(p) \in Int
  BY DEF node_alloc_addr
<1>2. \A q \in Protos : node_alloc_addr(p) = node_alloc_addr(q) <=> p = q
  BY DEF node_alloc_addr, Protos, SEPOL_PROTO_IP4, SEPOL_PROTO_IP6
<1>3. ASSUME NEW a \in Addresses(p) PROVE a.bytes \in Int
  <2>1. PICK s \in DOMAIN ParseAddr[p] : a = node_parse_addr(s, p)
    BY DEF Addresses
  <2>2. p \in DOMAIN ParseAddr
    BY PrintedParsesBack DEF Protos, SEPOL_PROTO_IP4, SEPOL_PROTO_IP6
  <2>3. a = [sz |-> node_alloc_addr(p), bytes |-> ParseAddr[p][s]]
    BY <2>1, <2>2 DEF node_parse_addr
  <2>4. ParseAddr[p][s] \in Int
    BY <2>2, PrintedParsesBack
  <2> QED
    BY <2>3, <2>4
<1> QED
  BY <1>1, <1>2, <1>3

\* The numbers in the entries and keys of a protocol.
LEMMA NodeNumbers ==
  ASSUME NEW p \in Protos
  PROVE  /\ \A e \in NodeEntry(p) : /\ e.key = [addr |-> e.key.addr, mask |-> e.key.mask]
                                    /\ e.key.addr \in Int /\ e.key.mask \in Int
         /\ \A k \in NodeKeysOf(p) : k.addr.bytes \in Int /\ k.mask.bytes \in Int
<1>1. ASSUME NEW e \in NodeEntry(p)
      PROVE  /\ e.key = [addr |-> e.key.addr, mask |-> e.key.mask]
             /\ e.key.addr \in Int /\ e.key.mask \in Int
  <2>1. PICK B : B = {a.bytes : a \in Addresses(p)}
    OBVIOUS
  <2>2. e.key \in [addr : B, mask : B]
    BY <2>1 DEF NodeEntry, EntryOf
  <2>3. B \subseteq Int
    BY <2>1, AddressNumbers
  <2> QED
    BY <2>2, <2>3
<1>2. ASSUME NEW k \in NodeKeysOf(p) PROVE k.addr.bytes \in Int /\ k.mask.bytes \in Int
  <2>1. k.addr \in Addresses(p) /\ k.mask \in Addresses(p)
    BY DEF NodeKeysOf
  <2> QED
    BY <2>1, AddressNumbers
<1> QED
  BY <1>1, <1>2

LEMMA NodeMatches ==
  ASSUME NEW q \in Protos, NEW e \in NodeEntry(q), NEW p \in Protos, NEW k \in NodeKeysOf(p)
  PROVE  sepol_node_compare(node_to_record(e, q), k) = 0 <=> q = p /\ e.key = NodeEntryKey(k)
<1>1. PICK n : n = node_to_record(e, q)
  OBVIOUS
<1>2. PICK s, r : s = node_alloc_addr(q) /\ r = node_alloc_addr(p) /\ s \in Int /\ r \in Int
                  /\ (s = r <=> q = p)
  BY AddressNumbers
<1>3. PICK a, m, b, c : /\ a = e.key.addr /\ m = e.key.mask
                        /\ b = k.addr.bytes /\ c = k.mask.bytes
                        /\ a \in Int /\ m \in Int /\ b \in Int /\ c \in Int
  BY NodeNumbers
<1>4. /\ n.addr = [sz |-> s, bytes |-> a] /\ n.mask = [sz |-> s, bytes |-> m]
      /\ k.addr = [sz |-> r, bytes |-> b] /\ k.mask = [sz |-> r, bytes |-> c]
  BY <1>1, <1>2, <1>3, NodeRecordIs, NodeKeyIs
<1> s \in Int /\ r \in Int /\ a \in Int /\ m \in Int /\ b \in Int /\ c \in Int
  BY <1>2, <1>3
<1>5. sepol_node_compare(n, k) = Compare(<<s, m, a>>, <<r, c, b>>)
  BY <1>4, NodeCompareIs
<1>6. PICK x, y : x = <<s, m, a>> /\ y = <<r, c, b>> /\ x \in Tuples(3) /\ y \in Tuples(3)
  BY Pairs
<1>7. sepol_node_compare(n, k) = 0 <=> s = r /\ m = c /\ a = b
  <2>1. Compare(x, y) = 0 <=> x = y
    BY <1>6, CompareZero
  <2> QED
    BY <1>5, <1>6, <2>1
<1>8. e.key = NodeEntryKey(k) <=> m = c /\ a = b
  <2>1. e.key = [addr |-> a, mask |-> m] /\ NodeEntryKey(k) = [addr |-> b, mask |-> c]
    BY <1>3, NodeNumbers DEF NodeEntryKey
  <2> QED
    BY <2>1
<1> QED
  BY <1>1, <1>2, <1>7, <1>8

\* The first place of a key in a list that begins after others.
LEMMA OffsetHits ==
  ASSUME NEW S, NEW list \in Seq(S), NEW key, NEW o \in Nat, NEW hits \in SUBSET Nat,
         \A i \in Nat : i \in hits <=> i - o \in 1 .. Len(list) /\ list[i - o].key = key
  PROVE  /\ First(list, key) # 0 <=> hits # {}
         /\ hits # {} => Min(hits) = First(list, key) + o
<1>1. PICK n : n = First(list, key)
  OBVIOUS
<1>2. /\ n \in 0 .. Len(list)
      /\ n = 0 <=> \A i \in 1 .. Len(list) : list[i].key # key
      /\ n # 0 => /\ n \in DOMAIN list /\ list[n].key = key
                  /\ \A i \in 1 .. n - 1 : list[i].key # key
  BY <1>1, FirstIs
<1>3. CASE n = 0
  <2>1. hits = {}
    BY <1>2, <1>3
  <2> QED
    BY <1>1, <1>3, <2>1
<1>4. CASE n # 0
  <2>1. n + o \in hits
    <3>1. n + o \in Nat /\ (n + o) - o = n /\ n \in 1 .. Len(list)
      BY <1>2, <1>4
    <3> QED
      BY <1>2, <1>4, <3>1
  <2>2. \A y \in hits : n + o <= y
    <3> TAKE y \in hits
    <3>1. y \in Nat /\ y - o \in 1 .. Len(list) /\ list[y - o].key = key
      OBVIOUS
    <3>2. y - o \notin 1 .. n - 1
      BY <1>2, <1>4, <3>1
    <3> QED
      BY <1>2, <3>1, <3>2
  <2>3. Min(hits) = n + o
    BY <2>1, <2>2, OneMin
  <2> QED
    BY <1>1, <1>4, <2>1, <2>3
<1> QED
  BY <1>3, <1>4

\* The beginning of two lists put together.
LEMMA SubSeqJoin ==
  ASSUME NEW S, NEW a \in Seq(S), NEW b \in Seq(S), NEW m \in 1 .. Len(a) + Len(b)
  PROVE  SubSeq(a \o b, 1, m) = IF m <= Len(a) THEN SubSeq(a, 1, m)
                                ELSE a \o SubSeq(b, 1, m - Len(a))
<1>1. /\ a \o b \in Seq(S) /\ Len(a \o b) = Len(a) + Len(b)
      /\ \A i \in 1 .. Len(a) + Len(b) :
             (a \o b)[i] = IF i <= Len(a) THEN a[i] ELSE b[i - Len(a)]
  OBVIOUS
<1>2. PICK c : c = a \o b
  OBVIOUS
<1>3. /\ SubSeq(c, 1, m) \in Seq(S) /\ Len(SubSeq(c, 1, m)) = m
      /\ \A i \in 1 .. m : SubSeq(c, 1, m)[i] = c[i]
  BY <1>1, <1>2
<1>4. CASE m <= Len(a)
  <2>1. /\ SubSeq(a, 1, m) \in Seq(S) /\ Len(SubSeq(a, 1, m)) = m
        /\ \A i \in 1 .. m : SubSeq(a, 1, m)[i] = a[i]
    BY <1>4
  <2>2. \A i \in 1 .. m : c[i] = a[i]
    BY <1>1, <1>2, <1>4
  <2>3. SubSeq(c, 1, m) = SubSeq(a, 1, m)
    BY <1>3, <2>1, <2>2, SeqEqual
  <2> QED
    BY <1>2, <1>4, <2>3
<1>5. CASE m > Len(a)
  <2>1. PICK r : r = m - Len(a) /\ r \in 1 .. Len(b)
    BY <1>5
  <2>2. PICK d : /\ d = SubSeq(b, 1, r) /\ d \in Seq(S) /\ Len(d) = r
                 /\ \A i \in 1 .. r : d[i] = b[i]
    <3>1. /\ SubSeq(b, 1, r) \in Seq(S) /\ Len(SubSeq(b, 1, r)) = r
          /\ \A i \in 1 .. r : SubSeq(b, 1, r)[i] = b[i]
      <4>1. r \in 1 .. Len(b)
        BY <2>1
      <4> QED
        BY <4>1
    <3> QED
      BY <3>1
  <2>3. PICK e : /\ e = a \o d /\ e \in Seq(S) /\ Len(e) = m
                 /\ \A i \in 1 .. m : e[i] = IF i <= Len(a) THEN a[i] ELSE d[i - Len(a)]
    <3>1. /\ a \o d \in Seq(S) /\ Len(a \o d) = Len(a) + Len(d)
          /\ \A i \in 1 .. Len(a) + Len(d) :
                 (a \o d)[i] = IF i <= Len(a) THEN a[i] ELSE d[i - Len(a)]
      <4>1. d \in Seq(S)
        BY <2>2
      <4> QED
        BY <4>1
    <3>2. Len(a) + Len(d) = m
      BY <2>1, <2>2
    <3> QED
      BY <3>1, <3>2
  <2>4. \A i \in 1 .. m : c[i] = e[i]
    <3> SUFFICES ASSUME NEW i \in 1 .. m
                 PROVE  c[i] = e[i]
      OBVIOUS
    <3>1. CASE i <= Len(a)
      <4>1. c[i] = a[i]
        BY <1>1, <1>2, <3>1
      <4>2. e[i] = a[i]
        BY <2>3, <3>1
      <4> QED
        BY <4>1, <4>2
    <3>2. CASE ~(i <= Len(a))
      <4>1. i - Len(a) \in 1 .. r
        BY <2>1, <3>2
      <4>2. c[i] = b[i - Len(a)]
        BY <1>1, <1>2, <3>2
      <4>3. e[i] = d[i - Len(a)]
        BY <2>3, <3>2
      <4> QED
        BY <2>2, <4>1, <4>2, <4>3
    <3> QED
      BY <3>1, <3>2
  <2>5. SubSeq(c, 1, m) = e
    BY <1>3, <2>3, <2>4, SeqEqual
  <2>6. SubSeq(a \o b, 1, m) = a \o SubSeq(b, 1, m - Len(a))
    BY <1>2, <2>1, <2>2, <2>3, <2>5
  <2>7. ~(m <= Len(a))
    BY <1>5
  <2> QED
    BY <2>6, <2>7
<1> QED
  BY <1>4, <1>5

LEMMA VisitPast ==
  ASSUME NEW records, NEW h, h.stop \notin DOMAIN records
  PROVE  Visit(records, h) = [ok |-> TRUE, seen |-> records]
  BY Zenon DEF Visit

LEMMA NodeVisitFirst ==
  ASSUME NEW a, NEW s, NEW t,
         NodeRecords(SEPOL_PROTO_IP4) = a, ~Visit(a, [stop |-> s, status |-> t]).ok
  PROVE  sepol_node_iterate([stop |-> s, status |-> t]) = Visit(a, [stop |-> s, status |-> t])
  BY Zenon DEF sepol_node_iterate

LEMMA NodeVisits ==
  ASSUME NEW S, NEW a \in Seq(S), NEW b \in Seq(S),
         NodeRecords(SEPOL_PROTO_IP4) = a, NodeRecords(SEPOL_PROTO_IP6) = b
  PROVE  /\ sepol_node_iterate([stop |-> 0, status |-> 0]).seen = a \o b
         /\ \A m \in 1 .. Len(a) + Len(b) :
               /\ sepol_node_iterate([stop |-> m, status |-> -1]).seen = SubSeq(a \o b, 1, m)
               /\ ~sepol_node_iterate([stop |-> m, status |-> -1]).ok
<1>1. PICK n : n = Len(a) /\ n \in Nat /\ DOMAIN a = 1 .. n
  OBVIOUS
<1>2. PICK l : l = Len(b) /\ l \in Nat /\ DOMAIN b = 1 .. l
  OBVIOUS
<1> Len(a) = n /\ NodeRecords(SEPOL_PROTO_IP4) = a /\ NodeRecords(SEPOL_PROTO_IP6) = b
  BY <1>1
<1>3. sepol_node_iterate([stop |-> 0, status |-> 0]).seen = a \o b
  <2>1. PICK h, g : h = [stop |-> 0, status |-> 0] /\ g = [stop |-> 0 - n, status |-> 0]
    OBVIOUS
  <2>2. h.stop \notin DOMAIN a /\ g.stop \notin DOMAIN b
    BY <1>1, <1>2, <2>1
  <2>3. PICK x : x = Visit(a, h) /\ x.ok = TRUE /\ x.seen = a
    BY <2>2, VisitPast
  <2>4. PICK k : Visit(b, g).ok = k /\ Visit(b, g).seen = b
    BY <2>2, VisitPast
  <2>5. g = [h EXCEPT !.stop = @ - Len(a)]
    BY <2>1
  <2>6. sepol_node_iterate(h) = [ok |-> k, seen |-> a \o b]
    BY <2>3, <2>4, <2>5, Zenon DEF sepol_node_iterate
  <2> QED
    <3>1. PICK y, c : y = sepol_node_iterate(h) /\ c = a \o b
      OBVIOUS
    <3>2. y = [ok |-> k, seen |-> c]
      BY <2>6, <3>1, Zenon
    <3>3. y.seen = c
      BY <3>2
    <3> QED
      BY <2>1, <3>1, <3>3, Zenon
<1>4. ASSUME NEW m \in 1 .. n + l
      PROVE  /\ sepol_node_iterate([stop |-> m, status |-> -1]).seen = SubSeq(a \o b, 1, m)
             /\ ~sepol_node_iterate([stop |-> m, status |-> -1]).ok
  <2>1. PICK h, g : h = [stop |-> m, status |-> -1] /\ g = [stop |-> m - n, status |-> -1]
    OBVIOUS
  <2>2. CASE m <= n
    <3>1. m \in DOMAIN a
      BY <1>1, <2>2
    <3>2. Visit(a, h).seen = SubSeq(a, 1, m) /\ ~Visit(a, h).ok
      BY <2>1, <3>1, VisitStopped
    <3>3. sepol_node_iterate(h) = Visit(a, h)
      BY <2>1, <3>2, NodeVisitFirst
    <3>4. SubSeq(a \o b, 1, m) = SubSeq(a, 1, m)
      BY <1>1, <1>2, <2>2, SubSeqJoin
    <3> QED
      BY <2>1, <3>2, <3>3, <3>4
  <2>3. CASE m > n
    <3>1. m \notin DOMAIN a /\ m - n \in DOMAIN b
      BY <1>1, <1>2, <2>3
    <3>2. PICK x : x = Visit(a, h) /\ x.ok = TRUE /\ x.seen = a
      <4>1. h.stop \notin DOMAIN a
        BY <2>1, <3>1
      <4> QED
        BY <4>1, VisitPast
    <3>3. PICK k, c : /\ Visit(b, g).ok = k /\ Visit(b, g).seen = c
                      /\ c = SubSeq(b, 1, m - n) /\ ~k
      BY <2>1, <3>1, VisitStopped
    <3>4. g = [h EXCEPT !.stop = @ - Len(a)]
      BY <2>1
    <3>5. sepol_node_iterate(h) = [ok |-> k, seen |-> a \o c]
      BY <3>2, <3>3, <3>4, Zenon DEF sepol_node_iterate
    <3>6. SubSeq(a \o b, 1, m) = a \o SubSeq(b, 1, m - n)
      <4>1. ~(m <= n)
        BY <1>1, <2>3
      <4> QED
        BY <1>1, <1>2, <4>1, SubSeqJoin
    <3>7. PICK y, d : y = sepol_node_iterate(h) /\ d = a \o c
      OBVIOUS
    <3>8. y = [ok |-> k, seen |-> d]
      BY <3>5, <3>7, Zenon
    <3>9. y.ok = k /\ y.seen = d
      BY <3>8
    <3> QED
      BY <2>1, <3>3, <3>6, <3>7, <3>9, Zenon
  <2> QED
    BY <1>1, <1>2, <2>2, <2>3
<1> QED
  BY <1>1, <1>2, <1>3, <1>4

\* The nodes in the order of a visit: their entries and their protocols.
NodeTour(v, n, l, e, q) ==
    /\ n = Len(NodeList(SEPOL_PROTO_IP4)) /\ n \in Nat
    /\ l = Len(NodeList(SEPOL_PROTO_IP6)) /\ l \in Nat
    /\ Len(v) = n + l /\ DOMAIN v = 1 .. n + l /\ sepol_node_count = n + l
    /\ \A i \in 1 .. n : /\ q[i] = SEPOL_PROTO_IP4
                         /\ e[i] = NodeList(SEPOL_PROTO_IP4)[i]
                         /\ v[i] = NodeRecords(SEPOL_PROTO_IP4)[i]
    /\ \A i \in 1 .. l : /\ q[n + i] = SEPOL_PROTO_IP6
                         /\ e[n + i] = NodeList(SEPOL_PROTO_IP6)[i]
                         /\ v[n + i] = NodeRecords(SEPOL_PROTO_IP6)[i]
    /\ \A i \in 1 .. n + l : /\ q[i] \in Protos /\ e[i] \in NodeEntry(q[i])
                             /\ v[i] = node_to_record(e[i], q[i])
    /\ \A m \in 1 .. n + l :
          /\ sepol_node_iterate([stop |-> m, status |-> -1]).seen = SubSeq(v, 1, m)
          /\ ~sepol_node_iterate([stop |-> m, status |-> -1]).ok

LEMMA NodesVisited ==
  ASSUME NodesOK, NEW v, v = sepol_node_iterate([stop |-> 0, status |-> 0]).seen
  PROVE  \E n, l, e, q : NodeTour(v, n, l, e, q)
<1>1. PICK P4, P6, E4, E6 : /\ P4 = SEPOL_PROTO_IP4 /\ P6 = SEPOL_PROTO_IP6
                            /\ E4 = NodeEntry(P4) /\ E6 = NodeEntry(P6)
  OBVIOUS
<1>2. Protos = {P4, P6} /\ P4 # P6
  BY <1>1 DEF Protos, SEPOL_PROTO_IP4, SEPOL_PROTO_IP6
<1>3. PICK list, list6 : /\ list = NodeList(P4) /\ list \in Seq(E4)
                         /\ list6 = NodeList(P6) /\ list6 \in Seq(E6)
  BY <1>1, <1>2 DEF NodesOK, NodeSide
<1>4. PICK n, l : /\ n = Len(list) /\ n \in Nat /\ DOMAIN list = 1 .. n
                  /\ l = Len(list6) /\ l \in Nat /\ DOMAIN list6 = 1 .. l
  BY <1>3
<1>5. PICK a, b : /\ a = NodeRecords(P4) /\ a = [i \in 1 .. n |-> node_to_record(list[i], P4)]
                  /\ b = NodeRecords(P6) /\ b = [i \in 1 .. l |-> node_to_record(list6[i], P6)]
  BY <1>3, <1>4 DEF NodeRecords
<1>6. PICK S : S = {a[i] : i \in 1 .. n} \cup {b[i] : i \in 1 .. l}
  OBVIOUS
<1>7. a \in Seq(S) /\ Len(a) = n /\ DOMAIN a = 1 .. n
  <2>1. [i \in 1 .. n |-> a[i]] \in Seq(S)
    BY <1>4, <1>6, IsASeq
  <2>2. a = [i \in 1 .. n |-> a[i]]
    BY <1>5
  <2> QED
    BY <1>4, <2>1, <2>2, Mapped
<1>8. b \in Seq(S) /\ Len(b) = l /\ DOMAIN b = 1 .. l
  <2>1. [i \in 1 .. l |-> b[i]] \in Seq(S)
    BY <1>4, <1>6, IsASeq
  <2>2. b = [i \in 1 .. l |-> b[i]]
    BY <1>5
  <2> QED
    BY <1>4, <2>1, <2>2, Mapped
<1>9. /\ v = a \o b
      /\ \A m \in 1 .. n + l :
            /\ sepol_node_iterate([stop |-> m, status |-> -1]).seen = SubSeq(v, 1, m)
            /\ ~sepol_node_iterate([stop |-> m, status |-> -1]).ok
  <2>1. NodeRecords(SEPOL_PROTO_IP4) = a /\ NodeRecords(SEPOL_PROTO_IP6) = b
    BY <1>1, <1>5
  <2>2. a \in Seq(S) /\ b \in Seq(S) /\ Len(a) + Len(b) = n + l
    BY <1>7, <1>8
  <2>3. /\ sepol_node_iterate([stop |-> 0, status |-> 0]).seen = a \o b
        /\ \A m \in 1 .. Len(a) + Len(b) :
              /\ sepol_node_iterate([stop |-> m, status |-> -1]).seen = SubSeq(a \o b, 1, m)
              /\ ~sepol_node_iterate([stop |-> m, status |-> -1]).ok
    BY <2>1, <2>2, NodeVisits
  <2> QED
    BY <2>2, <2>3
<1>10. /\ Len(v) = n + l /\ DOMAIN v = 1 .. n + l
       /\ \A i \in 1 .. n : v[i] = a[i]
       /\ \A i \in 1 .. l : v[n + i] = b[i]
  <2>1. /\ a \o b \in Seq(S) /\ Len(a \o b) = Len(a) + Len(b)
        /\ \A i \in 1 .. Len(a) + Len(b) :
               (a \o b)[i] = IF i <= Len(a) THEN a[i] ELSE b[i - Len(a)]
    BY <1>7, <1>8
  <2>2. /\ v \in Seq(S) /\ Len(v) = n + l
        /\ \A i \in 1 .. n + l : v[i] = IF i <= n THEN a[i] ELSE b[i - n]
    <3>1. v = a \o b /\ Len(a) = n /\ Len(b) = l
      BY <1>7, <1>8, <1>9
    <3> QED
      BY <2>1, <3>1
  <2>3. DOMAIN v = 1 .. n + l
    BY <2>2
  <2>4. \A i \in 1 .. n : v[i] = a[i]
    BY <1>4, <2>2
  <2>5. \A i \in 1 .. l : v[n + i] = b[i]
    <3> TAKE i \in 1 .. l
    <3>1. n + i \in 1 .. n + l /\ ~(n + i <= n) /\ (n + i) - n = i
      BY <1>4
    <3> QED
      BY <2>2, <3>1
  <2> QED
    BY <2>2, <2>3, <2>4, <2>5
<1>11. sepol_node_count = n + l
  BY <1>1, <1>3, <1>4 DEF sepol_node_count, NodeList, SEPOL_PROTO_IP4, SEPOL_PROTO_IP6
<1>12. PICK q : q = [i \in 1 .. n + l |-> IF i <= n THEN P4 ELSE P6]
  OBVIOUS
<1>13. PICK e : e = [i \in 1 .. n + l |-> IF i <= n THEN list[i] ELSE list6[i - n]]
  OBVIOUS
<1>14. \A i \in 1 .. n : q[i] = P4 /\ e[i] = list[i] /\ e[i] \in E4
                         /\ v[i] = a[i] /\ v[i] = node_to_record(list[i], P4)
  BY <1>3, <1>4, <1>5, <1>10, <1>12, <1>13
<1>15. \A i \in 1 .. l : q[n + i] = P6 /\ e[n + i] = list6[i] /\ e[n + i] \in E6
                         /\ v[n + i] = b[i] /\ v[n + i] = node_to_record(list6[i], P6)
  <2> TAKE i \in 1 .. l
  <2>1. n + i \in 1 .. n + l /\ ~(n + i <= n) /\ (n + i) - n = i
    BY <1>4
  <2>2. q[n + i] = P6 /\ e[n + i] = list6[i]
    BY <1>12, <1>13, <2>1
  <2>3. list6[i] \in E6
    BY <1>3, <1>4
  <2>4. v[n + i] = b[i] /\ b[i] = node_to_record(list6[i], P6)
    BY <1>5, <1>10
  <2> QED
    BY <2>2, <2>3, <2>4
<1>16. \A i \in 1 .. n + l : /\ q[i] \in Protos /\ e[i] \in NodeEntry(q[i])
                             /\ v[i] = node_to_record(e[i], q[i])
  <2> TAKE i \in 1 .. n + l
  <2>1. CASE i \in 1 .. n
    BY <1>1, <1>2, <1>14, <2>1
  <2>2. CASE i \notin 1 .. n
    <3>1. i - n \in 1 .. l /\ n + (i - n) = i
      BY <1>4, <2>2
    <3> QED
      BY <1>1, <1>2, <1>15, <3>1
  <2> QED
    BY <2>1, <2>2
<1>17. \A i \in 1 .. n : /\ q[i] = SEPOL_PROTO_IP4
                          /\ e[i] = NodeList(SEPOL_PROTO_IP4)[i]
                          /\ v[i] = NodeRecords(SEPOL_PROTO_IP4)[i]
  BY <1>1, <1>3, <1>5, <1>14
<1>18. \A i \in 1 .. l : /\ q[n + i] = SEPOL_PROTO_IP6
                          /\ e[n + i] = NodeList(SEPOL_PROTO_IP6)[i]
                          /\ v[n + i] = NodeRecords(SEPOL_PROTO_IP6)[i]
  BY <1>1, <1>3, <1>5, <1>15
<1>19. /\ n = Len(NodeList(SEPOL_PROTO_IP4)) /\ n \in Nat
       /\ l = Len(NodeList(SEPOL_PROTO_IP6)) /\ l \in Nat
  BY <1>1, <1>3, <1>4
<1>20. NodeTour(v, n, l, e, q)
  BY <1>9, <1>10, <1>11, <1>16, <1>17, <1>18, <1>19, Zenon DEF NodeTour
<1> QED
  BY <1>20

LEMMA NodesAgree ==
  ASSUME NodesOK
  PROVE  LooksAgree(KeysOf(NodeData, sepol_node_key_extract), sepol_node_count,
                    sepol_node_exists, sepol_node_query, sepol_node_iterate, sepol_node_compare)
<1> DEFINE v == sepol_node_iterate([stop |-> 0, status |-> 0]).seen
<1>1. PICK w : w = v
  OBVIOUS
<1>2. PICK n, l, e, q : NodeTour(w, n, l, e, q)
  BY <1>1, NodesVisited
<1> USE DEF NodeTour
<1> HIDE DEF v
<1>3. ASSUME NEW p \in Protos, NEW k \in NodeKeysOf(p)
      PROVE  LET hits == {i \in DOMAIN w : sepol_node_compare(w[i], k) = 0} IN
             /\ sepol_node_exists(k) = (hits # {})
             /\ sepol_node_query(k) = (IF hits = {} THEN NULL ELSE w[Min(hits)])
  <2>1. PICK key, P, S, list, o :
           /\ key = NodeEntryKey(k) /\ P = p /\ S = NodeEntry(p) /\ list = NodeList(p)
           /\ o = IF p = SEPOL_PROTO_IP4 THEN 0 ELSE n
    OBVIOUS
  <2>2. list \in Seq(S) /\ o \in Nat
    BY <1>2, <2>1 DEF NodesOK, NodeSide
  <2>3. PICK hits : hits = {i \in DOMAIN w : sepol_node_compare(w[i], k) = 0}
    OBVIOUS
  <2>4. \A i \in 1 .. n + l : i \in hits <=> q[i] = p /\ e[i].key = key
    <3> TAKE i \in 1 .. n + l
    <3>1. q[i] \in Protos /\ e[i] \in NodeEntry(q[i]) /\ w[i] = node_to_record(e[i], q[i])
      BY <1>2
    <3>2. sepol_node_compare(w[i], k) = 0 <=> q[i] = p /\ e[i].key = key
      BY <2>1, <3>1, NodeMatches
    <3> QED
      BY <1>2, <2>3, <3>2
  <2>5. /\ Len(list) \in Nat
        /\ \A i \in 1 .. Len(list) : /\ o + i \in 1 .. n + l /\ q[o + i] = p
                                     /\ e[o + i] = list[i] /\ w[o + i] = NodeRecords(p)[i]
        /\ \A i \in 1 .. n + l : q[i] = p => i - o \in 1 .. Len(list)
    <3>1. CASE p = SEPOL_PROTO_IP4
      <4>1. o = 0 /\ Len(list) = n
        BY <1>2, <2>1, <3>1
      <4>2. \A i \in 1 .. n : o + i = i /\ i \in 1 .. n + l
        BY <1>2, <4>1
      <4>3. \A i \in 1 .. n + l : i - o = i
        BY <1>2, <4>1
      <4>4. \A i \in 1 .. n + l : q[i] = p => i \in 1 .. n
        <5> SUFFICES ASSUME NEW i \in 1 .. n + l, i \notin 1 .. n PROVE q[i] # p
          OBVIOUS
        <5>1. i - n \in 1 .. l /\ n + (i - n) = i
          BY <1>2
        <5>2. q[i] = SEPOL_PROTO_IP6
          BY <1>2, <5>1
        <5> QED
          BY <3>1, <5>2 DEF SEPOL_PROTO_IP4, SEPOL_PROTO_IP6
      <4>5. \A i \in 1 .. n : q[i] = p /\ e[i] = list[i] /\ w[i] = NodeRecords(p)[i]
        BY <1>2, <2>1, <3>1
      <4> QED
        BY <1>2, <4>1, <4>2, <4>3, <4>4, <4>5
    <3>2. CASE p = SEPOL_PROTO_IP6
      <4>1. o = n /\ Len(list) = l
        BY <1>2, <2>1, <3>2 DEF SEPOL_PROTO_IP4, SEPOL_PROTO_IP6
      <4>2. \A i \in 1 .. l : n + i \in 1 .. n + l
        BY <1>2
      <4>3. \A i \in 1 .. n + l : q[i] = p => i - n \in 1 .. l
        <5> SUFFICES ASSUME NEW i \in 1 .. n + l, i - n \notin 1 .. l PROVE q[i] # p
          OBVIOUS
        <5>1. i \in 1 .. n
          BY <1>2
        <5>2. q[i] = SEPOL_PROTO_IP4
          BY <1>2, <5>1
        <5> QED
          BY <3>2, <5>2 DEF SEPOL_PROTO_IP4, SEPOL_PROTO_IP6
      <4>4. \A i \in 1 .. l : q[n + i] = p /\ e[n + i] = list[i] /\ w[n + i] = NodeRecords(p)[i]
        BY <1>2, <2>1, <3>2
      <4> QED
        BY <1>2, <4>1, <4>2, <4>3, <4>4
    <3> QED
      BY <3>1, <3>2 DEF Protos
  <2>6. hits \in SUBSET Nat
    BY <1>2, <2>3
  <2>7. \A i \in Nat : i \in hits <=> i - o \in 1 .. Len(list) /\ list[i - o].key = key
    <3> TAKE i \in Nat
    <3>1. ASSUME i \in hits PROVE i - o \in 1 .. Len(list) /\ list[i - o].key = key
      <4>1. i \in 1 .. n + l
        BY <1>2, <2>3, <3>1
      <4>2. q[i] = p /\ e[i].key = key
        BY <2>4, <3>1, <4>1
      <4>3. PICK j : j = i - o /\ j \in 1 .. Len(list) /\ o + j = i
        BY <2>2, <2>5, <4>1, <4>2
      <4>4. e[o + j] = list[j]
        BY <2>5, <4>3
      <4> QED
        BY <4>2, <4>3, <4>4
    <3>2. ASSUME i - o \in 1 .. Len(list), list[i - o].key = key PROVE i \in hits
      <4>1. PICK j : j = i - o /\ j \in 1 .. Len(list) /\ o + j = i /\ list[j].key = key
        BY <2>2, <2>5, <3>2
      <4>2. o + j \in 1 .. n + l /\ q[o + j] = p /\ e[o + j] = list[j]
        BY <2>5, <4>1
      <4>3. i \in 1 .. n + l /\ q[i] = p /\ e[i].key = key
        BY <4>1, <4>2
      <4> QED
        BY <2>4, <4>3
    <3> QED
      BY <3>1, <3>2
  <2>8. /\ First(list, key) # 0 <=> hits # {}
        /\ hits # {} => Min(hits) = First(list, key) + o
    BY <2>2, <2>6, <2>7, OffsetHits
  <2>9. k.proto = p
    BY DEF NodeKeysOf
  <2>10. /\ sepol_node_exists(k) = (First(list, key) # 0)
         /\ sepol_node_query(k) = IF First(list, key) = 0 THEN NULL
                                  ELSE NodeRecords(p)[First(list, key)]
    BY <2>1, <2>9 DEF sepol_node_exists, sepol_node_query
  <2>11. First(list, key) # 0 => NodeRecords(p)[First(list, key)] = w[Min(hits)]
    <3> HAVE First(list, key) # 0
    <3>1. PICK f : f = First(list, key) /\ f \in 1 .. Len(list)
      <4>1. First(list, key) \in 0 .. Len(list)
        BY <2>2, FirstIs
      <4> QED
        BY <2>5, <4>1
    <3>2. Min(hits) = o + f
      BY <2>2, <2>5, <2>8, <3>1
    <3> QED
      BY <2>5, <3>1, <3>2
  <2>12. /\ sepol_node_exists(k) = (hits # {})
         /\ sepol_node_query(k) = (IF hits = {} THEN NULL ELSE w[Min(hits)])
    BY <2>8, <2>10, <2>11
  <2> QED
    BY <2>3, <2>12
<1>4. PICK t : t = [i \in 1 .. n + l |-> <<node_alloc_addr(q[i]), e[i].key.mask, e[i].key.addr>>]
  OBVIOUS
<1>5. \A i \in 1 .. n + l : /\ node_alloc_addr(q[i]) \in Int
                            /\ e[i].key.mask \in Int /\ e[i].key.addr \in Int
  <2> TAKE i \in 1 .. n + l
  <2>1. PICK p, a : p = q[i] /\ a = e[i] /\ p \in Protos /\ a \in NodeEntry(p)
    BY <1>2
  <2> QED
    BY <2>1, AddressNumbers, NodeNumbers
<1>6. \A i \in DOMAIN w : t[i] \in Tuples(3)
  BY <1>2, <1>4, <1>5, Pairs
<1>7. \A i, j \in DOMAIN w : sepol_node_compare(w[i], w[j]) = Compare(t[i], t[j])
  <2> TAKE i, j \in DOMAIN w
  <2>1. i \in 1 .. n + l /\ j \in 1 .. n + l
    BY <1>2
  <2>2. PICK x, y : /\ x = w[i] /\ x = node_to_record(e[i], q[i])
                    /\ y = w[j] /\ y = node_to_record(e[j], q[j])
    BY <1>2, <2>1
  <2>3. PICK s, m, a : /\ s = node_alloc_addr(q[i]) /\ m = e[i].key.mask /\ a = e[i].key.addr
                       /\ s \in Int /\ m \in Int /\ a \in Int
    BY <1>5, <2>1
  <2>4. PICK r, c, b : /\ r = node_alloc_addr(q[j]) /\ c = e[j].key.mask /\ b = e[j].key.addr
                       /\ r \in Int /\ c \in Int /\ b \in Int
    BY <1>5, <2>1
  <2>5. x.addr = [sz |-> s, bytes |-> a] /\ x.mask = [sz |-> s, bytes |-> m]
    BY <2>2, <2>3, NodeRecordIs
  <2>6. y.addr = [sz |-> r, bytes |-> b] /\ y.mask = [sz |-> r, bytes |-> c]
    BY <2>2, <2>4, NodeRecordIs
  <2>7. sepol_node_compare(x, y) = Compare(<<s, m, a>>, <<r, c, b>>)
    <3> /\ s \in Int /\ m \in Int /\ a \in Int /\ r \in Int /\ c \in Int /\ b \in Int
      BY <2>3, <2>4
    <3> QED
      BY <2>5, <2>6, NodeCompareIs
  <2>8. t[i] = <<s, m, a>> /\ t[j] = <<r, c, b>>
    BY <1>4, <2>1, <2>3, <2>4
  <2> QED
    BY <2>2, <2>7, <2>8
<1>8. /\ \A i, j \in DOMAIN w : sepol_node_compare(w[i], w[j]) = -sepol_node_compare(w[j], w[i])
      /\ \A i, j, m \in DOMAIN w :
            sepol_node_compare(w[i], w[j]) < 0 /\ sepol_node_compare(w[j], w[m]) < 0
               => sepol_node_compare(w[i], w[m]) < 0
  <2>1. PICK D : D = DOMAIN w
    OBVIOUS
  <2>2. \A i \in D : t[i] \in Tuples(3)
    BY <1>6, <2>1
  <2>3. /\ \A i, j \in D : Compare(t[i], t[j]) = -Compare(t[j], t[i])
        /\ \A i, j, m \in D : Compare(t[i], t[j]) < 0 /\ Compare(t[j], t[m]) < 0
                                => Compare(t[i], t[m]) < 0
    BY <2>2, Ordered
  <2> QED
    BY <1>7, <2>1, <2>3
<1>9. \A k \in KeysOf(NodeData, sepol_node_key_extract) : \E p \in Protos : k \in NodeKeysOf(p)
  BY DataKeys DEF KeysOf
<1>10. \A k \in KeysOf(NodeData, sepol_node_key_extract) :
          LET hits == {i \in DOMAIN w : sepol_node_compare(w[i], k) = 0} IN
          /\ sepol_node_exists(k) = (hits # {})
          /\ sepol_node_query(k) = (IF hits = {} THEN NULL ELSE w[Min(hits)])
  BY <1>3, <1>9
<1>11. /\ Len(v) = sepol_node_count
       /\ \A m \in 1 .. sepol_node_count :
             /\ sepol_node_iterate([stop |-> m, status |-> -1]).seen = SubSeq(v, 1, m)
             /\ ~sepol_node_iterate([stop |-> m, status |-> -1]).ok
  BY <1>1, <1>2
<1> QED
  BY <1>1, <1>8, <1>10, <1>11, Zenon DEF LooksAgree, v

-----------------------------------------------------------------------------
(***************************************************************************)
(* The printed addresses, the numbers of names, and all views together.    *)
(***************************************************************************)
LEMMA PrintedAddress ==
  ASSUME NEW p \in Protos, NEW a \in Addresses(p)
  PROVE  node_parse_addr(PrintAddr[p][a.bytes], p)
            = [sz |-> node_alloc_addr(p), bytes |-> a.bytes]
<1>1. PICK s \in DOMAIN ParseAddr[p] : a = node_parse_addr(s, p)
  BY DEF Addresses
<1>2. p \in DOMAIN ParseAddr
  BY PrintedParsesBack DEF Protos, SEPOL_PROTO_IP4, SEPOL_PROTO_IP6
<1>3. a = [sz |-> node_alloc_addr(p), bytes |-> ParseAddr[p][s]]
  BY <1>1, <1>2 DEF node_parse_addr
<1>4. a.bytes = ParseAddr[p][s]
  BY <1>3
<1>5. PICK x : x = PrintAddr[p][a.bytes]
  OBVIOUS
<1>6. x \in DOMAIN ParseAddr[p] /\ ParseAddr[p][x] = a.bytes
  BY <1>2, <1>4, <1>5, PrintedParsesBack
<1> QED
  BY <1>2, <1>5, <1>6 DEF node_parse_addr

LEMMA AddressesParse ==
  ASSUME NodesOK, NEW p \in DOMAIN ParseAddr, NEW i \in DOMAIN NodeRecords(p)
  PROVE  LET n == NodeRecords(p)[i] IN
         sepol_node_key_create(sepol_node_get_addr(n), sepol_node_get_mask(n), p)
            = sepol_node_key_extract(n)
<1>1. p \in Protos
  BY PrintedParsesBack DEF Protos, SEPOL_PROTO_IP4, SEPOL_PROTO_IP6
<1>2. PICK S, list : S = NodeEntry(p) /\ list = NodeList(p) /\ list \in Seq(S)
  BY <1>1 DEF NodesOK, NodeSide
<1>3. PICK e : e = list[i] /\ e \in NodeEntry(p) /\ NodeRecords(p)[i] = node_to_record(e, p)
  <2>1. i \in DOMAIN list /\ NodeRecords(p)[i] = node_to_record(list[i], p)
    BY <1>2 DEF NodeRecords
  <2> QED
    BY <1>2, <2>1
<1>4. PICK B : B = {a.bytes : a \in Addresses(p)}
  OBVIOUS
<1>5. e.key \in [addr : B, mask : B]
  BY <1>3, <1>4 DEF NodeEntry, EntryOf
<1>6. PICK a, m : a \in Addresses(p) /\ m \in Addresses(p)
                  /\ e.key.addr = a.bytes /\ e.key.mask = m.bytes
  <2>1. e.key.addr \in B /\ e.key.mask \in B
    BY <1>5
  <2> QED
    BY <1>4, <2>1
<1>7. PICK x, y : /\ x = [sz |-> node_alloc_addr(p), bytes |-> a.bytes]
                  /\ y = [sz |-> node_alloc_addr(p), bytes |-> m.bytes]
  OBVIOUS
<1>8. PICK n : n = NodeRecords(p)[i] /\ n.addr = x /\ n.mask = y /\ n.proto = p
  BY <1>3, <1>6, <1>7, NodeRecordIs
<1>9. x.bytes = a.bytes /\ y.bytes = m.bytes
  BY <1>7
<1>10. /\ node_parse_addr(PrintAddr[p][x.bytes], p) = x
       /\ node_parse_addr(PrintAddr[p][y.bytes], p) = y
  BY <1>1, <1>6, <1>7, <1>9, PrintedAddress
<1>11. /\ sepol_node_get_addr(n) = PrintAddr[p][x.bytes]
       /\ sepol_node_get_mask(n) = PrintAddr[p][y.bytes]
  BY <1>8 DEF sepol_node_get_addr, sepol_node_get_mask, node_expand_addr
<1>12. sepol_node_key_create(sepol_node_get_addr(n), sepol_node_get_mask(n), p)
          = [addr |-> x, mask |-> y, proto |-> p]
  BY <1>10, <1>11, Zenon DEF sepol_node_key_create
<1>13. sepol_node_key_extract(n) = [addr |-> x, mask |-> y, proto |-> p]
  BY <1>8, Zenon DEF sepol_node_key_extract
<1> QED
  BY <1>8, <1>12, <1>13, Zenon

\* Names that are all different are as many as their places.
LEMMA Distinct ==
  ASSUME NEW n \in Nat, NEW f, NEW T, T = {f[i] : i \in 1 .. n},
         \A i, j \in 1 .. n : f[i] = f[j] => i = j
  PROVE  Cardinality(T) = n
<1>1. PICK g : g = [i \in 1 .. n |-> f[i]]
  OBVIOUS
<1>2. g \in [1 .. n -> T]
  BY <1>1
<1>3. g \in Injection(1 .. n, T)
  BY <1>1, <1>2 DEF Injection, IsInjective
<1>4. g \in Surjection(1 .. n, T)
  BY <1>1, <1>2 DEF Surjection
<1>5. ExistsBijection(1 .. n, T)
  BY <1>3, <1>4 DEF ExistsBijection, Bijection
<1>6. IsFiniteSet(1 .. n) /\ Cardinality(1 .. n) = n
  <2>1. 0 \in Int /\ 1 \in Int /\ n \in Int
    OBVIOUS
  <2> QED
    BY <2>1, FS_Interval
<1> QED
  BY <1>5, <1>6, FS_Bijection

LEMMA IfacesCounted ==
  ASSUME IfacesOK
  PROVE  Cardinality({ocon.netif[i].key : i \in DOMAIN ocon.netif}) = sepol_iface_count
<1>1. PICK list, S : list = ocon.netif /\ S = IfaceEntry /\ list \in Seq(S)
                     /\ \A i, j \in DOMAIN list : list[i].key = list[j].key => i = j
  BY DEF IfacesOK
<1>2. PICK n : n = Len(list) /\ n \in Nat /\ DOMAIN list = 1 .. n
  BY <1>1
<1>3. PICK f : f = [i \in 1 .. n |-> list[i].key]
  OBVIOUS
<1>4. PICK T : T = {list[i].key : i \in DOMAIN list}
  OBVIOUS
<1>5. T = {f[i] : i \in 1 .. n}
  BY <1>2, <1>3, <1>4
<1>6. \A i, j \in 1 .. n : f[i] = f[j] => i = j
  BY <1>1, <1>2, <1>3
<1>7. Cardinality(T) = n
  BY <1>2, <1>5, <1>6, Distinct
<1>8. sepol_iface_count = n
  BY <1>1, <1>2 DEF sepol_iface_count
<1> QED
  BY <1>1, <1>4, <1>7, <1>8

LEMMA UsersCounted ==
  ASSUME UsersOK
  PROVE  Cardinality({users[i].name : i \in DOMAIN users}) = sepol_user_count
<1>1. PICK list, S : list = users /\ S = UserDatum /\ list \in Seq(S) /\ Injective(Names(list))
  BY DEF UsersOK, UsersTyped
<1>2. PICK n : n = Len(list) /\ n \in Nat /\ DOMAIN list = 1 .. n
  BY <1>1
<1>3. PICK f : f = [i \in 1 .. n |-> list[i].name] /\ f = Names(list)
  BY <1>2 DEF Names
<1>4. PICK T : T = {list[i].name : i \in DOMAIN list}
  OBVIOUS
<1>5. T = {f[i] : i \in 1 .. n}
  BY <1>2, <1>3, <1>4
<1>6. \A i, j \in 1 .. n : f[i] = f[j] => i = j
  BY <1>1, <1>3 DEF Injective
<1>7. Cardinality(T) = n
  BY <1>2, <1>5, <1>6, Distinct
<1>8. sepol_user_count = n
  BY <1>1, <1>2 DEF sepol_user_count
<1> QED
  BY <1>1, <1>4, <1>7, <1>8

LEMMA ViewsFollow ==
  ASSUME IInv
  PROVE  ViewsAgree
<1>1. PortsOK /\ NodesOK /\ IfacesOK /\ IbpkeysOK /\ IbendportsOK /\ BoolsOK /\ UsersOK
  BY DEF IInv
<1>2. \A p \in DOMAIN ParseAddr : \A i \in DOMAIN NodeRecords(p) :
         LET n == NodeRecords(p)[i] IN
         sepol_node_key_create(sepol_node_get_addr(n), sepol_node_get_mask(n), p)
            = sepol_node_key_extract(n)
  BY <1>1, AddressesParse
<1>3. \A kind \in DOMAIN ocon : \A i \in DOMAIN ocon[kind] :
         LET con == context_to_record(ocon[kind][i].con) IN
         sepol_context_from_string(sepol_context_to_string(con)) = con
  BY ShapedRecord, PrintedReadsBack
<1> QED
  BY <1>1, <1>2, <1>3, PortsAgree, NodesAgree, IfacesAgree, IbpkeysAgree, IbendportsAgree,
     BoolsAgree, UsersAgree, IfacesCounted, UsersCounted, Zenon DEF ViewsAgree

(***************************************************************************)
(* In every reachable state the ways to look at the records of a kind      *)
(* agree: the count is the number of visits, a key exists exactly if a     *)
(* visited record compares equal to it, the query returns the first of     *)
(* them, a handler that fails ends the visit, and the comparison orders    *)
(* the records (count, exists, query, iterate of ports.c, nodes.c,         *)
(* interfaces.c, ibpkeys.c, ibendports.c, booleans.c, users.c).            *)
(***************************************************************************)
THEOREM ViewsAgreeHolds == Spec => []ViewsAgree
<1>1. IInv => ViewsAgree
  BY ViewsFollow
<1> QED
  BY <1>1, Inductive, PTL
=============================================================================
