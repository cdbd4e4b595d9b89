--------------------------- MODULE Services_proofs ---------------------------
(***************************************************************************)
(* The SID table stays searchable, no object context keeps a SID of        *)
(* another table, and clients see a map from SIDs to names, for every set  *)
(* of policies, every table size and every sequence of calls and failures. *)
(***************************************************************************)
EXTENDS Services, TLAPS, SequenceTheorems, FiniteSetTheorems, WellFoundedInduction

Contexts == UNION {p.valid : p \in Policies}
NodeType == [sid : Sids, context : Contexts]

-----------------------------------------------------------------------------
(***************************************************************************)
(* Facts about numbers and sequences.                                      *)
(***************************************************************************)
\* A non-empty set of natural numbers has a least element, which Min returns.
LEMMA MinIsLeast ==
    ASSUME NEW S \in SUBSET Nat, S # {}
    PROVE  Min(S) \in S /\ \A j \in S : Min(S) <= j
<1>1. IsWellFoundedOn(OpToRel(<, Nat), Nat)
  BY NatLessThanWellFounded
<1>2. PICK x \in S : \A y \in S : ~(<<y, x>> \in OpToRel(<, Nat))
  BY <1>1, WFMin
<1>3. ASSUME NEW y \in S PROVE x <= y
  <2>1. y < x => <<y, x>> \in OpToRel(<, Nat)
    BY DEF OpToRel
  <2>2. ~(y < x)
    BY <1>2, <2>1
  <2> QED
    BY <2>2
<1> QED
  BY <1>3 DEF Min

\* Every SID has a chain.
LEMMA HashType == ASSUME NEW sid \in Nat PROVE SIDTAB_HASH(sid) \in Hash
BY SizesAssumption DEF SIDTAB_HASH, Hash

\* Inserting shifts what follows by one place.
LEMMA InsertAtFacts ==
    ASSUME NEW X, NEW s \in Seq(X), NEW e \in X, NEW i \in 1 .. Len(s) + 1
    PROVE  /\ InsertAt(s, i, e) \in Seq(X)
           /\ Len(InsertAt(s, i, e)) = Len(s) + 1
           /\ \A j \in 1 .. Len(s) + 1 :
                 InsertAt(s, i, e)[j] = IF j < i THEN s[j] ELSE IF j = i THEN e ELSE s[j - 1]
<1> DEFINE a == SubSeq(s, 1, i - 1)
           b == SubSeq(s, i, Len(s))
<1>1. a \in Seq(X) /\ Len(a) = i - 1 /\ \A j \in 1 .. i - 1 : a[j] = s[j]
  OBVIOUS
<1>2. b \in Seq(X) /\ Len(b) = Len(s) - i + 1 /\ \A j \in 1 .. Len(s) - i + 1 : b[j] = s[i + j - 1]
  OBVIOUS
<1> DEFINE c == a \o <<e>>
<1>3. c \in Seq(X) /\ Len(c) = i /\ \A j \in 1 .. i : c[j] = IF j < i THEN s[j] ELSE e
  <2> HIDE DEF a
  <2>1. <<e>> \in Seq(X) /\ Len(<<e>>) = 1 /\ <<e>>[1] = e
    OBVIOUS
  <2>2. c \in Seq(X) /\ Len(c) = (i - 1) + 1
    BY <1>1, <2>1
  <2>3. \A j \in 1 .. i : c[j] = IF j <= i - 1 THEN a[j] ELSE <<e>>[j - (i - 1)]
    BY <1>1, <2>1
  <2>4. \A j \in 1 .. i : (j <= i - 1 <=> j < i) /\ (~(j < i) => j - (i - 1) = 1)
    OBVIOUS
  <2> HIDE DEF c
  <2> QED
    BY <1>1, <2>1, <2>2, <2>3, <2>4
<1>4. InsertAt(s, i, e) = c \o b
  BY DEF InsertAt
<1> HIDE DEF a, b, c
<1>0. i \in Nat /\ Len(s) \in Nat
  BY LenProperties
<1>5. /\ c \o b \in Seq(X)
      /\ Len(c \o b) = Len(s) + 1
      /\ \A j \in 1 .. Len(s) + 1 : (c \o b)[j] = IF j <= i THEN c[j] ELSE b[j - i]
  <2>1. /\ c \o b \in Seq(X)
        /\ Len(c \o b) = Len(c) + Len(b)
        /\ \A j \in 1 .. Len(c) + Len(b) : (c \o b)[j] = IF j <= Len(c) THEN c[j] ELSE b[j - Len(c)]
    BY <1>2, <1>3, ConcatProperties
  <2>2. Len(c) = i /\ Len(c) + Len(b) = Len(s) + 1
    BY <1>0, <1>2, <1>3
  <2> QED
    BY <2>1, <2>2
<1>6. ASSUME NEW j \in 1 .. Len(s) + 1
      PROVE  (c \o b)[j] = IF j < i THEN s[j] ELSE IF j = i THEN e ELSE s[j - 1]
  <2>1. CASE j <= i
    <3>1. (c \o b)[j] = c[j]
      BY <1>5, <2>1
    <3> QED
      BY <1>0, <1>3, <2>1, <3>1
  <2>2. CASE j > i
    <3>1. (c \o b)[j] = b[j - i]
      BY <1>0, <1>5, <2>2
    <3>2. j - i \in 1 .. Len(s) - i + 1 /\ i + (j - i) - 1 = j - 1
      BY <1>0, <2>2
    <3>3. b[j - i] = s[j - 1]
      BY <1>2, <3>2
    <3> QED
      BY <1>0, <2>2, <3>1, <3>3
  <2>3. j <= i \/ j > i
    BY <1>0
  <2> QED
    BY <2>1, <2>2, <2>3
<1> QED
  BY <1>4, <1>5, <1>6

\* Removing shifts what follows back.
LEMMA RemoveAtFacts ==
    ASSUME NEW X, NEW s \in Seq(X), NEW i \in 1 .. Len(s)
    PROVE  /\ RemoveAt(s, i) \in Seq(X)
           /\ Len(RemoveAt(s, i)) = Len(s) - 1
           /\ \A j \in 1 .. Len(s) - 1 :
                 RemoveAt(s, i)[j] = IF j < i THEN s[j] ELSE s[j + 1]
<1> DEFINE a == SubSeq(s, 1, i - 1)
           b == SubSeq(s, i + 1, Len(s))
<1>1. a \in Seq(X) /\ Len(a) = i - 1 /\ \A j \in 1 .. i - 1 : a[j] = s[j]
  OBVIOUS
<1>2. b \in Seq(X) /\ Len(b) = Len(s) - i /\ \A j \in 1 .. Len(s) - i : b[j] = s[i + j]
  OBVIOUS
<1>3. RemoveAt(s, i) = a \o b
  BY DEF RemoveAt
<1> HIDE DEF a, b
<1>0. i \in Nat /\ Len(s) \in Nat
  BY LenProperties
<1>4. /\ a \o b \in Seq(X)
      /\ Len(a \o b) = Len(s) - 1
      /\ \A j \in 1 .. Len(s) - 1 : (a \o b)[j] = IF j <= i - 1 THEN a[j] ELSE b[j - (i - 1)]
  <2>1. /\ a \o b \in Seq(X)
        /\ Len(a \o b) = Len(a) + Len(b)
        /\ \A j \in 1 .. Len(a) + Len(b) : (a \o b)[j] = IF j <= Len(a) THEN a[j] ELSE b[j - Len(a)]
    BY <1>1, <1>2, ConcatProperties
  <2>2. Len(a) = i - 1 /\ Len(a) + Len(b) = Len(s) - 1
    BY <1>0, <1>1, <1>2
  <2> QED
    BY <2>1, <2>2
<1>5. ASSUME NEW j \in 1 .. Len(s) - 1
      PROVE  (a \o b)[j] = IF j < i THEN s[j] ELSE s[j + 1]
  <2>1. CASE j < i
    <3>1. (a \o b)[j] = a[j] /\ j \in 1 .. i - 1
      BY <1>0, <1>4, <2>1
    <3> QED
      BY <1>1, <2>1, <3>1
  <2>2. CASE j >= i
    <3>1. (a \o b)[j] = b[j - (i - 1)]
      BY <1>0, <1>4, <2>2
    <3>2. j - (i - 1) \in 1 .. Len(s) - i /\ i + (j - (i - 1)) = j + 1
      BY <1>0, <2>2
    <3>3. b[j - (i - 1)] = s[j + 1]
      BY <1>2, <3>2
    <3> QED
      BY <1>0, <2>2, <3>1, <3>3
  <2>3. j < i \/ j >= i
    BY <1>0
  <2> QED
    BY <2>1, <2>2, <2>3
<1> QED
  BY <1>3, <1>4, <1>5

\* The place of a SID in a chain is the first node that does not precede it.
LEMMA PlaceFacts ==
    ASSUME NEW chain \in Seq(NodeType), NEW sid \in Nat
    PROVE  /\ Place(chain, sid) \in 1 .. Len(chain) + 1
           /\ \A i \in 1 .. Len(chain) : i < Place(chain, sid) => chain[i].sid < sid
           /\ Place(chain, sid) <= Len(chain) => chain[Place(chain, sid)].sid >= sid
<1> DEFINE I == {i \in 1 .. Len(chain) : chain[i].sid >= sid}
<1>0. \A i \in 1 .. Len(chain) : chain[i].sid \in Nat
  <2>1. \A i \in 1 .. Len(chain) : chain[i] \in NodeType
    OBVIOUS
  <2> QED
    BY <2>1, SizesAssumption DEF NodeType, Sids
<1>1. Place(chain, sid) = IF I # {} THEN IF Min(I) = 0 THEN Len(chain) + 1 ELSE Min(I)
                          ELSE Len(chain) + 1
  BY DEF Place, SelectInSeq
<1>2. CASE I = {}
  BY <1>0, <1>1, <1>2
<1>3. CASE I # {}
  <2>0. I \in SUBSET Nat
    OBVIOUS
  <2>1. Min(I) \in I /\ \A j \in I : Min(I) <= j
    <3> HIDE DEF I
    <3> QED
      BY <1>3, <2>0, MinIsLeast
  <2>2. Place(chain, sid) = Min(I)
    BY <1>1, <1>3, <2>1
  <2>3. Place(chain, sid) \in 1 .. Len(chain) /\ chain[Place(chain, sid)].sid >= sid
    BY <2>1, <2>2
  <2>4. ASSUME NEW i \in 1 .. Len(chain), i < Place(chain, sid)
        PROVE  chain[i].sid < sid
    <3>1. i \notin I
      BY <2>1, <2>2, <2>3, <2>4
    <3> QED
      BY <1>0, <3>1
  <2> QED
    BY <2>3, <2>4
<1> QED
  BY <1>2, <1>3

-----------------------------------------------------------------------------
(***************************************************************************)
(* What a SID table is, in terms of its chains; the lemmas below say what  *)
(* each operation does, in terms of its set of nodes.                      *)
(***************************************************************************)
ChainOK(c, h, next) ==
    /\ c \in Seq(NodeType)
    /\ \A i \in 1 .. Len(c) : SIDTAB_HASH(c[i].sid) = h /\ c[i].sid < next
    /\ \A i, j \in 1 .. Len(c) : i < j => c[i].sid < c[j].sid

TableType == [htable : [Hash -> Seq(NodeType)], nel : Nat, next_sid : Sids, shutdown : BOOLEAN]

TableGood(s) ==
    /\ s \in TableType
    /\ \A h \in Hash : ChainOK(s.htable[h], h, s.next_sid)
    /\ IsFiniteSet(Nodes(s)) /\ s.nel = Cardinality(Nodes(s))

\* A chain has a node for a SID exactly where the search ends.
LEMMA ChainSearch ==
    ASSUME NEW c, NEW h, NEW next, ChainOK(c, h, next), NEW k \in 1 .. Len(c)
    PROVE  Place(c, c[k].sid) = k
<1>1. c \in Seq(NodeType) /\ Len(c) \in Nat
  BY LenProperties DEF ChainOK
<1>2. \A i \in 1 .. Len(c) : c[i].sid \in Nat
  <2>1. \A i \in 1 .. Len(c) : c[i] \in NodeType
    BY <1>1
  <2> QED
    BY <2>1, SizesAssumption DEF NodeType, Sids
<1> DEFINE q == Place(c, c[k].sid)
<1>3. /\ q \in 1 .. Len(c) + 1
      /\ \A i \in 1 .. Len(c) : i < q => c[i].sid < c[k].sid
      /\ q <= Len(c) => c[q].sid >= c[k].sid
  BY <1>1, <1>2, PlaceFacts
<1> HIDE DEF q
<1>4. ~(k < q)
  BY <1>2, <1>3
<1>5. q \in 1 .. Len(c)
  BY <1>1, <1>3, <1>4
<1>6. ~(q < k)
  BY <1>2, <1>3, <1>5 DEF ChainOK
<1>7. q = k
  BY <1>4, <1>5, <1>6
<1> QED
  BY <1>7 DEF q

\* The nodes are the elements of the chains, each in the chain of its SID.
LEMMA NodesOf ==
    ASSUME NEW s, TableGood(s)
    PROVE  /\ Nodes(s) \subseteq NodeType
           /\ \A h \in Hash : \A i \in 1 .. Len(s.htable[h]) : s.htable[h][i] \in Nodes(s)
           /\ \A n \in Nodes(s) :
                 /\ SIDTAB_HASH(n.sid) \in Hash
                 /\ n.sid < s.next_sid
                 /\ \E i \in 1 .. Len(s.htable[SIDTAB_HASH(n.sid)]) : s.htable[SIDTAB_HASH(n.sid)][i] = n
<1>1. \A h \in Hash : /\ s.htable[h] \in Seq(NodeType)
                      /\ DOMAIN s.htable[h] = 1 .. Len(s.htable[h])
                      /\ \A i \in 1 .. Len(s.htable[h]) : s.htable[h][i] \in NodeType
  BY LenProperties, ElementOfSeq DEF TableGood, ChainOK
<1>2. \A h \in Hash : \A i \in 1 .. Len(s.htable[h]) : s.htable[h][i] \in Nodes(s)
  BY <1>1 DEF Nodes, ToSet
<1>3. ASSUME NEW n \in Nodes(s)
      PROVE  /\ n \in NodeType
             /\ SIDTAB_HASH(n.sid) \in Hash
             /\ n.sid < s.next_sid
             /\ \E i \in 1 .. Len(s.htable[SIDTAB_HASH(n.sid)]) : s.htable[SIDTAB_HASH(n.sid)][i] = n
  <2>1. PICK h \in Hash : \E i \in 1 .. Len(s.htable[h]) : s.htable[h][i] = n
    BY <1>1 DEF Nodes, ToSet
  <2>2. PICK i \in 1 .. Len(s.htable[h]) : s.htable[h][i] = n
    BY <2>1
  <2>3. SIDTAB_HASH(n.sid) = h /\ n.sid < s.next_sid
    BY <2>2 DEF TableGood, ChainOK
  <2> QED
    BY <1>1, <2>2, <2>3
<1> QED
  BY <1>2, <1>3

\* Two nodes of a table have different SIDs.
LEMMA NodesUnique ==
    ASSUME NEW s, TableGood(s), NEW n \in Nodes(s), NEW m \in Nodes(s), n.sid = m.sid
    PROVE  n = m
<1> DEFINE h == SIDTAB_HASH(n.sid)
           c == s.htable[h]
<1>1. h \in Hash
  BY NodesOf
<1>2. ChainOK(c, h, s.next_sid)
  BY <1>1 DEF TableGood
<1>3. PICK i \in 1 .. Len(c) : c[i] = n
  BY NodesOf
<1>4. PICK j \in 1 .. Len(c) : c[j] = m
  BY NodesOf
<1>5. i = Place(c, n.sid) /\ j = Place(c, n.sid)
  <2> HIDE DEF c, h
  <2> QED
    BY <1>2, <1>3, <1>4, ChainSearch
<1> QED
  BY <1>3, <1>4, <1>5

\* Searching by SID, in spite of its early end, finds the node if there is one.
LEMMA SearchFinds ==
    ASSUME NEW s, TableGood(s)
    PROVE  /\ \A sid \in Sids : Holds(s, sid) <=> sid \in SidsIn(s)
           /\ \A n \in Nodes(s) : ContextOf(s, n.sid) = n.context
<1>1. ASSUME NEW n \in Nodes(s)
      PROVE  Holds(s, n.sid) /\ ContextOf(s, n.sid) = n.context
  <2> DEFINE h == SIDTAB_HASH(n.sid)
             c == s.htable[h]
  <2>1. h \in Hash
    BY NodesOf
  <2>2. ChainOK(c, h, s.next_sid)
    BY <2>1 DEF TableGood
  <2>3. PICK i \in 1 .. Len(c) : c[i] = n
    BY NodesOf
  <2>4. Place(c, n.sid) = i
    <3> HIDE DEF c, h
    <3> QED
      BY <2>2, <2>3, ChainSearch
  <2>5. Len(c) \in Nat
    BY <2>2, LenProperties DEF ChainOK
  <2> QED
    BY <2>3, <2>4, <2>5 DEF Holds, ContextOf
<1>2. ASSUME NEW sid \in Sids, Holds(s, sid)
      PROVE  sid \in SidsIn(s)
  <2> DEFINE h == SIDTAB_HASH(sid)
             c == s.htable[h]
             i == Place(c, sid)
  <2>1. sid \in Nat
    BY SizesAssumption DEF Sids
  <2>2. h \in Hash
    BY <2>1, HashType
  <2>3. c \in Seq(NodeType)
    BY <2>2 DEF TableGood, ChainOK
  <2>4. i \in 1 .. Len(c) + 1
    <3> HIDE DEF c, h
    <3> QED
      BY <2>1, <2>3, PlaceFacts
  <2>5. i <= Len(c) /\ c[i].sid = sid
    BY <1>2 DEF Holds
  <2>6. i \in 1 .. Len(c)
    <3> HIDE DEF c, h, i
    <3> QED
      BY <2>3, <2>4, <2>5, LenProperties
  <2>7. c[i] \in Nodes(s)
    <3> HIDE DEF i
    <3> QED
      BY <2>2, <2>6, NodesOf
  <2> HIDE DEF c, i
  <2> QED
    BY <2>5, <2>7 DEF SidsIn
<1>3. \A sid \in SidsIn(s) : Holds(s, sid)
  BY <1>1 DEF SidsIn
<1> QED
  BY <1>1, <1>2, <1>3
\* A table with one chain replaced by another good one.
LEMMA ChainChanged ==
    ASSUME NEW s, TableGood(s), NEW h \in Hash, NEW d, NEW t, t \in TableType,
           t.htable = [s.htable EXCEPT ![h] = d], s.next_sid <= t.next_sid,
           ChainOK(d, h, t.next_sid)
    PROVE  /\ \A g \in Hash : ChainOK(t.htable[g], g, t.next_sid)
           /\ Nodes(t) = (Nodes(s) \ ToSet(s.htable[h])) \cup ToSet(d)
<1>1. s.htable \in [Hash -> Seq(NodeType)] /\ s.next_sid \in Nat /\ t.next_sid \in Nat
  BY SizesAssumption DEF TableGood, TableType, Sids
<1>2. t.htable[h] = d /\ \A g \in Hash : g # h => t.htable[g] = s.htable[g]
  BY <1>1
<1>3. ASSUME NEW g \in Hash, g # h PROVE ChainOK(t.htable[g], g, t.next_sid)
  <2>1. ChainOK(s.htable[g], g, s.next_sid) /\ t.htable[g] = s.htable[g]
    BY <1>2, <1>3 DEF TableGood
  <2>2. \A j \in 1 .. Len(s.htable[g]) : s.htable[g][j] \in NodeType
    BY <2>1, ElementOfSeq DEF ChainOK
  <2>3. \A j \in 1 .. Len(s.htable[g]) : s.htable[g][j].sid \in Nat
    BY <2>2, SizesAssumption DEF NodeType, Sids
  <2>4. \A j \in 1 .. Len(s.htable[g]) : s.htable[g][j].sid < t.next_sid
    BY <1>1, <2>1, <2>3 DEF ChainOK
  <2> QED
    BY <2>1, <2>4 DEF ChainOK
<1>4. \A n : n \in Nodes(t) <=> n \in ToSet(d) \/ (n \in Nodes(s) /\ SIDTAB_HASH(n.sid) # h)
  <2>1. ASSUME NEW n, n \in Nodes(s), SIDTAB_HASH(n.sid) # h
        PROVE  n \in Nodes(t)
    <3>1. /\ SIDTAB_HASH(n.sid) \in Hash
          /\ \E i \in 1 .. Len(s.htable[SIDTAB_HASH(n.sid)]) : s.htable[SIDTAB_HASH(n.sid)][i] = n
      BY <2>1, NodesOf
    <3>2. s.htable[SIDTAB_HASH(n.sid)] \in Seq(NodeType)
      BY <3>1 DEF TableGood, ChainOK
    <3>3. n \in ToSet(s.htable[SIDTAB_HASH(n.sid)])
      BY <3>1, <3>2, LenProperties DEF ToSet
    <3> QED
      BY <1>2, <2>1, <3>1, <3>3 DEF Nodes
  <2>2. ASSUME NEW n, n \in Nodes(t), n \notin ToSet(d)
        PROVE  n \in Nodes(s) /\ SIDTAB_HASH(n.sid) # h
    <3>1. PICK g \in Hash : n \in ToSet(t.htable[g])
      BY <2>2 DEF Nodes
    <3>2. g # h /\ n \in ToSet(s.htable[g])
      BY <1>2, <2>2, <3>1
    <3>3. n \in Nodes(s)
      BY <3>2 DEF Nodes
    <3>4. s.htable[g] \in Seq(NodeType)
      BY DEF TableGood, ChainOK
    <3>5. PICK i \in 1 .. Len(s.htable[g]) : s.htable[g][i] = n
      BY <3>2, <3>4, LenProperties DEF ToSet
    <3>6. SIDTAB_HASH(n.sid) = g
      BY <3>5 DEF TableGood, ChainOK
    <3> QED
      BY <3>2, <3>3, <3>6
  <2>3. ASSUME NEW n, n \in ToSet(d) PROVE n \in Nodes(t)
    BY <1>2, <2>3 DEF Nodes
  <2> QED
    BY <2>1, <2>2, <2>3
<1>5. \A n \in Nodes(s) : SIDTAB_HASH(n.sid) = h <=> n \in ToSet(s.htable[h])
  <2>1. ChainOK(s.htable[h], h, s.next_sid)
    BY DEF TableGood
  <2>2. DOMAIN s.htable[h] = 1 .. Len(s.htable[h])
    BY <2>1, LenProperties DEF ChainOK
  <2>3. \A n \in ToSet(s.htable[h]) : SIDTAB_HASH(n.sid) = h
    BY <2>1, <2>2 DEF ToSet, ChainOK
  <2>4. \A n \in Nodes(s) : SIDTAB_HASH(n.sid) = h => n \in ToSet(s.htable[h])
    BY <2>2, NodesOf DEF ToSet
  <2> QED
    BY <2>3, <2>4
<1>6. Nodes(t) = (Nodes(s) \ ToSet(s.htable[h])) \cup ToSet(d)
  BY <1>4, <1>5
<1> QED
  BY <1>2, <1>3, <1>6

\* The table with its counter moved on, as sepol_sidtab_context_to_sid does
\* before it inserts.
LEMMA CountedGood ==
    ASSUME NEW s, TableGood(s), s.next_sid # MaxSid
    PROVE  LET t == [s EXCEPT !.next_sid = @ + 1]
           IN  TableGood(t) /\ Nodes(t) = Nodes(s) /\ t.next_sid = s.next_sid + 1 /\ t.shutdown = s.shutdown
<1> DEFINE t == [s EXCEPT !.next_sid = @ + 1]
<1>1. s \in TableType
  BY DEF TableGood
<1>2. s.next_sid \in 1 .. MaxSid - 1
  BY <1>1, SizesAssumption DEF TableType, Sids
<1>3. /\ t.htable = s.htable /\ t.nel = s.nel /\ t.shutdown = s.shutdown /\ t.next_sid = s.next_sid + 1
      /\ t \in TableType
  BY <1>1, <1>2, SizesAssumption DEF TableType, Sids
<1> HIDE DEF t
<1>4. Nodes(t) = Nodes(s)
  BY <1>3 DEF Nodes
<1>5. ASSUME NEW h \in Hash PROVE ChainOK(t.htable[h], h, t.next_sid)
  <2>1. ChainOK(s.htable[h], h, s.next_sid)
    BY DEF TableGood
  <2>2. \A i \in 1 .. Len(s.htable[h]) : s.htable[h][i] \in NodeType
    BY <2>1, ElementOfSeq DEF ChainOK
  <2>3. \A i \in 1 .. Len(s.htable[h]) : s.htable[h][i].sid \in Nat
    BY <2>2, SizesAssumption DEF NodeType, Sids
  <2>4. \A i \in 1 .. Len(s.htable[h]) : s.htable[h][i].sid < t.next_sid
    BY <1>2, <1>3, <2>1, <2>3 DEF ChainOK
  <2> QED
    BY <1>3, <2>1, <2>4 DEF ChainOK
<1>6. TableGood(t)
  BY <1>3, <1>4, <1>5 DEF TableGood
<1> QED
  BY <1>3, <1>4, <1>6 DEF t
\* sepol_sidtab_insert adds one node to a table that lacks its SID.
LEMMA InsertGood ==
    ASSUME NEW s, TableGood(s), NEW sid \in Sids, sid # MaxSid, sid \notin SidsIn(s),
           NEW ctx \in Contexts
    PROVE  LET t == sepol_sidtab_insert(s, sid, ctx)
           IN  /\ TableGood(t)
               /\ Nodes(t) = Nodes(s) \cup {Node(sid, ctx)}
               /\ t.shutdown = s.shutdown
               /\ t.next_sid = IF sid >= s.next_sid THEN sid + 1 ELSE s.next_sid
<1> DEFINE h == SIDTAB_HASH(sid)
           c == s.htable[h]
           i == Place(c, sid)
           e == Node(sid, ctx)
           d == InsertAt(c, i, e)
           next == IF sid >= s.next_sid THEN sid + 1 ELSE s.next_sid
           t == sepol_sidtab_insert(s, sid, ctx)
<1>1. /\ sid \in Nat /\ sid + 1 \in Sids /\ MaxSid \in Nat
      /\ s.next_sid \in Nat /\ next \in Sids /\ sid < next /\ s.next_sid <= next
      /\ s \in TableType
  BY SizesAssumption DEF Sids, TableGood, TableType
<1>2. h \in Hash
  BY <1>1, HashType
<1>3. ChainOK(c, h, s.next_sid) /\ c \in Seq(NodeType) /\ Len(c) \in Nat
  <2>1. ChainOK(c, h, s.next_sid)
    BY <1>2 DEF TableGood
  <2>2. c \in Seq(NodeType)
    BY <2>1 DEF ChainOK
  <2> QED
    BY <2>1, <2>2, LenProperties
<1>4. e \in NodeType /\ e.sid = sid
  BY DEF Node, NodeType
<1>5. \A j \in 1 .. Len(c) : /\ c[j] \in NodeType /\ c[j].sid \in Nat
                             /\ c[j].sid < s.next_sid /\ SIDTAB_HASH(c[j].sid) = h
  <2>1. \A j \in 1 .. Len(c) : c[j] \in NodeType
    BY <1>3, ElementOfSeq
  <2>2. \A j \in 1 .. Len(c) : c[j].sid \in Nat
    BY <2>1, SizesAssumption DEF NodeType, Sids
  <2> QED
    BY <1>3, <2>1, <2>2 DEF ChainOK
<1>6. \A j \in 1 .. Len(c) : c[j].sid # sid
  <2>1. \A j \in 1 .. Len(c) : c[j] \in Nodes(s)
    BY <1>2, NodesOf
  <2> QED
    BY <2>1 DEF SidsIn
<1>7. /\ i \in 1 .. Len(c) + 1
      /\ \A j \in 1 .. Len(c) : j < i => c[j].sid < sid
      /\ i <= Len(c) => c[i].sid >= sid
  <2> HIDE DEF c
  <2> QED
    BY <1>1, <1>3, PlaceFacts
<1>8. ~Holds(s, sid)
  BY SearchFinds
<1>9. /\ t = Put(s, sid, ctx, i)
      /\ (sid + 1) % (MaxSid + 1) = sid + 1
  <2>1. t = Put(s, sid, ctx, i)
    BY <1>8 DEF sepol_sidtab_insert
  <2>2. sid + 1 \in 0 .. MaxSid
    BY <1>1 DEF Sids
  <2> QED
    BY <1>1, <2>1, <2>2
<1> HIDE DEF c, h, i, e
<1>10. /\ d \in Seq(NodeType)
       /\ Len(d) = Len(c) + 1
       /\ \A j \in 1 .. Len(c) + 1 : d[j] = IF j < i THEN c[j] ELSE IF j = i THEN e ELSE c[j - 1]
  BY <1>3, <1>4, <1>7, InsertAtFacts
<1> HIDE DEF d
<1>11. /\ t.htable = [s.htable EXCEPT ![h] = d] /\ t.nel = s.nel + 1
       /\ t.shutdown = s.shutdown /\ t.next_sid = next
       /\ t \in TableType
  <2>1. t = [s EXCEPT !.htable[h] = d, !.nel = @ + 1, !.next_sid = next]
    BY <1>9 DEF Put, d, c, h, i, e
  <2>2. [s.htable EXCEPT ![h] = d] \in [Hash -> Seq(NodeType)]
    BY <1>1, <1>2, <1>10 DEF TableType
  <2> HIDE DEF next, t
  <2>3. t.htable = [s.htable EXCEPT ![h] = d]
    BY <1>1, <2>1 DEF TableType
  <2>4. t.nel = s.nel + 1 /\ t.shutdown = s.shutdown /\ t.next_sid = next
    BY <1>1, <2>1 DEF TableType
  <2>5. t = [htable |-> t.htable, nel |-> t.nel, next_sid |-> t.next_sid, shutdown |-> t.shutdown]
    BY <1>1, <2>1 DEF TableType
  <2>6. t.htable \in [Hash -> Seq(NodeType)] /\ t.nel \in Nat /\ t.next_sid \in Sids /\ t.shutdown \in BOOLEAN
    BY <1>1, <2>2, <2>3, <2>4 DEF TableType
  <2>7. t \in TableType
    BY <2>5, <2>6 DEF TableType
  <2> QED
    BY <2>3, <2>4, <2>7
<1> HIDE DEF t, next
<1>13. \A j \in 1 .. Len(c) : j >= i => c[j].sid > sid
  <2> SUFFICES ASSUME NEW j \in 1 .. Len(c), j >= i PROVE c[j].sid > sid
    OBVIOUS
  <2>1. i \in 1 .. Len(c) /\ c[i].sid > sid
    BY <1>1, <1>3, <1>5, <1>6, <1>7
  <2>2. c[j].sid >= c[i].sid
    <3>1. CASE j = i
      BY <1>5, <2>1, <3>1
    <3>2. CASE j > i
      BY <1>3, <1>5, <2>1, <3>2 DEF ChainOK
    <3> QED
      BY <2>1, <3>1, <3>2
  <2> QED
    BY <1>1, <1>5, <2>1, <2>2
<1>14. ChainOK(d, h, next)
  <2>1. ASSUME NEW j \in 1 .. Len(d)
        PROVE  SIDTAB_HASH(d[j].sid) = h /\ d[j].sid < next
    <3>1. CASE j < i
      <4>1. j \in 1 .. Len(c) /\ d[j] = c[j]
        BY <1>3, <1>7, <1>10, <3>1
      <4> QED
        BY <1>1, <1>5, <4>1
    <3>2. CASE j = i
      <4>1. d[j] = e
        BY <1>7, <1>10, <3>2
      <4> QED
        BY <1>1, <1>4, <4>1 DEF h
    <3>3. CASE j > i
      <4>1. j - 1 \in 1 .. Len(c) /\ d[j] = c[j - 1]
        BY <1>3, <1>7, <1>10, <3>3
      <4> QED
        BY <1>1, <1>5, <4>1
    <3> QED
      BY <1>3, <1>7, <1>10, <3>1, <3>2, <3>3
  <2>2. ASSUME NEW j \in 1 .. Len(d), NEW k \in 1 .. Len(d), j < k
        PROVE  d[j].sid < d[k].sid
    <3>1. CASE k < i
      <4>1. /\ j \in 1 .. Len(c) /\ d[j] = c[j]
            /\ k \in 1 .. Len(c) /\ d[k] = c[k]
        BY <1>3, <1>7, <1>10, <2>2, <3>1
      <4> QED
        BY <1>3, <2>2, <4>1 DEF ChainOK
    <3>2. CASE k = i
      <4>1. j \in 1 .. Len(c) /\ d[j] = c[j] /\ d[k] = e /\ j < i
        BY <1>3, <1>7, <1>10, <2>2, <3>2
      <4> QED
        BY <1>4, <1>7, <4>1
    <3>3. CASE k > i /\ j < i
      <4>1. /\ j \in 1 .. Len(c) /\ d[j] = c[j] /\ j < i
            /\ k - 1 \in 1 .. Len(c) /\ d[k] = c[k - 1] /\ k - 1 >= i
        BY <1>3, <1>7, <1>10, <2>2, <3>3
      <4>2. c[j].sid < sid /\ sid < c[k - 1].sid
        BY <1>1, <1>5, <1>7, <1>13, <4>1
      <4> QED
        BY <1>1, <1>5, <4>1, <4>2, SMTT(30)
    <3>4. CASE k > i /\ j = i
      <4>1. d[j] = e /\ k - 1 \in 1 .. Len(c) /\ d[k] = c[k - 1] /\ k - 1 >= i
        BY <1>3, <1>7, <1>10, <2>2, <3>4
      <4> QED
        BY <1>1, <1>4, <1>5, <1>13, <4>1
    <3>5. CASE k > i /\ j > i
      <4>1. /\ j - 1 \in 1 .. Len(c) /\ d[j] = c[j - 1]
            /\ k - 1 \in 1 .. Len(c) /\ d[k] = c[k - 1] /\ j - 1 < k - 1
        <5>1. /\ j \in 1 .. Len(c) + 1 /\ ~(j < i) /\ j # i /\ j - 1 \in 1 .. Len(c)
              /\ k \in 1 .. Len(c) + 1 /\ ~(k < i) /\ k # i /\ k - 1 \in 1 .. Len(c)
              /\ j - 1 < k - 1
          BY <1>3, <1>7, <1>10, <2>2, <3>5
        <5> QED
          BY <1>10, <5>1
      <4> QED
        BY <1>3, <4>1 DEF ChainOK
    <3> QED
      BY <1>3, <1>7, <1>10, <3>1, <3>2, <3>3, <3>4, <3>5
  <2> QED
    BY <1>10, <2>1, <2>2 DEF ChainOK
<1>16. \A n : n \in ToSet(d) <=> n \in ToSet(c) \/ n = e
  <2>1. DOMAIN d = 1 .. Len(c) + 1 /\ DOMAIN c = 1 .. Len(c)
    BY <1>3, <1>10, LenProperties
  <2>2. e \in ToSet(d)
    BY <1>7, <1>10, <2>1 DEF ToSet
  <2>3. ASSUME NEW n \in ToSet(c) PROVE n \in ToSet(d)
    <3>1. PICK j \in 1 .. Len(c) : n = c[j]
      BY <2>1 DEF ToSet
    <3>2. CASE j < i
      <4>1. j \in 1 .. Len(c) + 1 /\ d[j] = n
        BY <1>3, <1>10, <3>1, <3>2
      <4> QED
        BY <2>1, <4>1 DEF ToSet
    <3>3. CASE j >= i
      <4>1. j + 1 \in 1 .. Len(c) + 1 /\ ~(j + 1 < i) /\ j + 1 # i /\ (j + 1) - 1 = j
        BY <1>3, <1>7, <3>3
      <4>2. d[j + 1] = n
        BY <1>10, <3>1, <4>1
      <4> QED
        BY <2>1, <4>1, <4>2 DEF ToSet
    <3> QED
      BY <1>7, <3>2, <3>3
  <2>4. ASSUME NEW n \in ToSet(d), n # e PROVE n \in ToSet(c)
    <3>1. PICK j \in 1 .. Len(c) + 1 : n = d[j]
      BY <2>1 DEF ToSet
    <3>2. CASE j < i
      <4>1. j \in 1 .. Len(c) /\ c[j] = n
        BY <1>3, <1>7, <1>10, <3>1, <3>2
      <4> QED
        BY <2>1, <4>1 DEF ToSet
    <3>3. CASE j > i
      <4>1. j - 1 \in 1 .. Len(c) /\ c[j - 1] = n
        BY <1>3, <1>7, <1>10, <3>1, <3>3
      <4> QED
        BY <2>1, <4>1 DEF ToSet
    <3>4. j # i
      BY <1>10, <2>4, <3>1
    <3> QED
      BY <1>3, <1>7, <3>2, <3>3, <3>4
  <2> QED
    BY <2>2, <2>3, <2>4
<1>17. /\ \A g \in Hash : ChainOK(t.htable[g], g, t.next_sid)
       /\ Nodes(t) = (Nodes(s) \ ToSet(c)) \cup ToSet(d)
  <2>1. /\ t.htable = [s.htable EXCEPT ![h] = d] /\ t \in TableType
        /\ s.next_sid <= t.next_sid /\ ChainOK(d, h, t.next_sid)
    BY <1>1, <1>11, <1>14
  <2> QED
    BY <1>2, <2>1, ChainChanged, ZenonT(60) DEF c
<1>18. ToSet(c) \subseteq Nodes(s)
  BY <1>2 DEF c, Nodes
<1>19. Nodes(t) = Nodes(s) \cup {e}
  BY <1>16, <1>17, <1>18
<1>20. e \notin Nodes(s)
  BY <1>4 DEF SidsIn
<1>21. IsFiniteSet(Nodes(t)) /\ t.nel = Cardinality(Nodes(t))
  <2>1. IsFiniteSet(Nodes(s)) /\ s.nel = Cardinality(Nodes(s))
    BY DEF TableGood
  <2> QED
    BY <1>11, <1>19, <1>20, <2>1, FS_AddElement
<1>22. TableGood(t)
  BY <1>11, <1>17, <1>21 DEF TableGood
<1> QED
  BY <1>11, <1>19, <1>22 DEF t, e, next
\* The node a walk is at is found in its chain.
LEMMA CursorFacts ==
    ASSUME NEW s, TableGood(s), NEW n \in Nodes(s)
    PROVE  /\ Cursor(s, n) \in 1 .. Len(s.htable[SIDTAB_HASH(n.sid)])
           /\ s.htable[SIDTAB_HASH(n.sid)][Cursor(s, n)] = n
<1> DEFINE c == s.htable[SIDTAB_HASH(n.sid)]
<1>1. SIDTAB_HASH(n.sid) \in Hash /\ \E i \in 1 .. Len(c) : c[i] = n
  BY NodesOf
<1>2. DOMAIN c = 1 .. Len(c)
  BY <1>1, LenProperties DEF TableGood, ChainOK
<1>3. Cursor(s, n) = CHOOSE i \in DOMAIN c : c[i] = n
  BY DEF Cursor
<1> HIDE DEF c
<1>4. Cursor(s, n) \in 1 .. Len(c) /\ c[Cursor(s, n)] = n
  BY <1>1, <1>2, <1>3
<1> QED
  BY <1>4 DEF c

\* Unlinking removes one node and leaves next_sid alone.
LEMMA UnlinkGood ==
    ASSUME NEW s, TableGood(s), NEW n \in Nodes(s)
    PROVE  LET t == Unlinked(s, n)
           IN  /\ TableGood(t)
               /\ Nodes(t) = Nodes(s) \ {n}
               /\ t.shutdown = s.shutdown /\ t.next_sid = s.next_sid
<1> DEFINE h == SIDTAB_HASH(n.sid)
           c == s.htable[h]
           i == Cursor(s, n)
           d == RemoveAt(c, i)
           t == Unlinked(s, n)
<1>1. h \in Hash /\ s \in TableType
  BY NodesOf DEF TableGood
<1>2. ChainOK(c, h, s.next_sid) /\ c \in Seq(NodeType) /\ Len(c) \in Nat
  <2>1. ChainOK(c, h, s.next_sid)
    BY <1>1 DEF TableGood
  <2>2. c \in Seq(NodeType)
    BY <2>1 DEF ChainOK
  <2> QED
    BY <2>1, <2>2, LenProperties
<1>3. i \in 1 .. Len(c) /\ c[i] = n
  BY CursorFacts
<1>4. IsFiniteSet(Nodes(s)) /\ s.nel = Cardinality(Nodes(s)) /\ Cardinality(Nodes(s) \ {n}) = s.nel - 1
      /\ IsFiniteSet(Nodes(s) \ {n}) /\ s.nel - 1 \in Nat
  <2>1. IsFiniteSet(Nodes(s)) /\ s.nel = Cardinality(Nodes(s))
    BY DEF TableGood
  <2>2. IsFiniteSet(Nodes(s) \ {n}) /\ Cardinality(Nodes(s) \ {n}) = Cardinality(Nodes(s)) - 1
    BY <2>1, FS_RemoveElement
  <2> QED
    BY <2>1, <2>2, FS_CardinalityType
<1> HIDE DEF c, h, i
<1>5. /\ d \in Seq(NodeType)
      /\ Len(d) = Len(c) - 1
      /\ \A j \in 1 .. Len(c) - 1 : d[j] = IF j < i THEN c[j] ELSE c[j + 1]
  BY <1>2, <1>3, RemoveAtFacts
<1> HIDE DEF d
<1>6. /\ t.htable = [s.htable EXCEPT ![h] = d]
      /\ t.nel = s.nel - 1 /\ t.shutdown = s.shutdown /\ t.next_sid = s.next_sid
      /\ t \in TableType
  <2>1. t = [s EXCEPT !.htable[h] = d, !.nel = @ - 1]
    BY DEF Unlinked, d, c, h, i
  <2>2. [s.htable EXCEPT ![h] = d] \in [Hash -> Seq(NodeType)]
    BY <1>1, <1>5 DEF TableType
  <2> HIDE DEF t
  <2>3. t.htable = [s.htable EXCEPT ![h] = d]
    BY <1>1, <2>1 DEF TableType
  <2>4. t.nel = s.nel - 1 /\ t.shutdown = s.shutdown /\ t.next_sid = s.next_sid
    BY <1>1, <2>1 DEF TableType
  <2>5. t = [htable |-> t.htable, nel |-> t.nel, next_sid |-> t.next_sid, shutdown |-> t.shutdown]
    BY <1>1, <2>1 DEF TableType
  <2>6. t.htable \in [Hash -> Seq(NodeType)] /\ t.nel \in Nat /\ t.next_sid \in Sids /\ t.shutdown \in BOOLEAN
    BY <1>1, <1>4, <2>2, <2>3, <2>4 DEF TableType
  <2>7. t \in TableType
    BY <2>5, <2>6 DEF TableType
  <2> QED
    BY <2>3, <2>4, <2>7
<1> HIDE DEF t
<1>7. ASSUME NEW j \in 1 .. Len(d)
      PROVE  \E k \in 1 .. Len(c) : d[j] = c[k] /\ k # i /\ k = IF j < i THEN j ELSE j + 1
  BY <1>2, <1>3, <1>5
<1>8. ChainOK(d, h, s.next_sid)
  <2>1. \A j \in 1 .. Len(d) : SIDTAB_HASH(d[j].sid) = h /\ d[j].sid < s.next_sid
    BY <1>2, <1>7 DEF ChainOK
  <2>2. ASSUME NEW j \in 1 .. Len(d), NEW k \in 1 .. Len(d), j < k
        PROVE  d[j].sid < d[k].sid
    <3>1. PICK q \in 1 .. Len(c) : d[j] = c[q] /\ q = IF j < i THEN j ELSE j + 1
      BY <1>7
    <3>2. PICK r \in 1 .. Len(c) : d[k] = c[r] /\ r = IF k < i THEN k ELSE k + 1
      BY <1>7
    <3>3. q < r
      BY <1>3, <2>2, <3>1, <3>2
    <3> QED
      BY <1>2, <3>1, <3>2, <3>3 DEF ChainOK
  <2> QED
    BY <1>5, <2>1, <2>2 DEF ChainOK
<1>9. ToSet(d) = ToSet(c) \ {n}
  <2>1. DOMAIN d = 1 .. Len(d) /\ DOMAIN c = 1 .. Len(c)
    BY <1>2, <1>5, LenProperties
  <2>2. ASSUME NEW m \in ToSet(d) PROVE m \in ToSet(c) /\ m # n
    <3>1. PICK j \in 1 .. Len(d) : m = d[j]
      BY <2>1 DEF ToSet
    <3>2. PICK k \in 1 .. Len(c) : m = c[k] /\ k # i
      BY <1>7, <3>1
    <3>3. Place(c, c[k].sid) = k /\ Place(c, c[i].sid) = i
      BY <1>2, <1>3, ChainSearch
    <3> QED
      BY <1>3, <2>1, <3>2, <3>3 DEF ToSet
  <2>3. ASSUME NEW m \in ToSet(c), m # n PROVE m \in ToSet(d)
    <3>1. PICK k \in 1 .. Len(c) : m = c[k]
      BY <2>1 DEF ToSet
    <3>2. k # i
      BY <1>3, <2>3, <3>1
    <3>3. CASE k < i
      <4>1. k \in 1 .. Len(d) /\ d[k] = m
        BY <1>2, <1>3, <1>5, <3>1, <3>3
      <4> QED
        BY <2>1, <4>1 DEF ToSet
    <3>4. CASE k > i
      <4>1. k - 1 \in 1 .. Len(c) - 1 /\ ~(k - 1 < i) /\ (k - 1) + 1 = k
        BY <1>2, <1>3, <3>4
      <4>2. d[k - 1] = m
        BY <1>5, <3>1, <4>1
      <4> QED
        BY <1>5, <2>1, <4>1, <4>2 DEF ToSet
    <3> QED
      BY <1>2, <1>3, <3>2, <3>3, <3>4
  <2> QED
    BY <2>2, <2>3
<1>10. /\ \A g \in Hash : ChainOK(t.htable[g], g, t.next_sid)
       /\ Nodes(t) = (Nodes(s) \ ToSet(c)) \cup ToSet(d)
  <2>1. s.next_sid \in Nat
    BY <1>1, SizesAssumption DEF TableType, Sids
  <2>2. /\ t.htable = [s.htable EXCEPT ![h] = d] /\ t \in TableType
        /\ s.next_sid <= t.next_sid /\ ChainOK(d, h, t.next_sid)
    BY <1>6, <1>8, <2>1
  <2> QED
    BY <1>1, <2>2, ChainChanged, ZenonT(60) DEF c
<1>11. ToSet(c) \subseteq Nodes(s) /\ n \in ToSet(c)
  <2>1. ToSet(c) \subseteq Nodes(s)
    BY <1>1 DEF c, Nodes
  <2> QED
    BY <1>2, <1>3, <2>1, LenProperties DEF ToSet
<1>12. Nodes(t) = Nodes(s) \ {n}
  BY <1>9, <1>10, <1>11
<1>13. TableGood(t)
  BY <1>4, <1>6, <1>10, <1>12 DEF TableGood
<1> QED
  BY <1>6, <1>12, <1>13 DEF t
\* Converting changes the context of one node in place.
LEMMA ConvertGood ==
    ASSUME NEW s, TableGood(s), NEW n \in Nodes(s), NEW w \in Contexts
    PROVE  LET t == Converted(s, n, w)
           IN  /\ TableGood(t)
               /\ Nodes(t) = (Nodes(s) \ {n}) \cup {Node(n.sid, w)}
               /\ t.shutdown = s.shutdown /\ t.next_sid = s.next_sid
<1> DEFINE h == SIDTAB_HASH(n.sid)
           c == s.htable[h]
           i == Cursor(s, n)
           e == Node(n.sid, w)
           d == [c EXCEPT ![i] = e]
           t == Converted(s, n, w)
<1>1. h \in Hash /\ s \in TableType /\ n \in NodeType
  BY NodesOf DEF TableGood
<1>2. ChainOK(c, h, s.next_sid) /\ c \in Seq(NodeType) /\ Len(c) \in Nat
  <2>1. ChainOK(c, h, s.next_sid)
    BY <1>1 DEF TableGood
  <2>2. c \in Seq(NodeType)
    BY <2>1 DEF ChainOK
  <2> QED
    BY <2>1, <2>2, LenProperties
<1>3. i \in 1 .. Len(c) /\ c[i] = n
  BY CursorFacts
<1>4. e \in NodeType /\ e.sid = n.sid
  BY <1>1 DEF Node, NodeType
<1> HIDE DEF c, h, i, e
<1>5. /\ d \in Seq(NodeType)
      /\ Len(d) = Len(c)
      /\ \A j \in 1 .. Len(c) : d[j] = IF j = i THEN e ELSE c[j]
  BY <1>2, <1>3, <1>4, ExceptSeq
<1>6. /\ t.htable = [s.htable EXCEPT ![h] = d]
      /\ t.nel = s.nel /\ t.shutdown = s.shutdown /\ t.next_sid = s.next_sid
      /\ t \in TableType
  <2>1. t = [s EXCEPT !.htable[h] = d]
    BY DEF Converted, ReplaceAt, d, c, h, i, e
  <2> HIDE DEF d
  <2>2. [s.htable EXCEPT ![h] = d] \in [Hash -> Seq(NodeType)]
    BY <1>1, <1>5 DEF TableType
  <2> HIDE DEF t
  <2>3. t.htable = [s.htable EXCEPT ![h] = d]
    BY <1>1, <2>1 DEF TableType
  <2>4. t.nel = s.nel /\ t.shutdown = s.shutdown /\ t.next_sid = s.next_sid
    BY <1>1, <2>1 DEF TableType
  <2>5. t = [htable |-> t.htable, nel |-> t.nel, next_sid |-> t.next_sid, shutdown |-> t.shutdown]
    BY <1>1, <2>1 DEF TableType
  <2>6. t.htable \in [Hash -> Seq(NodeType)] /\ t.nel \in Nat /\ t.next_sid \in Sids /\ t.shutdown \in BOOLEAN
    BY <1>1, <2>2, <2>3, <2>4 DEF TableType
  <2>7. t \in TableType
    BY <2>5, <2>6 DEF TableType
  <2> QED
    BY <2>3, <2>4, <2>7
<1> HIDE DEF d, t
<1>7. \A j \in 1 .. Len(c) : d[j].sid = c[j].sid
  BY <1>3, <1>4, <1>5
<1>8. ChainOK(d, h, s.next_sid)
  BY <1>2, <1>5, <1>7 DEF ChainOK
<1>9. ToSet(d) = (ToSet(c) \ {n}) \cup {e}
  <2>1. DOMAIN d = 1 .. Len(c) /\ DOMAIN c = 1 .. Len(c)
    BY <1>2, <1>5, LenProperties
  <2>2. \A j \in 1 .. Len(c) : j # i => c[j] # n
    <3>1. \A j \in 1 .. Len(c) : Place(c, c[j].sid) = j
      BY <1>2, ChainSearch
    <3> QED
      BY <1>3, <3>1
  <2>3. ASSUME NEW m \in ToSet(d) PROVE m = e \/ (m \in ToSet(c) /\ m # n)
    BY <1>5, <2>1, <2>2 DEF ToSet
  <2>4. ASSUME NEW m \in ToSet(c), m # n PROVE m \in ToSet(d)
    BY <1>3, <1>5, <2>1, <2>4 DEF ToSet
  <2>5. e \in ToSet(d)
    BY <1>3, <1>5, <2>1 DEF ToSet
  <2> QED
    BY <2>3, <2>4, <2>5
<1>10. /\ \A g \in Hash : ChainOK(t.htable[g], g, t.next_sid)
       /\ Nodes(t) = (Nodes(s) \ ToSet(c)) \cup ToSet(d)
  <2>1. s.next_sid \in Nat
    BY <1>1, SizesAssumption DEF TableType, Sids
  <2>2. /\ t.htable = [s.htable EXCEPT ![h] = d] /\ t \in TableType
        /\ s.next_sid <= t.next_sid /\ ChainOK(d, h, t.next_sid)
    BY <1>6, <1>8, <2>1
  <2> QED
    BY <1>1, <2>2, ChainChanged, ZenonT(60) DEF c
<1>11. ToSet(c) \subseteq Nodes(s) /\ n \in ToSet(c)
  <2>1. ToSet(c) \subseteq Nodes(s)
    BY <1>1 DEF c, Nodes
  <2> QED
    BY <1>2, <1>3, <2>1, LenProperties DEF ToSet
<1>12. Nodes(t) = (Nodes(s) \ {n}) \cup {e}
  BY <1>9, <1>10, <1>11
<1>13. IsFiniteSet(Nodes(t)) /\ t.nel = Cardinality(Nodes(t))
  <2>1. IsFiniteSet(Nodes(s)) /\ s.nel = Cardinality(Nodes(s))
    BY DEF TableGood
  <2>2. IsFiniteSet(Nodes(s) \ {n}) /\ Cardinality(Nodes(s) \ {n}) = Cardinality(Nodes(s)) - 1
    BY <2>1, FS_RemoveElement
  <2>3. e \notin Nodes(s) \ {n}
    BY <1>4, NodesUnique
  <2>4. IsFiniteSet(Nodes(t)) /\ Cardinality(Nodes(t)) = Cardinality(Nodes(s) \ {n}) + 1
    BY <1>12, <2>2, <2>3, FS_AddElement
  <2> QED
    BY <1>6, <2>1, <2>2, <2>4, FS_CardinalityType
<1>14. TableGood(t)
  BY <1>6, <1>10, <1>13 DEF TableGood
<1> QED
  BY <1>6, <1>12, <1>14 DEF t, e
\* A walk that has nodes left has a first one.
LEMMA ForemostIn ==
    ASSUME NEW S \in SUBSET NodeType, S # {}
    PROVE  Foremost(S) \in S
<1>1. \A n \in S : n.sid \in Nat /\ SIDTAB_HASH(n.sid) \in Nat
  <2>1. \A n \in S : n.sid \in Nat
    BY SizesAssumption DEF NodeType, Sids
  <2>2. \A n \in S : SIDTAB_HASH(n.sid) \in Hash
    BY <2>1, HashType
  <2> QED
    BY <2>1, <2>2, SizesAssumption DEF Hash
<1> DEFINE H == {SIDTAB_HASH(n.sid) : n \in S}
<1>2. H \in SUBSET Nat /\ H # {}
  BY <1>1
<1>3. Min(H) \in H /\ \A k \in H : Min(H) <= k
  <2> HIDE DEF H
  <2> QED
    BY <1>2, MinIsLeast
<1> DEFINE h == Min(H)
           T == {n.sid : n \in {m \in S : SIDTAB_HASH(m.sid) = h}}
<1>4. T \in SUBSET Nat /\ T # {}
  BY <1>1, <1>3
<1>5. Min(T) \in T /\ \A k \in T : Min(T) <= k
  <2> HIDE DEF T
  <2> QED
    BY <1>4, MinIsLeast
<1>6. PICK n \in S : SIDTAB_HASH(n.sid) = h /\ n.sid = Min(T)
  BY <1>5
<1>7. ASSUME NEW m \in S PROVE Before(n, m)
  <2>1. h <= SIDTAB_HASH(m.sid) /\ h \in Nat
    BY <1>1, <1>3, <1>6
  <2>2. CASE SIDTAB_HASH(m.sid) = h
    <3>1. m.sid \in T
      BY <2>2
    <3>2. n.sid <= m.sid
      BY <1>5, <1>6, <3>1
    <3> QED
      BY <1>6, <2>2, <3>2 DEF Before
  <2>3. CASE SIDTAB_HASH(m.sid) # h
    <3>1. SIDTAB_HASH(n.sid) < SIDTAB_HASH(m.sid)
      BY <1>1, <1>6, <2>1, <2>3
    <3> QED
      BY <3>1 DEF Before
  <2> QED
    BY <2>2, <2>3
<1> QED
  BY <1>7 DEF Foremost

LEMMA NodeSame == ASSUME NEW n \in NodeType PROVE n = Node(n.sid, n.context)
BY DEF NodeType, Node

\* What sepol_sidtab_context_to_sid can do: nothing, find the context, or give
\* it a new SID.
Unsuccessful(s, r) == r.sid = Null /\ r.table = s
Found(s, ctx, r) == r.sid \in Sids /\ r.table = s /\ Node(r.sid, ctx) \in Nodes(s)
Added(s, ctx, r) ==
    /\ r.sid \in Sids /\ r.sid \notin SidsIn(s) /\ r.sid = s.next_sid
    /\ \A n \in Nodes(s) : n.context # ctx
    /\ Nodes(r.table) = Nodes(s) \cup {Node(r.sid, ctx)}
    /\ r.table.next_sid = s.next_sid + 1

LEMMA ContextToSid ==
    ASSUME NEW s, TableGood(s), NEW ctx \in Contexts,
           NEW r \in sepol_sidtab_context_to_sid(s, ctx)
    PROVE  TableGood(r.table) /\ (Unsuccessful(s, r) \/ Found(s, ctx, r) \/ Added(s, ctx, r))
<1> DEFINE matches == {n \in Nodes(s) : n.context = ctx}
           found == sepol_sidtab_search_context(s, ctx)
           counted == [s EXCEPT !.next_sid = @ + 1]
<1>1. Nodes(s) \subseteq NodeType
  BY NodesOf
<1>2. CASE matches # {}
  <2>1. matches \in SUBSET NodeType
    BY <1>1
  <2>2. Foremost(matches) \in matches
    <3> HIDE DEF matches
    <3> QED
      BY <1>2, <2>1, ForemostIn
  <2>3. found = Foremost(matches).sid
    BY <1>2 DEF sepol_sidtab_search_context
  <2>4. PICK n \in Nodes(s) : n.context = ctx /\ found = n.sid
    BY <2>2, <2>3
  <2>5. n = Node(found, ctx) /\ found \in Sids /\ found # Null
    BY <1>1, <2>4, NodeSame DEF NodeType, Sids, Null
  <2> HIDE DEF found
  <2>6. r = [sid |-> found, table |-> s]
    BY <2>5 DEF sepol_sidtab_context_to_sid, found
  <2> QED
    BY <2>4, <2>5, <2>6 DEF Found
<1>3. CASE matches = {}
  <2>1. found = Null
    BY <1>3 DEF sepol_sidtab_search_context
  <2>2. CASE r = [sid |-> Null, table |-> s]
    BY <2>2 DEF Unsuccessful
  <2>3. CASE r # [sid |-> Null, table |-> s]
    <3>1. /\ s.next_sid # MaxSid
          /\ r = [sid |-> s.next_sid, table |-> sepol_sidtab_insert(counted, s.next_sid, ctx)]
      BY <2>1, <2>3 DEF sepol_sidtab_context_to_sid
    <3>2. TableGood(counted) /\ Nodes(counted) = Nodes(s) /\ counted.next_sid = s.next_sid + 1
      BY <3>1, CountedGood
    <3>3. s.next_sid \in Sids /\ s.next_sid \in Nat
      BY SizesAssumption DEF TableGood, TableType, Sids
    <3>4. s.next_sid \notin SidsIn(counted) /\ SidsIn(counted) = SidsIn(s)
      <4>1. \A n \in Nodes(s) : n.sid < s.next_sid
        BY NodesOf
      <4>2. \A n \in Nodes(s) : n.sid # s.next_sid
        BY <3>3, <4>1
      <4> QED
        BY <3>2, <4>2 DEF SidsIn
    <3> HIDE DEF counted
    <3>5. LET t == sepol_sidtab_insert(counted, s.next_sid, ctx)
          IN  /\ TableGood(t)
              /\ Nodes(t) = Nodes(s) \cup {Node(s.next_sid, ctx)}
              /\ t.next_sid = s.next_sid + 1
      BY <3>1, <3>2, <3>3, <3>4, InsertGood
    <3> QED
      BY <1>3, <3>1, <3>3, <3>4, <3>5 DEF Added
  <2> QED
    BY <2>2, <2>3
<1> QED
  BY <1>2, <1>3

-----------------------------------------------------------------------------
(***************************************************************************)
(* The inductive invariant.  The properties of Services say what holds of  *)
(* the table in force; to keep them, the loops of a load need to know what *)
(* the table under construction already holds, and a call which contexts   *)
(* of which object it still works on.                                      *)
(***************************************************************************)
ContextsValid == policy # NoPolicy => \A n \in Nodes(sidtab) : n.context \in policy.valid

IsidsOK ==
    phase = "isids" =>
        /\ policy = NoPolicy /\ newpolicydb \in Policies /\ out = Null
        /\ left \subseteq IsidNodes(newpolicydb)
        /\ Nodes(newsidtab) = IsidNodes(newpolicydb) \ left

CloneOK ==
    phase = "clone" =>
        /\ policy # NoPolicy /\ newpolicydb \in Policies
        /\ left \subseteq Nodes(sidtab)
        /\ Nodes(newsidtab) = Nodes(sidtab) \ left

ConvertedFrom(m, n) ==
    /\ n.sid = m.sid
    /\ n.context = convert_context(policy, newpolicydb, m.context)
    /\ n.context # 0

ConvertOK ==
    phase = "convert" =>
        /\ policy # NoPolicy /\ newpolicydb \in Policies
        /\ left \subseteq Nodes(sidtab) /\ left \subseteq Nodes(newsidtab)
        /\ \A n \in Nodes(newsidtab) \ left : \E m \in Nodes(sidtab) : ConvertedFrom(m, n)
        /\ \A n \in Nodes(sidtab) : n.sid < newsidtab.next_sid

JobOK ==
    job.left # <<>> =>
        /\ phase = "calls" /\ policy # NoPolicy
        /\ job \in [object : {0} \cup DOMAIN policy.ocontexts, at : Nat, left : Seq(policy.valid)]
        /\ job.object # 0 =>
              \A i \in 1 .. Len(job.left) :
                  /\ job.at + i - 1 \in DOMAIN policy.ocontexts[job.object]
                  /\ policy.ocontexts[job.object][job.at + i - 1] = job.left[i]

ObjectsOK ==
    policy # NoPolicy =>
        /\ osids = [o \in DOMAIN policy.ocontexts |-> osids[o]]
        /\ \A o \in DOMAIN policy.ocontexts :
              /\ osids[o] = [i \in DOMAIN policy.ocontexts[o] |-> osids[o][i]]
              /\ \A i \in DOMAIN policy.ocontexts[o] :
                    osids[o][i] # Null => Node(osids[o][i], policy.ocontexts[o][i]) \in Nodes(sidtab)

DroppedOK ==
    \A sid \in dropped : sid \in Sids /\ sid < sidtab.next_sid /\ sid \notin SidsIn(sidtab)

Inv == /\ policy \in Policies \cup {NoPolicy}
       /\ phase \in {"isids", "calls", "clone", "convert"}
       /\ TableGood(sidtab) /\ TableGood(newsidtab)
       /\ ContextsValid
       /\ IsidsOK /\ CloneOK /\ ConvertOK
       /\ JobOK
       /\ ObjectsOK
       /\ DroppedOK
LEMMA EmptyTable == TableGood(sepol_sidtab_init) /\ Nodes(sepol_sidtab_init) = {}
<1> DEFINE t == sepol_sidtab_init
<1>1. t.htable = [h \in Hash |-> <<>>] /\ t.nel = 0 /\ t.next_sid = 1 /\ t.shutdown = FALSE
  BY DEF sepol_sidtab_init
<1>2. <<>> \in Seq(NodeType) /\ Len(<<>>) = 0
  BY EmptySeq
<1>3. t \in TableType
  BY <1>2, SizesAssumption DEF sepol_sidtab_init, TableType, Sids
<1> HIDE DEF t
<1>4. \A h \in Hash : ChainOK(t.htable[h], h, t.next_sid)
  BY <1>1, <1>2 DEF ChainOK
<1>5. Nodes(t) = {}
  BY <1>1 DEF Nodes, ToSet
<1> QED
  BY <1>1, <1>3, <1>4, <1>5, FS_EmptySet DEF TableGood, t

\* Setting the shutdown flag leaves the rest of the table alone.
LEMMA FlagGood ==
    ASSUME NEW s, TableGood(s), NEW b \in BOOLEAN
    PROVE  LET t == [s EXCEPT !.shutdown = b]
           IN  TableGood(t) /\ Nodes(t) = Nodes(s) /\ t.next_sid = s.next_sid
<1> DEFINE t == [s EXCEPT !.shutdown = b]
<1>1. s \in TableType
  BY DEF TableGood
<1>2. t.htable = s.htable /\ t.nel = s.nel /\ t.next_sid = s.next_sid /\ t \in TableType
  BY <1>1 DEF TableType
<1> HIDE DEF t
<1>3. Nodes(t) = Nodes(s)
  BY <1>2 DEF Nodes
<1>4. TableGood(t)
  BY <1>2, <1>3 DEF TableGood
<1> QED
  BY <1>2, <1>3, <1>4 DEF t

\* An initial SID's node, and what a policy says of its context.
LEMMA IsidFacts ==
    ASSUME NEW p \in Policies
    PROVE  /\ IsidNodes(p) \subseteq NodeType
           /\ \A n \in IsidNodes(p) : /\ n.sid \in DOMAIN p.isids /\ n.context = p.isids[n.sid]
                                      /\ n.sid # MaxSid /\ n.context \in p.valid
           /\ \A n, m \in IsidNodes(p) : n.sid = m.sid => n = m
<1>1. /\ DOMAIN p.isids \subseteq Sids \ {MaxSid}
      /\ \A sid \in DOMAIN p.isids : p.isids[sid] \in p.valid
  BY PoliciesAssumption DEF WellFormed
<1>2. p.valid \subseteq Contexts
  BY DEF Contexts
<1>3. ASSUME NEW n \in IsidNodes(p)
      PROVE  /\ n \in NodeType /\ n.sid \in DOMAIN p.isids /\ n.context = p.isids[n.sid]
             /\ n = Node(n.sid, p.isids[n.sid])
  <2>1. PICK sid \in DOMAIN p.isids : n = Node(sid, p.isids[sid])
    BY DEF IsidNodes
  <2>2. n.sid = sid /\ n.context = p.isids[sid]
    BY <2>1 DEF Node
  <2>3. sid \in Sids /\ p.isids[sid] \in Contexts
    BY <1>1, <1>2
  <2> QED
    BY <2>1, <2>2, <2>3 DEF Node, NodeType
<1>4. \A n, m \in IsidNodes(p) : n.sid = m.sid => n = m
  <2> SUFFICES ASSUME NEW n \in IsidNodes(p), NEW m \in IsidNodes(p), n.sid = m.sid PROVE n = m
    OBVIOUS
  <2>1. n = Node(n.sid, p.isids[n.sid]) /\ m = Node(m.sid, p.isids[m.sid])
    BY <1>3
  <2> QED
    BY <2>1
<1> QED
  BY <1>1, <1>3, <1>4

\* A policy and a table whose contexts are valid in it are put in force.
LEMMA FreshStep ==
    ASSUME NEW p \in Policies, NEW t, TableGood(t), Fresh(p, t), DroppedOK',
           \A n \in Nodes(t) : n.context \in p.valid
    PROVE  Inv'
<1>1. /\ policy' = p /\ sidtab' = t /\ osids' = NoSids(p) /\ job' = NoJob
      /\ phase' = "calls" /\ newsidtab' = sepol_sidtab_init
  BY DEF Fresh, LoadEnds
<1>2. TableGood(sidtab') /\ TableGood(newsidtab')
  BY <1>1, EmptyTable
<1>3. ContextsValid'
  BY <1>1 DEF ContextsValid
<1>4. IsidsOK' /\ CloneOK' /\ ConvertOK'
  BY <1>1 DEF IsidsOK, CloneOK, ConvertOK
<1>5. JobOK'
  BY <1>1 DEF JobOK, NoJob
<1>6. ObjectsOK'
  BY <1>1 DEF ObjectsOK, NoSids
<1> QED
  BY <1>1, <1>2, <1>3, <1>4, <1>5, <1>6 DEF Inv

LEMMA InvInit == Init => Inv
<1> SUFFICES ASSUME Init PROVE Inv
  OBVIOUS
<1>1. PICK p \in Policies : newpolicydb = p /\ left = IsidNodes(p)
  BY DEF Init
<1>2. TableGood(sidtab) /\ TableGood(newsidtab) /\ Nodes(newsidtab) = {}
  BY EmptyTable DEF Init
<1>3. IsidsOK
  BY <1>1, <1>2 DEF Init, IsidsOK
<1>4. ContextsValid /\ CloneOK /\ ConvertOK /\ ObjectsOK /\ DroppedOK
  BY DEF Init, ContextsValid, CloneOK, ConvertOK, ObjectsOK, DroppedOK
<1>5. JobOK
  BY DEF Init, JobOK, NoJob
<1> QED
  BY <1>2, <1>3, <1>4, <1>5 DEF Init, Inv

\* A step of a load that touches only the load's own variables.
Building == UNCHANGED <<policy, sidtab, osids, job, dropped>>

LEMMA BuildingKeeps ==
    ASSUME Inv, Building, phase # "calls", phase' \in {"isids", "calls", "clone", "convert"},
           TableGood(newsidtab'), IsidsOK', CloneOK', ConvertOK'
    PROVE  Inv'
<1>1. ContextsValid'
  BY DEF Inv, Building, ContextsValid
<1>2. JobOK'
  <2>1. job.left = <<>>
    BY DEF Inv, JobOK
  <2> QED
    BY <2>1 DEF Building, JobOK
<1>3. ObjectsOK'
  BY DEF Inv, Building, ObjectsOK
<1>4. DroppedOK'
  BY DEF Inv, Building, DroppedOK
<1> QED
  BY <1>1, <1>2, <1>3, <1>4 DEF Inv, Building

LEMMA LoadIsidsStep == Inv /\ policydb_load_isids => Inv'
<1> SUFFICES ASSUME Inv, policydb_load_isids PROVE Inv'
  OBVIOUS
<1>1. PICK n \in left : /\ newsidtab' = sepol_sidtab_insert(newsidtab, n.sid, n.context)
                        /\ left' = left \ {n}
  BY DEF policydb_load_isids
<1>2. /\ phase = "isids" /\ phase' = phase /\ newpolicydb' = newpolicydb /\ out' = out /\ Building
  BY DEF policydb_load_isids, Building
<1>3. /\ policy = NoPolicy /\ newpolicydb \in Policies /\ out = Null
      /\ left \subseteq IsidNodes(newpolicydb)
      /\ Nodes(newsidtab) = IsidNodes(newpolicydb) \ left
      /\ TableGood(newsidtab)
  BY <1>2 DEF Inv, IsidsOK
<1>4. n \in NodeType /\ n.sid # MaxSid /\ n = Node(n.sid, n.context)
  <2>1. n \in NodeType /\ n.sid # MaxSid
    BY <1>3, IsidFacts
  <2> QED
    BY <2>1, NodeSame
<1>5. n.sid \notin SidsIn(newsidtab)
  BY <1>3, IsidFacts DEF SidsIn
<1>6. n.sid \in Sids /\ n.context \in Contexts
  BY <1>4 DEF NodeType
<1>7. TableGood(newsidtab') /\ Nodes(newsidtab') = Nodes(newsidtab) \cup {n}
  BY <1>1, <1>3, <1>4, <1>5, <1>6, InsertGood
<1>8. IsidsOK'
  <2>1. IsidNodes(newpolicydb)' = IsidNodes(newpolicydb)
    BY <1>2
  <2>2. Nodes(newsidtab)' = IsidNodes(newpolicydb) \ left'
    BY <1>1, <1>3, <1>7
  <2> QED
    BY <1>1, <1>2, <1>3, <2>1, <2>2 DEF IsidsOK, Building
<1>9. CloneOK' /\ ConvertOK'
  BY <1>2 DEF CloneOK, ConvertOK
<1> QED
  BY <1>2, <1>7, <1>8, <1>9, BuildingKeeps
LEMMA SetSidtabStep == Inv /\ sepol_set_sidtab => Inv'
<1> SUFFICES ASSUME Inv, sepol_set_sidtab PROVE Inv'
  OBVIOUS
<1>1. phase = "isids" /\ left = {} /\ Fresh(newpolicydb, newsidtab) /\ dropped' = {}
  BY DEF sepol_set_sidtab
<1>2. newpolicydb \in Policies /\ Nodes(newsidtab) = IsidNodes(newpolicydb) /\ TableGood(newsidtab)
  BY <1>1 DEF Inv, IsidsOK
<1>3. \A n \in Nodes(newsidtab) : n.context \in newpolicydb.valid
  BY <1>2, IsidFacts
<1>4. DroppedOK'
  BY <1>1 DEF DroppedOK
<1> QED
  BY <1>1, <1>2, <1>3, <1>4, FreshStep

\* A load given up leaves what is in force.
LEMMA LoadEndsStep ==
    ASSUME Inv, Building, LoadEnds, phase # "calls"
    PROVE  Inv'
<1>1. phase' = "calls" /\ TableGood(newsidtab')
  BY EmptyTable DEF LoadEnds
<1>2. IsidsOK' /\ CloneOK' /\ ConvertOK'
  BY <1>1 DEF IsidsOK, CloneOK, ConvertOK
<1> QED
  BY <1>1, <1>2, BuildingKeeps

\* A call that needs SIDs for valid contexts begins.
LEMMA StartStep ==
    ASSUME Inv, NEW o, NEW contexts, Start(o, contexts), contexts \in Seq(policy.valid),
           o # 0 => o \in DOMAIN policy.ocontexts /\ contexts = policy.ocontexts[o]
    PROVE  Inv'
<1>1. /\ job' = [object |-> o, at |-> 1, left |-> contexts]
      /\ UNCHANGED <<policy, sidtab, osids, phase, newpolicydb, newsidtab, left, dropped>>
      /\ policy # NoPolicy /\ phase = "calls"
  BY DEF Start, Ready, loading
<1>2. ContextsValid'
  BY <1>1 DEF Inv, ContextsValid
<1>3. IsidsOK' /\ CloneOK' /\ ConvertOK'
  BY <1>1 DEF IsidsOK, CloneOK, ConvertOK
<1>4. ObjectsOK'
  BY <1>1 DEF Inv, ObjectsOK
<1>5. DroppedOK'
  BY <1>1 DEF Inv, DroppedOK
<1>6. JobOK'
  <2>1. job' \in [object : {0} \cup DOMAIN policy.ocontexts, at : Nat, left : Seq(policy.valid)]
    BY <1>1
  <2>2. ASSUME o # 0, NEW i \in 1 .. Len(contexts)
        PROVE  1 + i - 1 \in DOMAIN policy.ocontexts[o] /\ policy.ocontexts[o][1 + i - 1] = contexts[i]
    <3>1. 1 + i - 1 = i /\ DOMAIN contexts = 1 .. Len(contexts)
      BY LenProperties
    <3> QED
      BY <2>2, <3>1
  <2> QED
    BY <1>1, <2>1, <2>2 DEF JobOK
<1> QED
  BY <1>1, <1>2, <1>3, <1>4, <1>5, <1>6 DEF Inv

\* What the contexts of a policy's objects and users are.
LEMMA PolicyFacts ==
    ASSUME NEW p \in Policies
    PROVE  /\ p.valid \subseteq Contexts /\ 0 \notin p.valid
           /\ \A o \in DOMAIN p.ocontexts : p.ocontexts[o] \in Seq(p.valid)
           /\ \A u \in DOMAIN p.users : p.users[u] \in Seq(p.valid)
           /\ \A v \in p.valid : p.name[v] \in Labels /\ p.value[p.name[v]] = v
<1>1. WellFormed(p)
  BY PoliciesAssumption
<1>2. \A v \in p.valid : \E l \in Labels : v = p.value[l] /\ v # 0
  BY <1>1 DEF WellFormed
<1>3. \A l \in Labels : p.value[l] # 0 => p.name[p.value[l]] \in Labels /\ p.value[p.name[p.value[l]]] = p.value[l]
  BY <1>1 DEF WellFormed
<1>4. \A v \in p.valid : p.name[v] \in Labels /\ p.value[p.name[v]] = v
  BY <1>2, <1>3
<1> QED
  BY <1>1, <1>2, <1>4 DEF WellFormed, Contexts

LEMMA OneIsSeq == ASSUME NEW X, NEW x \in X PROVE <<x>> \in Seq(X)
OBVIOUS

LEMMA CallsStep ==
    ASSUME Inv, policy # NoPolicy,
           \/ \E l \in Labels : sepol_context_to_sid(l)
           \/ \E o \in DOMAIN policy.ocontexts : ObjectSids(o)
           \/ \E u \in DOMAIN policy.users : sepol_get_user_sids(u)
    PROVE  Inv'
<1>0. policy \in Policies
  BY DEF Inv
<1>1. ASSUME NEW l \in Labels, sepol_context_to_sid(l) PROVE Inv'
  <2>1. Start(0, <<policy.value[l]>>) /\ policy.value[l] \in policy.valid
    BY <1>1 DEF sepol_context_to_sid
  <2>2. <<policy.value[l]>> \in Seq(policy.valid)
    BY <2>1, OneIsSeq
  <2> QED
    BY <2>1, <2>2, StartStep
<1>2. ASSUME NEW o \in DOMAIN policy.ocontexts, ObjectSids(o) PROVE Inv'
  <2>1. Start(o, policy.ocontexts[o]) /\ policy.ocontexts[o] \in Seq(policy.valid)
    BY <1>0, <1>2, PolicyFacts DEF ObjectSids
  <2> QED
    BY <2>1, StartStep
<1>3. ASSUME NEW u \in DOMAIN policy.users, sepol_get_user_sids(u) PROVE Inv'
  <2>1. Start(0, policy.users[u]) /\ policy.users[u] \in Seq(policy.valid)
    BY <1>0, <1>3, PolicyFacts DEF sepol_get_user_sids
  <2> QED
    BY <2>1, StartStep
<1> QED
  BY <1>1, <1>2, <1>3
\* One context of a call is looked up, and given a SID if it has none.
LEMMA NextSidStep == Inv /\ NextSid => Inv'
<1> SUFFICES ASSUME Inv, NextSid PROVE Inv'
  OBVIOUS
<1> DEFINE c == Head(job.left)
<1>1. /\ job.left # <<>>
      /\ UNCHANGED <<policy, phase, newpolicydb, newsidtab, left, dropped>>
  BY DEF NextSid, loading
<1>2. PICK r \in sepol_sidtab_context_to_sid(sidtab, c) :
          /\ sidtab' = r.table
          /\ out' = r.sid
          /\ osids' = IF job.object = 0 THEN osids ELSE [osids EXCEPT ![job.object][job.at] = r.sid]
          /\ job' = IF r.sid = Null \/ Len(job.left) = 1 THEN NoJob
                    ELSE [job EXCEPT !.at = @ + 1, !.left = Tail(@)]
  BY DEF NextSid
<1>3. /\ phase = "calls" /\ policy # NoPolicy /\ policy \in Policies
      /\ job \in [object : {0} \cup DOMAIN policy.ocontexts, at : Nat, left : Seq(policy.valid)]
      /\ job.object # 0 =>
            \A i \in 1 .. Len(job.left) :
                /\ job.at + i - 1 \in DOMAIN policy.ocontexts[job.object]
                /\ policy.ocontexts[job.object][job.at + i - 1] = job.left[i]
  BY <1>1 DEF Inv, JobOK
<1>4. /\ job.left \in Seq(policy.valid) /\ c \in policy.valid /\ c = job.left[1]
      /\ Len(job.left) \in Nat \ {0}
      /\ Tail(job.left) \in Seq(policy.valid) /\ Len(Tail(job.left)) = Len(job.left) - 1
      /\ \A i \in 1 .. Len(Tail(job.left)) : Tail(job.left)[i] = job.left[i + 1]
  <2>1. job.left \in Seq(policy.valid)
    BY <1>3
  <2>2. Len(job.left) \in Nat \ {0}
    BY <1>1, <2>1, EmptySeq
  <2>3. c = job.left[1]
    BY <2>1, <2>2
  <2>4. /\ Head(job.left) \in policy.valid
        /\ Tail(job.left) \in Seq(policy.valid) /\ Len(Tail(job.left)) = Len(job.left) - 1
        /\ \A i \in 1 .. Len(Tail(job.left)) : Tail(job.left)[i] = job.left[i + 1]
    BY <1>1, <2>1, HeadTailProperties
  <2> QED
    BY <2>1, <2>2, <2>3, <2>4
<1>5. c \in Contexts
  BY <1>3, <1>4, PolicyFacts
<1> HIDE DEF c
<1>6. /\ TableGood(sidtab) /\ TableGood(r.table)
      /\ Unsuccessful(sidtab, r) \/ Found(sidtab, c, r) \/ Added(sidtab, c, r)
  BY <1>2, <1>5, ContextToSid DEF Inv
<1>7. /\ Nodes(sidtab) \subseteq Nodes(sidtab')
      /\ \A n \in Nodes(sidtab') : n \in Nodes(sidtab) \/ n = Node(r.sid, c)
      /\ r.sid # Null => Node(r.sid, c) \in Nodes(sidtab')
  BY <1>2, <1>6 DEF Unsuccessful, Found, Added
<1>8. ContextsValid'
  <2>1. ASSUME NEW n \in Nodes(sidtab') PROVE n.context \in policy.valid
    <3>1. CASE n \in Nodes(sidtab)
      BY <1>3, <3>1 DEF Inv, ContextsValid
    <3>2. CASE n = Node(r.sid, c)
      BY <1>4, <3>2 DEF Node
    <3> QED
      BY <1>7, <3>1, <3>2
  <2> QED
    BY <1>1, <2>1 DEF ContextsValid
<1>9. DroppedOK'
  <2>1. sidtab.next_sid \in Nat
    BY SizesAssumption DEF Inv, TableGood, TableType, Sids
  <2> SUFFICES ASSUME NEW sid \in dropped
               PROVE  sid \in Sids /\ sid < sidtab'.next_sid /\ sid \notin SidsIn(sidtab')
    BY <1>1 DEF DroppedOK
  <2>2. sid \in Sids /\ sid \in Nat /\ sid < sidtab.next_sid /\ sid \notin SidsIn(sidtab)
    BY SizesAssumption DEF Inv, DroppedOK, Sids
  <2>3. CASE r.table = sidtab
    BY <1>2, <2>2, <2>3
  <2>4. CASE Added(sidtab, c, r)
    <3>1. sidtab'.next_sid = sidtab.next_sid + 1 /\ r.sid = sidtab.next_sid
      BY <1>2, <2>4 DEF Added
    <3>2. \A n \in Nodes(sidtab') : n.sid # sid
      <4> SUFFICES ASSUME NEW n \in Nodes(sidtab') PROVE n.sid # sid
        OBVIOUS
      <4>1. CASE n \in Nodes(sidtab)
        BY <2>2, <4>1 DEF SidsIn
      <4>2. CASE n = Node(r.sid, c)
        <5>1. n.sid = sidtab.next_sid
          BY <3>1, <4>2 DEF Node
        <5> QED
          BY <2>1, <2>2, <5>1
      <4> QED
        BY <1>7, <4>1, <4>2
    <3>3. sid < sidtab'.next_sid
      BY <2>1, <2>2, <3>1
    <3> QED
      BY <2>2, <3>2, <3>3 DEF SidsIn
  <2> QED
    BY <1>6, <2>3, <2>4 DEF Unsuccessful, Found
<1>10. ObjectsOK'
  <2>1. /\ osids = [o \in DOMAIN policy.ocontexts |-> osids[o]]
        /\ \A o \in DOMAIN policy.ocontexts :
              /\ osids[o] = [i \in DOMAIN policy.ocontexts[o] |-> osids[o][i]]
              /\ \A i \in DOMAIN policy.ocontexts[o] :
                    osids[o][i] # Null => Node(osids[o][i], policy.ocontexts[o][i]) \in Nodes(sidtab)
    BY <1>3 DEF Inv, ObjectsOK
  <2>2. CASE job.object = 0
    <3>1. osids' = osids
      BY <1>2, <2>2
    <3> QED
      BY <1>1, <1>7, <2>1, <3>1 DEF ObjectsOK
  <2>3. CASE job.object # 0
    <3> DEFINE q == job.object
               k == job.at
    <3>1. osids' = [osids EXCEPT ![q][k] = r.sid]
      BY <1>2, <2>3
    <3>2. q \in DOMAIN policy.ocontexts /\ k \in DOMAIN policy.ocontexts[q] /\ policy.ocontexts[q][k] = c
      <4>1. 1 \in 1 .. Len(job.left) /\ job.at + 1 - 1 = job.at
        BY <1>3, <1>4
      <4> QED
        BY <1>3, <1>4, <2>3, <4>1
    <3> HIDE DEF q, k
    <3>3. osids' = [o \in DOMAIN policy.ocontexts |->
                       IF o = q THEN [osids[q] EXCEPT ![k] = r.sid] ELSE osids[o]]
      BY <2>1, <3>1, <3>2
    <3>4. ASSUME NEW o \in DOMAIN policy.ocontexts
          PROVE  /\ osids'[o] = [i \in DOMAIN policy.ocontexts[o] |-> osids'[o][i]]
                 /\ \A i \in DOMAIN policy.ocontexts[o] :
                       osids'[o][i] # Null => Node(osids'[o][i], policy.ocontexts[o][i]) \in Nodes(sidtab')
      <4>1. CASE o # q
        <5>1. osids'[o] = osids[o]
          BY <3>3, <4>1
        <5> QED
          BY <1>7, <2>1, <5>1
      <4>2. CASE o = q
        <5>1. osids'[o] = [osids[o] EXCEPT ![k] = r.sid]
          BY <3>3, <4>2
        <5>2. osids'[o] = [i \in DOMAIN policy.ocontexts[o] |-> IF i = k THEN r.sid ELSE osids[o][i]]
          BY <2>1, <5>1
        <5>3. ASSUME NEW i \in DOMAIN policy.ocontexts[o], osids'[o][i] # Null
              PROVE  Node(osids'[o][i], policy.ocontexts[o][i]) \in Nodes(sidtab')
          <6>1. CASE i = k
            BY <1>7, <3>2, <4>2, <5>2, <5>3, <6>1
          <6>2. CASE i # k
            BY <1>7, <2>1, <5>2, <5>3, <6>2
          <6> QED
            BY <6>1, <6>2
        <5> QED
          BY <5>2, <5>3
      <4> QED
        BY <4>1, <4>2
    <3>5. osids' = [o \in DOMAIN policy.ocontexts |-> osids'[o]]
      BY <3>3
    <3> QED
      BY <1>1, <3>4, <3>5 DEF ObjectsOK
  <2> QED
    BY <2>2, <2>3
<1>11. JobOK'
  <2>1. CASE r.sid = Null \/ Len(job.left) = 1
    BY <1>2, <2>1 DEF JobOK, NoJob
  <2>2. CASE ~(r.sid = Null \/ Len(job.left) = 1)
    <3>1. job' = [job EXCEPT !.at = @ + 1, !.left = Tail(@)]
      BY <1>2, <2>2
    <3>2. job' = [object |-> job.object, at |-> job.at + 1, left |-> Tail(job.left)]
      BY <1>3, <3>1
    <3>3. job' \in [object : {0} \cup DOMAIN policy.ocontexts, at : Nat, left : Seq(policy.valid)]
      BY <1>3, <1>4, <3>2
    <3>4. ASSUME job.object # 0, NEW i \in 1 .. Len(Tail(job.left))
          PROVE  /\ (job.at + 1) + i - 1 \in DOMAIN policy.ocontexts[job.object]
                 /\ policy.ocontexts[job.object][(job.at + 1) + i - 1] = Tail(job.left)[i]
      <4>1. i + 1 \in 1 .. Len(job.left) /\ (job.at + 1) + i - 1 = job.at + (i + 1) - 1
        BY <1>3, <1>4
      <4>2. /\ job.at + (i + 1) - 1 \in DOMAIN policy.ocontexts[job.object]
            /\ policy.ocontexts[job.object][job.at + (i + 1) - 1] = job.left[i + 1]
        BY <1>3, <3>4, <4>1
      <4> QED
        BY <1>4, <4>1, <4>2
    <3> QED
      BY <1>1, <1>3, <3>2, <3>3, <3>4 DEF JobOK
  <2> QED
    BY <2>1, <2>2
<1>12. IsidsOK' /\ CloneOK' /\ ConvertOK'
  BY <1>1, <1>3 DEF IsidsOK, CloneOK, ConvertOK
<1> QED
  BY <1>1, <1>2, <1>3, <1>6, <1>8, <1>9, <1>10, <1>11, <1>12 DEF Inv
\* Calls that leave the SIDs and objects alone, and a load that only shuts the
\* table down.
LEMMA SameObjects ==
    ASSUME Inv, UNCHANGED <<policy, osids, job, dropped>>, TableGood(sidtab'),
           Nodes(sidtab') = Nodes(sidtab), sidtab'.next_sid = sidtab.next_sid
    PROVE  ContextsValid' /\ ObjectsOK' /\ DroppedOK' /\ (phase' = phase => JobOK')
<1>1. ContextsValid'
  BY DEF Inv, ContextsValid
<1>2. ObjectsOK'
  BY DEF Inv, ObjectsOK
<1>3. DroppedOK'
  BY DEF Inv, DroppedOK, SidsIn
<1>4. phase' = phase => JobOK'
  BY DEF Inv, JobOK
<1> QED
  BY <1>1, <1>2, <1>3, <1>4

LEMMA LoadPolicyStep == ASSUME Inv, NEW p \in Policies, sepol_load_policy(p) PROVE Inv'
<1>1. /\ job.left = <<>> /\ policy # NoPolicy /\ phase = "calls"
      /\ sidtab' = [sidtab EXCEPT !.shutdown = TRUE]
      /\ phase' = "clone" /\ newpolicydb' = p /\ newsidtab' = sepol_sidtab_init /\ left' = Nodes(sidtab)
      /\ UNCHANGED <<policy, osids, job, dropped>>
  BY DEF sepol_load_policy, Ready, sepol_sidtab_shutdown
<1>2. TableGood(sidtab') /\ Nodes(sidtab') = Nodes(sidtab) /\ sidtab'.next_sid = sidtab.next_sid
  BY <1>1, FlagGood DEF Inv
<1>3. ContextsValid' /\ ObjectsOK' /\ DroppedOK'
  BY <1>1, <1>2, SameObjects
<1>4. JobOK'
  BY <1>1 DEF JobOK
<1>5. TableGood(newsidtab') /\ Nodes(newsidtab') = {}
  BY <1>1, EmptyTable
<1>6. IsidsOK' /\ ConvertOK'
  BY <1>1 DEF IsidsOK, ConvertOK
<1>7. CloneOK'
  BY <1>1, <1>2, <1>5 DEF CloneOK
<1> QED
  BY <1>1, <1>2, <1>3, <1>4, <1>5, <1>6, <1>7 DEF Inv

LEMMA CloneSidStep == Inv /\ CloneSid => Inv'
<1> SUFFICES ASSUME Inv, CloneSid PROVE Inv'
  OBVIOUS
<1> DEFINE n == Foremost(left)
<1>1. /\ phase = "clone" /\ left # {}
      /\ newsidtab' = sepol_sidtab_insert(newsidtab, n.sid, n.context)
      /\ left' = left \ {n}
      /\ phase' = phase /\ newpolicydb' = newpolicydb /\ Building
  BY DEF CloneSid, clone_sid, Building
<1>2. /\ policy # NoPolicy /\ newpolicydb \in Policies
      /\ left \subseteq Nodes(sidtab)
      /\ Nodes(newsidtab) = Nodes(sidtab) \ left
      /\ TableGood(sidtab) /\ TableGood(newsidtab)
  BY <1>1 DEF Inv, CloneOK
<1>3. Nodes(sidtab) \subseteq NodeType /\ \A m \in Nodes(sidtab) : m.sid < sidtab.next_sid
  BY <1>2, NodesOf
<1>4. n \in left
  BY <1>1, <1>2, <1>3, ForemostIn
<1> HIDE DEF n
<1>5. /\ n \in Nodes(sidtab) /\ n \in NodeType /\ n = Node(n.sid, n.context)
      /\ n.sid \in Sids /\ n.context \in Contexts
  BY <1>2, <1>3, <1>4, NodeSame DEF NodeType
<1>6. n.sid # MaxSid
  <2>1. sidtab.next_sid \in Sids
    BY <1>2 DEF TableGood, TableType
  <2> QED
    BY <1>3, <1>5, <2>1, SizesAssumption DEF Sids
<1>7. n.sid \notin SidsIn(newsidtab)
  <2>1. \A m \in Nodes(newsidtab) : m \in Nodes(sidtab) /\ m # n
    BY <1>2, <1>4
  <2>2. \A m \in Nodes(sidtab) : m.sid = n.sid => m = n
    BY <1>2, <1>5, NodesUnique
  <2> QED
    BY <2>1, <2>2 DEF SidsIn
<1>8. TableGood(newsidtab') /\ Nodes(newsidtab') = Nodes(newsidtab) \cup {n}
  BY <1>1, <1>2, <1>5, <1>6, <1>7, InsertGood
<1>9. CloneOK'
  <2>1. left' \subseteq Nodes(sidtab) /\ Nodes(newsidtab') = Nodes(sidtab) \ left'
    BY <1>1, <1>2, <1>5, <1>8
  <2> QED
    BY <1>1, <1>2, <2>1 DEF CloneOK, Building
<1>10. IsidsOK' /\ ConvertOK'
  BY <1>1 DEF IsidsOK, ConvertOK
<1> QED
  BY <1>1, <1>8, <1>9, <1>10, BuildingKeeps

LEMMA ClonedStep == Inv /\ Cloned => Inv'
<1> SUFFICES ASSUME Inv, Cloned PROVE Inv'
  OBVIOUS
<1>1. /\ phase = "clone" /\ left = {} /\ phase' = "convert" /\ left' = Nodes(newsidtab)
      /\ newpolicydb' = newpolicydb /\ newsidtab' = newsidtab /\ Building
  BY DEF Cloned, Building
<1>2. /\ policy # NoPolicy /\ newpolicydb \in Policies
      /\ Nodes(newsidtab) = Nodes(sidtab) /\ TableGood(newsidtab)
  BY <1>1 DEF Inv, CloneOK
<1>3. \A n \in Nodes(sidtab) : n.sid < newsidtab.next_sid
  BY <1>2, NodesOf
<1>4. ConvertOK'
  BY <1>1, <1>2, <1>3 DEF ConvertOK, Building
<1>5. IsidsOK' /\ CloneOK'
  BY <1>1 DEF IsidsOK, CloneOK
<1> QED
  BY <1>1, <1>2, <1>4, <1>5, BuildingKeeps

LEMMA ConvertStep == Inv /\ ConvertContext => Inv'
<1> SUFFICES ASSUME Inv, ConvertContext PROVE Inv'
  OBVIOUS
<1> DEFINE n == Foremost(left)
           w == convert_context(policy, newpolicydb, n.context)
<1>1. /\ phase = "convert" /\ left # {}
      /\ \/ w # 0 /\ newsidtab' = Converted(newsidtab, n, w)
         \/ newsidtab' = Unlinked(newsidtab, n)
      /\ left' = left \ {n}
      /\ phase' = phase /\ newpolicydb' = newpolicydb /\ Building
  BY DEF ConvertContext, Building
<1>2. /\ policy # NoPolicy /\ newpolicydb \in Policies
      /\ left \subseteq Nodes(sidtab) /\ left \subseteq Nodes(newsidtab)
      /\ \A m \in Nodes(newsidtab) \ left : \E o \in Nodes(sidtab) : ConvertedFrom(o, m)
      /\ \A m \in Nodes(sidtab) : m.sid < newsidtab.next_sid
      /\ TableGood(sidtab) /\ TableGood(newsidtab)
  BY <1>1 DEF Inv, ConvertOK
<1>3. n \in left
  <2>1. left \in SUBSET NodeType
    BY <1>2, NodesOf
  <2> QED
    BY <1>1, <2>1, ForemostIn
<1>4. w # 0 => w \in newpolicydb.valid /\ w \in Contexts
  <2>1. w # 0 => w \in newpolicydb.valid
    BY DEF convert_context
  <2> QED
    BY <1>2, <2>1, PolicyFacts
<1> HIDE DEF n, w
<1>5. n \in Nodes(sidtab) /\ n \in Nodes(newsidtab)
  BY <1>2, <1>3
<1>6. \A m \in left' : m \in Nodes(newsidtab) /\ m # n /\ m \in Nodes(sidtab)
  BY <1>1, <1>2
<1>7. \A o, m : ConvertedFrom(o, m)' <=> ConvertedFrom(o, m)
  BY <1>1 DEF ConvertedFrom, Building
<1>8. CASE w # 0 /\ newsidtab' = Converted(newsidtab, n, w)
  <2> DEFINE e == Node(n.sid, w)
  <2>1. /\ TableGood(newsidtab') /\ newsidtab'.next_sid = newsidtab.next_sid
        /\ Nodes(newsidtab') = (Nodes(newsidtab) \ {n}) \cup {e}
    BY <1>2, <1>4, <1>5, <1>8, ConvertGood
  <2>2. ConvertedFrom(n, e)
    BY <1>8 DEF ConvertedFrom, Node, w
  <2> HIDE DEF e
  <2>3. ASSUME NEW m \in Nodes(newsidtab') \ left'
        PROVE  \E o \in Nodes(sidtab) : ConvertedFrom(o, m)
    <3>1. CASE m = e
      BY <1>5, <2>2, <3>1
    <3>2. CASE m # e
      BY <1>1, <1>2, <2>1, <3>2
    <3> QED
      BY <3>1, <3>2
  <2>4. left' \subseteq Nodes(newsidtab')
    BY <1>6, <2>1
  <2>5. ConvertOK'
    BY <1>1, <1>2, <1>6, <1>7, <2>1, <2>3, <2>4 DEF ConvertOK, Building
  <2>6. IsidsOK' /\ CloneOK'
    BY <1>1 DEF IsidsOK, CloneOK
  <2> QED
    BY <1>1, <2>1, <2>5, <2>6, BuildingKeeps
<1>9. CASE newsidtab' = Unlinked(newsidtab, n)
  <2>1. /\ TableGood(newsidtab') /\ newsidtab'.next_sid = newsidtab.next_sid
        /\ Nodes(newsidtab') = Nodes(newsidtab) \ {n}
    BY <1>2, <1>5, <1>9, UnlinkGood
  <2>2. ASSUME NEW m \in Nodes(newsidtab') \ left'
        PROVE  \E o \in Nodes(sidtab) : ConvertedFrom(o, m)
    BY <1>1, <1>2, <2>1
  <2>3. left' \subseteq Nodes(newsidtab')
    BY <1>6, <2>1
  <2>4. ConvertOK'
    BY <1>1, <1>2, <1>6, <1>7, <2>1, <2>2, <2>3 DEF ConvertOK, Building
  <2>5. IsidsOK' /\ CloneOK'
    BY <1>1 DEF IsidsOK, CloneOK
  <2> QED
    BY <1>1, <2>1, <2>4, <2>5, BuildingKeeps
<1> QED
  BY <1>1, <1>8, <1>9
LEMMA InstallStep == Inv /\ Install => Inv'
<1> SUFFICES ASSUME Inv, Install PROVE Inv'
  OBVIOUS
<1> DEFINE t == sepol_sidtab_set(newsidtab)
<1>1. /\ phase = "convert" /\ left = {} /\ Fresh(newpolicydb, t)
      /\ dropped' = SidsIn(sidtab) \ SidsIn(newsidtab)
  BY DEF Install
<1>2. /\ newpolicydb \in Policies
      /\ \A n \in Nodes(newsidtab) : \E m \in Nodes(sidtab) : ConvertedFrom(m, n)
      /\ \A n \in Nodes(sidtab) : n.sid < newsidtab.next_sid
      /\ TableGood(sidtab) /\ TableGood(newsidtab)
  BY <1>1 DEF Inv, ConvertOK
<1>3. TableGood(t) /\ Nodes(t) = Nodes(newsidtab) /\ t.next_sid = newsidtab.next_sid
  BY <1>2, FlagGood DEF sepol_sidtab_set
<1> HIDE DEF t
<1>4. \A n \in Nodes(t) : n.context \in newpolicydb.valid
  BY <1>2, <1>3 DEF ConvertedFrom, convert_context
<1>5. sidtab' = t
  BY <1>1 DEF Fresh
<1>6. DroppedOK'
  <2>1. Nodes(sidtab) \subseteq NodeType
    BY <1>2, NodesOf
  <2>2. \A sid \in SidsIn(sidtab) : sid \in Sids /\ sid < t.next_sid
    BY <1>2, <1>3, <2>1 DEF SidsIn, NodeType
  <2>3. SidsIn(t) = SidsIn(newsidtab)
    BY <1>3 DEF SidsIn
  <2> QED
    BY <1>1, <1>5, <2>2, <2>3 DEF DroppedOK
<1> QED
  BY <1>1, <1>2, <1>3, <1>4, <1>6, FreshStep

LEMMA ClassChangedStep == ASSUME Inv, NEW p, ClassChanged(p) PROVE Inv'
<1>1. UNCHANGED <<policy, sidtab, osids, job, dropped, phase, newpolicydb, newsidtab, left>> /\ out' = Null
  BY DEF ClassChanged, loading
<1>2. IsidsOK' /\ CloneOK' /\ ConvertOK'
  <2>1. phase = "calls"
    BY DEF ClassChanged, Ready
  <2> QED
    BY <1>1, <2>1 DEF IsidsOK, CloneOK, ConvertOK
<1>3. TableGood(sidtab') /\ Nodes(sidtab') = Nodes(sidtab) /\ sidtab'.next_sid = sidtab.next_sid
  BY <1>1 DEF Inv
<1>4. ContextsValid' /\ ObjectsOK' /\ DroppedOK' /\ JobOK'
  BY <1>1, <1>3, SameObjects
<1> QED
  BY <1>1, <1>2, <1>3, <1>4 DEF Inv

LEMMA UnreadableStep == Inv /\ UnreadablePolicy => Inv'
<1> SUFFICES ASSUME Inv, UnreadablePolicy PROVE Inv'
  OBVIOUS
<1>1. /\ UNCHANGED <<sidtab, job, dropped, phase, newpolicydb, newsidtab, left>>
      /\ job.left = <<>> /\ phase = "calls"
  BY DEF UnreadablePolicy, Ready, loading
<1>2. IsidsOK' /\ CloneOK' /\ ConvertOK' /\ JobOK' /\ DroppedOK'
  BY <1>1 DEF Inv, IsidsOK, CloneOK, ConvertOK, JobOK, DroppedOK
<1>3. CASE policy' = NoPolicy
  <2>1. ContextsValid' /\ ObjectsOK'
    BY <1>3 DEF ContextsValid, ObjectsOK
  <2> QED
    BY <1>1, <1>2, <1>3, <2>1 DEF Inv
<1>4. CASE UNCHANGED <<policy, osids>>
  <2>1. ContextsValid' /\ ObjectsOK'
    BY <1>1, <1>4 DEF Inv, ContextsValid, ObjectsOK
  <2> QED
    BY <1>1, <1>2, <1>4, <2>1 DEF Inv
<1> QED
  BY <1>3, <1>4 DEF UnreadablePolicy

LEMMA FromFileStep == ASSUME Inv, NEW p \in Policies, sepol_set_policydb_from_file(p) PROVE Inv'
<1>1. Fresh(p, sepol_sidtab_init) /\ dropped' = {}
  BY DEF sepol_set_policydb_from_file
<1>2. TableGood(sepol_sidtab_init) /\ \A n \in Nodes(sepol_sidtab_init) : n.context \in p.valid
  BY EmptyTable
<1>3. DroppedOK'
  BY <1>1 DEF DroppedOK
<1> QED
  BY <1>1, <1>2, <1>3, FreshStep

LEMMA InvStep == Inv /\ [Next]_vars => Inv'
<1> SUFFICES ASSUME Inv, [Next]_vars PROVE Inv'
  OBVIOUS
<1>1. CASE policydb_load_isids
  BY <1>1, LoadIsidsStep
<1>2. CASE sepol_set_sidtab
  BY <1>2, SetSidtabStep
<1>3. CASE IsidFails
  <2>1. Building /\ LoadEnds /\ phase # "calls"
    BY <1>3 DEF IsidFails, Building
  <2> QED
    BY <2>1, LoadEndsStep
<1>4. CASE \/ \E l \in Labels : policy # NoPolicy /\ sepol_context_to_sid(l)
           \/ \E o \in DOMAIN policy.ocontexts : ObjectSids(o)
           \/ policy # NoPolicy /\ \E u \in DOMAIN policy.users : sepol_get_user_sids(u)
  <2>1. (\E o \in DOMAIN policy.ocontexts : ObjectSids(o)) => policy # NoPolicy
    BY DEF ObjectSids, Start, Ready
  <2> QED
    BY <1>4, <2>1, CallsStep
<1>5. CASE NextSid
  BY <1>5, NextSidStep
<1>6. CASE \E p \in Policies : sepol_load_policy(p) \/ ClassChanged(p) \/ sepol_set_policydb_from_file(p)
  BY <1>6, LoadPolicyStep, ClassChangedStep, FromFileStep
<1>7. CASE CloneSid
  BY <1>7, CloneSidStep
<1>8. CASE CloneFails
  <2>1. Building /\ LoadEnds /\ phase # "calls"
    BY <1>8 DEF CloneFails, Building
  <2> QED
    BY <2>1, LoadEndsStep
<1>9. CASE Cloned
  BY <1>9, ClonedStep
<1>10. CASE ConvertContext
  BY <1>10, ConvertStep
<1>11. CASE Install
  BY <1>11, InstallStep
<1>12. CASE UnreadablePolicy
  BY <1>12, UnreadableStep
<1>13. CASE UNCHANGED vars
  <2>1. /\ UNCHANGED <<policy, sidtab, osids, job, dropped, phase, newpolicydb, newsidtab, left, out>>
    BY <1>13 DEF vars, loading
  <2>2. ContextsValid' /\ JobOK' /\ ObjectsOK' /\ DroppedOK'
    BY <2>1 DEF Inv, ContextsValid, JobOK, ObjectsOK, DroppedOK
  <2>3. IsidsOK' /\ CloneOK' /\ ConvertOK'
    <3>1. \A m, n : ConvertedFrom(m, n)' <=> ConvertedFrom(m, n)
      BY <2>1 DEF ConvertedFrom
    <3> QED
      BY <2>1, <3>1 DEF Inv, IsidsOK, CloneOK, ConvertOK
  <2> QED
    BY <2>1, <2>2, <2>3 DEF Inv
<1> QED
  BY <1>1, <1>2, <1>3, <1>4, <1>5, <1>6, <1>7, <1>8, <1>9, <1>10, <1>11, <1>12, <1>13 DEF Next

LEMMA InvHolds == Spec => []Inv
BY InvInit, InvStep, PTL DEF Spec

-----------------------------------------------------------------------------
(***************************************************************************)
(* The properties.                                                         *)
(***************************************************************************)
LEMMA InvTableOK == Inv => TableOK
<1> SUFFICES ASSUME Inv PROVE TableOK
  OBVIOUS
<1>1. TableGood(sidtab) /\ ContextsValid
  BY DEF Inv
<1>2. ASSUME NEW h \in Hash
      PROVE  LET chain == sidtab.htable[h] IN
                /\ \A i \in DOMAIN chain : SIDTAB_HASH(chain[i].sid) = h /\ chain[i].sid < sidtab.next_sid
                /\ \A i \in 1 .. Len(chain) - 1 : chain[i].sid < chain[i + 1].sid
  <2> DEFINE chain == sidtab.htable[h]
  <2>1. ChainOK(chain, h, sidtab.next_sid)
    BY <1>1 DEF TableGood
  <2> HIDE DEF chain
  <2>2. DOMAIN chain = 1 .. Len(chain) /\ Len(chain) \in Nat
    BY <2>1, LenProperties DEF ChainOK
  <2>3. \A i \in 1 .. Len(chain) - 1 : chain[i].sid < chain[i + 1].sid
    <3> SUFFICES ASSUME NEW i \in 1 .. Len(chain) - 1 PROVE chain[i].sid < chain[i + 1].sid
      OBVIOUS
    <3>1. i \in 1 .. Len(chain) /\ i + 1 \in 1 .. Len(chain) /\ i < i + 1
      BY <2>2
    <3> QED
      BY <2>1, <3>1 DEF ChainOK
  <2>4. \A i \in DOMAIN chain : SIDTAB_HASH(chain[i].sid) = h /\ chain[i].sid < sidtab.next_sid
    BY <2>1, <2>2 DEF ChainOK
  <2> QED
    BY <2>3, <2>4 DEF chain
<1>3. sidtab.nel = Cardinality(Nodes(sidtab)) /\ sidtab.next_sid \in Sids
  BY <1>1 DEF TableGood, TableType
<1> QED
  BY <1>1, <1>2, <1>3 DEF TableOK, ContextsValid

(* Whatever was requested, loaded, removed or failed, the SID table stays
   sorted, counts its nodes, keeps next_sid above every SID and holds only
   contexts that are valid in the policy in force (TableOK), for every set of
   policies and any number of SIDs and buckets. *)
THEOREM TableStaysOK == Spec => []TableOK
BY InvHolds, InvTableOK, PTL

LEMMA InvObjects == Inv => ObjectSidsCurrent
<1> SUFFICES ASSUME Inv, policy # NoPolicy,
                    NEW o \in DOMAIN osids, NEW i \in DOMAIN osids[o], osids[o][i] # Null
             PROVE  /\ osids[o][i] \in SidsIn(sidtab)
                    /\ ContextOf(sidtab, osids[o][i]) = policy.ocontexts[o][i]
  BY DEF ObjectSidsCurrent
<1>1. /\ osids = [q \in DOMAIN policy.ocontexts |-> osids[q]]
      /\ \A q \in DOMAIN policy.ocontexts : osids[q] = [k \in DOMAIN policy.ocontexts[q] |-> osids[q][k]]
  BY DEF Inv, ObjectsOK
<1>2. o \in DOMAIN policy.ocontexts /\ i \in DOMAIN policy.ocontexts[o]
  BY <1>1
<1> DEFINE n == Node(osids[o][i], policy.ocontexts[o][i])
<1>3. n \in Nodes(sidtab)
  BY <1>2 DEF Inv, ObjectsOK
<1>4. n.sid = osids[o][i] /\ n.context = policy.ocontexts[o][i]
  BY DEF Node
<1> HIDE DEF n
<1>5. ContextOf(sidtab, n.sid) = n.context
  BY <1>3, SearchFinds DEF Inv
<1> QED
  BY <1>3, <1>4, <1>5 DEF SidsIn

(* The SID cached in an object context (sid[0], sid[1] of an ocontext_t) is in
   the table in force and names that object's context: a request that fails
   half way and a load that replaces the table leave no SID of another one. *)
THEOREM ObjectSidsStayCurrent == Spec => []ObjectSidsCurrent
BY InvHolds, InvObjects, PTL

LEMMA InvDropped == Inv => DroppedUnlabeled
<1> SUFFICES ASSUME Inv, NEW sid \in dropped
             PROVE  sepol_sidtab_search(sidtab, sid) = sepol_sidtab_search(sidtab, Unlabeled)
  BY DEF DroppedUnlabeled
<1>1. sid \in Sids /\ sid \notin SidsIn(sidtab) /\ TableGood(sidtab)
  BY DEF Inv, DroppedOK
<1>2. ~Holds(sidtab, sid)
  BY <1>1, SearchFinds
<1> QED
  BY <1>2 DEF sepol_sidtab_search

(* A SID that the last load removed reads as unlabeled for as long as that
   policy is in force: sepol_sidtab_context_to_sid never gives it to another
   context. *)
THEOREM DroppedStayUnlabeled == Spec => []DroppedUnlabeled
BY InvHolds, InvDropped, PTL
-----------------------------------------------------------------------------
(***************************************************************************)
(* The refinement: initial states map to initial states of SidMap, every   *)
(* step to a step of SidMap or to a stutter.                               *)
(***************************************************************************)
\* What a SID names once calls are possible.
LEMMA NamedIs ==
    ASSUME Inv, policy # NoPolicy, phase # "isids"
    PROVE  /\ Named = [s \in SidsIn(sidtab) |-> policy.name[ContextOf(sidtab, s)]]
           /\ \A n \in Nodes(sidtab) : n.sid \in DOMAIN Named /\ Named[n.sid] = policy.name[n.context]
<1>1. Named = [s \in SidsIn(sidtab) |-> policy.name[ContextOf(sidtab, s)]]
  BY DEF Named
<1>2. \A n \in Nodes(sidtab) : n.sid \in SidsIn(sidtab) /\ ContextOf(sidtab, n.sid) = n.context
  BY SearchFinds DEF Inv, SidsIn
<1> QED
  BY <1>1, <1>2

\* Outside of a call nothing is asked for; in one, it is the name of a valid
\* context.
LEMMA AskedIs ==
    ASSUME Inv
    PROVE  /\ job.left = <<>> => Asked = Null
           /\ job.left # <<>> => /\ Head(job.left) \in policy.valid
                                 /\ Asked = policy.name[Head(job.left)]
                                 /\ Asked \in Labels
<1>1. CASE job.left = <<>>
  BY <1>1 DEF Asked
<1>2. CASE job.left # <<>>
  <2>1. policy \in Policies /\ job.left \in Seq(policy.valid)
    BY <1>2 DEF Inv, JobOK
  <2>2. Head(job.left) \in policy.valid
    BY <1>2, <2>1, HeadTailProperties
  <2> QED
    BY <1>2, <2>1, <2>2, PolicyFacts DEF Asked
<1> QED
  BY <1>1, <1>2

AbstractStep == Map!Next \/ UNCHANGED <<Named, Asked, out>>

LEMMA AskedNext == ASSUME Inv' PROVE Asked' \in Labels \cup {Null}
<1>1. CASE job'.left = <<>>
  BY <1>1 DEF Asked
<1>2. CASE job'.left # <<>>
  <2>1. policy' \in Policies /\ job'.left \in Seq(policy'.valid)
    BY <1>2 DEF Inv, JobOK
  <2>2. Head(job'.left) \in policy'.valid
    BY <1>2, <2>1, HeadTailProperties
  <2> QED
    BY <1>2, <2>1, <2>2, PolicyFacts DEF Asked
<1> QED
  BY <1>1, <1>2

\* A step that keeps the map and returns no SID.
LEMMA NothingStep == ASSUME Inv', Named' = Named, out' = Null PROVE AbstractStep
BY AskedNext DEF AbstractStep, Map!Next, Map!Nothing

\* A step after which no SID names anything.
LEMMA ClearedStep ==
    ASSUME Inv', job.left = <<>>, Named' = [s \in {} |-> Null], out' = Null, NEW p \in Policies
    PROVE  AbstractStep
<1>1. Asked = Null
  BY DEF Asked
<1> DEFINE f == PrimaryNames(p)
<1>2. f \in {PrimaryNames(q) : q \in Policies}
  OBVIOUS
<1> HIDE DEF f
<1>3. Named' = [s \in {} |-> f[Named[s]]]
  OBVIOUS
<1>4. Map!Reload
  BY <1>1, <1>2, <1>3 DEF Map!Reload
<1> QED
  BY <1>4, AskedNext DEF AbstractStep, Map!Next

LEMMA MapInit == Init => Map!Init
<1> SUFFICES ASSUME Init PROVE Map!Init
  OBVIOUS
<1>1. PICK p \in Policies : newpolicydb = p
  BY DEF Init
<1>2. Named = [s \in DOMAIN p.isids |-> p.name[p.isids[s]]]
  BY <1>1 DEF Named, Init
<1>3. DOMAIN p.isids \in SUBSET Sids /\ \A s \in DOMAIN p.isids : p.isids[s] \in p.valid
  BY PoliciesAssumption DEF WellFormed
<1>4. \A s \in DOMAIN p.isids : p.name[p.isids[s]] \in Labels
  BY <1>3, PolicyFacts
<1>5. Named \in [DOMAIN p.isids -> Labels]
  BY <1>2, <1>4
<1>6. Asked = Null /\ out = Null
  BY DEF Init, Asked, NoJob
<1> QED
  BY <1>3, <1>5, <1>6 DEF Map!Init
\* The first table names exactly what the policy says of its initial SIDs.
LEMMA SetSidtabMaps == ASSUME Inv, Inv', sepol_set_sidtab PROVE AbstractStep
<1>1. /\ phase = "isids" /\ left = {} /\ policy' = newpolicydb /\ sidtab' = newsidtab
      /\ out' = Null /\ phase' = "calls"
  BY DEF sepol_set_sidtab, Fresh, LoadEnds
<1>2. newpolicydb \in Policies /\ Nodes(newsidtab) = IsidNodes(newpolicydb) /\ job.left = <<>>
      /\ TableGood(newsidtab)
  BY <1>1 DEF Inv, IsidsOK, JobOK
<1>3. CASE policy' = NoPolicy
  <2>1. Named' = [s \in {} |-> Null]
    BY <1>1, <1>3 DEF Named
  <2> QED
    BY <1>1, <1>2, <2>1, ClearedStep
<1>4. CASE policy' # NoPolicy
  <2> DEFINE p == newpolicydb
  <2>1. Named = [s \in DOMAIN p.isids |-> p.name[p.isids[s]]]
    BY <1>1 DEF Named
  <2>2. Named' = [s \in SidsIn(newsidtab) |-> p.name[ContextOf(newsidtab, s)]]
    BY <1>1, <1>4 DEF Named
  <2>3. \A n \in IsidNodes(p) : n.sid \in DOMAIN p.isids /\ n.context = p.isids[n.sid]
    BY <1>2, IsidFacts
  <2>4. ASSUME NEW s \in DOMAIN p.isids
        PROVE  s \in SidsIn(newsidtab) /\ ContextOf(newsidtab, s) = p.isids[s]
    <3> DEFINE n == Node(s, p.isids[s])
    <3>1. n \in Nodes(newsidtab) /\ n.sid = s /\ n.context = p.isids[s]
      BY <1>2 DEF IsidNodes, Node
    <3> HIDE DEF n
    <3>2. ContextOf(newsidtab, n.sid) = n.context
      BY <1>2, <3>1, SearchFinds
    <3> QED
      BY <3>1, <3>2 DEF SidsIn
  <2>5. SidsIn(newsidtab) = DOMAIN p.isids
    BY <1>2, <2>3, <2>4 DEF SidsIn
  <2>6. Named' = Named
    BY <2>1, <2>2, <2>4, <2>5
  <2> QED
    BY <1>1, <2>6, NothingStep
<1> QED
  BY <1>3, <1>4

LEMMA IsidFailsMaps == ASSUME Inv, Inv', IsidFails PROVE AbstractStep
<1>1. phase = "isids" /\ policy' = policy /\ out' = out /\ phase' = "calls"
  BY DEF IsidFails, LoadEnds
<1>2. policy = NoPolicy /\ out = Null /\ newpolicydb \in Policies /\ job.left = <<>>
  BY <1>1 DEF Inv, IsidsOK, JobOK
<1>3. Named' = [s \in {} |-> Null]
  BY <1>1, <1>2 DEF Named
<1> QED
  BY <1>1, <1>2, <1>3, ClearedStep

\* A step that leaves the table and the policy in force alone.
LEMMA SameNamed ==
    ASSUME UNCHANGED <<policy, sidtab>>, phase # "isids", phase' # "isids"
    PROVE  Named' = Named
BY DEF Named

LEMMA StartMaps == ASSUME Inv', NEW o, NEW contexts, Start(o, contexts) PROVE AbstractStep
<1>1. UNCHANGED <<policy, sidtab>> /\ phase # "isids" /\ phase' # "isids" /\ out' = Null
  BY DEF Start, Ready, loading
<1> QED
  BY <1>1, SameNamed, NothingStep

\* A request is answered with the SID of the context asked for, or with a SID
\* that named nothing, or not at all.
LEMMA NextSidMaps == ASSUME Inv, Inv', NextSid PROVE AbstractStep
<1> DEFINE c == Head(job.left)
<1>1. job.left # <<>> /\ policy' = policy /\ phase' = phase
  BY DEF NextSid, loading
<1>2. PICK r \in sepol_sidtab_context_to_sid(sidtab, c) : sidtab' = r.table /\ out' = r.sid
  BY DEF NextSid
<1>3. phase = "calls" /\ policy # NoPolicy /\ policy \in Policies /\ TableGood(sidtab)
  BY <1>1 DEF Inv, JobOK
<1>4. c \in policy.valid /\ Asked = policy.name[c] /\ Asked \in Labels
  BY <1>1, AskedIs
<1>5. c \in Contexts
  BY <1>3, <1>4, PolicyFacts
<1> HIDE DEF c
<1>6. Unsuccessful(sidtab, r) \/ Found(sidtab, c, r) \/ Added(sidtab, c, r)
  BY <1>2, <1>3, <1>5, ContextToSid
<1>7. /\ Named = [s \in SidsIn(sidtab) |-> policy.name[ContextOf(sidtab, s)]]
      /\ \A n \in Nodes(sidtab) : n.sid \in DOMAIN Named /\ Named[n.sid] = policy.name[n.context]
  BY <1>3, NamedIs
<1>8. Named' = [s \in SidsIn(sidtab') |-> policy.name[ContextOf(sidtab', s)]]
  BY <1>1, <1>3 DEF Named
<1>9. CASE Unsuccessful(sidtab, r)
  <2>1. out' = Null /\ sidtab' = sidtab
    BY <1>2, <1>9 DEF Unsuccessful
  <2>2. Named' = Named
    BY <1>7, <1>8, <2>1
  <2> QED
    BY <2>1, <2>2, NothingStep
<1>10. CASE Found(sidtab, c, r)
  <2>1. sidtab' = sidtab /\ Node(r.sid, c) \in Nodes(sidtab)
    BY <1>2, <1>10 DEF Found
  <2>2. Named' = Named
    BY <1>7, <1>8, <2>1
  <2>3. r.sid \in DOMAIN Named /\ Named[r.sid] = Asked
    BY <1>4, <1>7, <2>1 DEF Node
  <2>4. Map!Known
    BY <1>2, <2>2, <2>3 DEF Map!Known
  <2> QED
    BY <2>4, AskedNext DEF AbstractStep, Map!Next
<1>11. CASE Added(sidtab, c, r)
  <2>1. /\ r.sid \in Sids /\ r.sid \notin SidsIn(sidtab)
        /\ \A n \in Nodes(sidtab) : n.context # c
        /\ Nodes(sidtab') = Nodes(sidtab) \cup {Node(r.sid, c)}
    BY <1>2, <1>11 DEF Added
  <2>2. TableGood(sidtab')
    BY DEF Inv
  <2> DEFINE e == Node(r.sid, c)
  <2>e. e.sid = r.sid /\ e.context = c /\ Nodes(sidtab') = Nodes(sidtab) \cup {e}
    BY <2>1 DEF Node
  <2> HIDE DEF e
  <2>3. SidsIn(sidtab') = SidsIn(sidtab) \cup {r.sid}
    BY <2>e, Zenon DEF SidsIn
  <2>4. \A n \in Nodes(sidtab') : ContextOf(sidtab', n.sid) = n.context
    BY <2>2, SearchFinds
  <2>5. ContextOf(sidtab', r.sid) = c
    BY <2>e, <2>4
  <2>6. ASSUME NEW s \in SidsIn(sidtab) PROVE ContextOf(sidtab', s) = ContextOf(sidtab, s)
    <3>1. PICK n \in Nodes(sidtab) : n.sid = s
      BY DEF SidsIn
    <3>2. ContextOf(sidtab, s) = n.context
      BY <1>3, <3>1, SearchFinds
    <3> QED
      BY <2>1, <2>4, <3>1, <3>2
  <2>7. DOMAIN Named = SidsIn(sidtab)
    BY <1>7
  <2>8. Named' = [t \in DOMAIN Named \cup {r.sid} |-> IF t = r.sid THEN Asked ELSE Named[t]]
    BY <1>4, <1>7, <1>8, <2>1, <2>3, <2>5, <2>6, <2>7
  <2>9. \A s \in DOMAIN Named : Named[s] # Asked
    <3> SUFFICES ASSUME NEW s \in SidsIn(sidtab), Named[s] = Asked PROVE FALSE
      BY <2>7
    <3>1. PICK n \in Nodes(sidtab) : n.sid = s
      BY DEF SidsIn
    <3>2. policy.name[n.context] = policy.name[c]
      BY <1>4, <1>7, <3>1
    <3>3. n.context \in policy.valid
      BY <1>3 DEF Inv, ContextsValid
    <3>4. policy.value[policy.name[n.context]] = n.context /\ policy.value[policy.name[c]] = c
      BY <1>3, <1>4, <3>3, PolicyFacts
    <3> QED
      BY <2>1, <3>2, <3>4
  <2>10. r.sid \in Sids \ DOMAIN Named
    BY <2>1, <2>7
  <2>11. Map!New
    BY <1>2, <1>4, <2>8, <2>9, <2>10 DEF Map!New
  <2> QED
    BY <2>11, AskedNext DEF AbstractStep, Map!Next
<1> QED
  BY <1>6, <1>9, <1>10, <1>11

LEMMA LoadPolicyMaps == ASSUME Inv, Inv', NEW p, sepol_load_policy(p) PROVE AbstractStep
<1>1. /\ policy' = policy /\ phase = "calls" /\ phase' = "clone" /\ out' = Null
      /\ sidtab' = [sidtab EXCEPT !.shutdown = TRUE]
  BY DEF sepol_load_policy, Ready, sepol_sidtab_shutdown
<1>2. sidtab'.htable = sidtab.htable
  BY <1>1 DEF Inv, TableGood, TableType
<1>3. SidsIn(sidtab') = SidsIn(sidtab) /\ \A s : ContextOf(sidtab', s) = ContextOf(sidtab, s)
  BY <1>2 DEF SidsIn, Nodes, ContextOf
<1>4. Named' = Named
  BY <1>1, <1>3 DEF Named
<1> QED
  BY <1>1, <1>4, NothingStep

\* Loading drops SIDs, and every other one follows the names of the new policy.
LEMMA InstallMaps == ASSUME Inv, Inv', Install PROVE AbstractStep
<1> DEFINE p == newpolicydb
           f == PrimaryNames(p)
           S == SidsIn(newsidtab)
<1>1. /\ phase = "convert" /\ left = {} /\ policy' = p /\ sidtab' = sepol_sidtab_set(newsidtab)
      /\ out' = Null /\ phase' = "calls"
  BY DEF Install, Fresh, LoadEnds
<1>2. /\ p \in Policies /\ policy # NoPolicy /\ policy \in Policies /\ job.left = <<>>
      /\ \A n \in Nodes(newsidtab) : \E m \in Nodes(sidtab) : ConvertedFrom(m, n)
      /\ TableGood(newsidtab) /\ TableGood(sidtab)
  BY <1>1 DEF Inv, ConvertOK, JobOK
<1>3. Asked = Null
  BY <1>2 DEF Asked
<1>4. CASE policy' = NoPolicy
  <2>1. Named' = [s \in {} |-> Null]
    BY <1>1, <1>4 DEF Named
  <2> QED
    BY <1>1, <1>2, <2>1, ClearedStep
<1>5. CASE policy' # NoPolicy
  <2>1. sidtab'.htable = newsidtab.htable
    BY <1>1, <1>2 DEF sepol_sidtab_set, TableGood, TableType
  <2>2. Nodes(sidtab') = Nodes(newsidtab) /\ \A s : ContextOf(sidtab', s) = ContextOf(newsidtab, s)
    BY <2>1 DEF Nodes, ContextOf
  <2>3. SidsIn(sidtab') = S
    BY <2>2 DEF SidsIn
  <2>4. Named' = [s \in S |-> p.name[ContextOf(newsidtab, s)]]
    BY <1>1, <1>5, <2>2, <2>3 DEF Named
  <2>5. ASSUME NEW s \in S
        PROVE  s \in DOMAIN Named /\ p.name[ContextOf(newsidtab, s)] = f[Named[s]]
    <3>1. PICK n \in Nodes(newsidtab) : n.sid = s
      BY DEF SidsIn
    <3>2. ContextOf(newsidtab, s) = n.context
      BY <1>2, <3>1, SearchFinds
    <3>3. PICK m \in Nodes(sidtab) : ConvertedFrom(m, n)
      BY <1>2
    <3>4. s \in DOMAIN Named /\ Named[s] = policy.name[m.context]
      BY <1>1, <1>2, <3>1, <3>3, NamedIs DEF ConvertedFrom
    <3>5. m.context \in policy.valid
      BY <1>2 DEF Inv, ContextsValid
    <3>6. policy.name[m.context] \in Labels
      BY <1>2, <3>5, PolicyFacts
    <3>7. n.context = p.value[policy.name[m.context]] /\ n.context # 0
      BY <3>3 DEF ConvertedFrom, convert_context
    <3>8. f[policy.name[m.context]] = p.name[n.context]
      BY <3>6, <3>7 DEF PrimaryNames
    <3> QED
      BY <3>2, <3>4, <3>8
  <2>6. S \in SUBSET DOMAIN Named /\ f \in {PrimaryNames(q) : q \in Policies}
    BY <1>2, <2>5
  <2>7. Named' = [s \in S |-> f[Named[s]]]
    <3> HIDE DEF f, S
    <3> QED
      BY <2>4, <2>5
  <2> HIDE DEF f, S
  <2>8. Map!Reload
    BY <1>1, <1>3, <2>6, <2>7 DEF Map!Reload
  <2> QED
    BY <2>8, AskedNext DEF AbstractStep, Map!Next
<1> QED
  BY <1>4, <1>5

LEMMA UnreadableMaps == ASSUME Inv, Inv', UnreadablePolicy PROVE AbstractStep
<1>1. /\ sidtab' = sidtab /\ out' = Null /\ phase = "calls" /\ phase' = "calls"
      /\ job.left = <<>> /\ policy # NoPolicy
  BY DEF UnreadablePolicy, Ready, loading
<1>2. CASE policy' = NoPolicy
  <2>1. Named' = [s \in {} |-> Null]
    BY <1>1, <1>2 DEF Named
  <2>2. policy \in Policies
    BY <1>1 DEF Inv
  <2> QED
    BY <1>1, <2>1, <2>2, ClearedStep
<1>3. CASE policy' = policy
  BY <1>1, <1>3, SameNamed, NothingStep
<1> QED
  BY <1>2, <1>3 DEF UnreadablePolicy

LEMMA FromFileMaps ==
    ASSUME Inv, Inv', NEW p \in Policies, sepol_set_policydb_from_file(p) PROVE AbstractStep
<1>1. /\ job.left = <<>> /\ policy' = p /\ sidtab' = sepol_sidtab_init /\ out' = Null /\ phase' = "calls"
  BY DEF sepol_set_policydb_from_file, Fresh, LoadEnds
<1>2. SidsIn(sidtab') = {}
  BY <1>1, EmptyTable DEF SidsIn
<1>3. Named' = [s \in {} |-> Null]
  <2>1. CASE policy' = NoPolicy
    BY <1>1, <2>1 DEF Named
  <2>2. CASE policy' # NoPolicy
    <3>1. Named' = [s \in {} |-> policy'.name[ContextOf(sidtab', s)]]
      BY <1>1, <1>2, <2>2 DEF Named
    <3> QED
      BY <3>1
  <2> QED
    BY <2>1, <2>2
<1> QED
  BY <1>1, <1>3, ClearedStep

LEMMA MapStep == Inv /\ Inv' /\ [Next]_vars => AbstractStep
<1> SUFFICES ASSUME Inv, Inv', [Next]_vars PROVE AbstractStep
  OBVIOUS
<1>1. CASE policydb_load_isids
  <2>1. UNCHANGED <<policy, sidtab, phase, newpolicydb, job, out>> /\ phase = "isids"
    BY <1>1 DEF policydb_load_isids
  <2>2. UNCHANGED <<Named, Asked, out>>
    BY <2>1 DEF Named, Asked
  <2> QED
    BY <2>2 DEF AbstractStep
<1>2. CASE sepol_set_sidtab
  BY <1>2, SetSidtabMaps
<1>3. CASE IsidFails
  BY <1>3, IsidFailsMaps
<1>4. CASE \/ \E l \in Labels : policy # NoPolicy /\ sepol_context_to_sid(l)
           \/ \E o \in DOMAIN policy.ocontexts : ObjectSids(o)
           \/ policy # NoPolicy /\ \E u \in DOMAIN policy.users : sepol_get_user_sids(u)
  BY <1>4, StartMaps DEF sepol_context_to_sid, ObjectSids, sepol_get_user_sids
<1>5. CASE NextSid
  BY <1>5, NextSidMaps
<1>6. CASE \E p \in Policies : sepol_load_policy(p)
  BY <1>6, LoadPolicyMaps
<1>7. CASE \E p \in Policies : ClassChanged(p)
  <2>1. UNCHANGED <<policy, sidtab>> /\ phase # "isids" /\ phase' # "isids" /\ out' = Null
    BY <1>7 DEF ClassChanged, Ready, loading
  <2> QED
    BY <2>1, SameNamed, NothingStep
<1>8. CASE \E p \in Policies : sepol_set_policydb_from_file(p)
  BY <1>8, FromFileMaps
<1>9. CASE CloneSid \/ CloneFails \/ Cloned \/ ConvertContext
  <2>1. UNCHANGED <<policy, sidtab, job, out>> /\ phase # "isids" /\ phase' # "isids"
    BY <1>9 DEF CloneSid, CloneFails, Cloned, ConvertContext, LoadEnds
  <2>2. Asked' = Asked /\ Named' = Named
    BY <2>1, SameNamed DEF Asked
  <2> QED
    BY <2>1, <2>2 DEF AbstractStep
<1>10. CASE Install
  BY <1>10, InstallMaps
<1>11. CASE UnreadablePolicy
  BY <1>11, UnreadableMaps
<1>12. CASE UNCHANGED vars
  <2>1. UNCHANGED <<policy, sidtab, job, out, phase, newpolicydb>>
    BY <1>12 DEF vars, loading
  <2> QED
    BY <2>1 DEF AbstractStep, Named, Asked
<1> QED
  BY <1>1, <1>2, <1>3, <1>4, <1>5, <1>6, <1>7, <1>8, <1>9, <1>10, <1>11, <1>12 DEF Next

(* The security server implements SidMap: its clients see a map from SIDs to
   context strings in which a request is answered with the SID of the string
   asked for, no other entry changes, and a load drops entries or follows the
   new policy's names, although sepol_load_policy renumbers every context of
   the table it clones. *)
THEOREM RefinesSidMap == Spec => ImplementsSidMap
<1>1. Init => Map!Init
  BY MapInit
<1>2. Inv /\ Inv' /\ [Next]_vars => [Map!Next]_<<Named, Asked, out>>
  BY MapStep DEF AbstractStep
<1> QED
  BY <1>1, <1>2, InvHolds, PTL DEF Spec, ImplementsSidMap, Map!Spec
=============================================================================
