--------------------------- MODULE Ebitmap_proofs ---------------------------
(***************************************************************************)
(* The ebitmap is an implementation of sets, for every size of a node's    *)
(* map, every width of a bit number and any number of bitmaps.             *)
(***************************************************************************)
EXTENDS Ebitmap, Induction, SequenceTheorems, FiniteSetTheorems

-----------------------------------------------------------------------------
(***************************************************************************)
(* Loops.                                                                  *)
(***************************************************************************)
\* What n turns leave is in the last of a family of sets if the start is in
\* the first and a turn leads from each into the next.
LEMMA LoopInvariant ==
  ASSUME NEW n \in Nat, NEW start, NEW turn, NEW V,
         start \in V[0],
         \A k \in 1 .. n : \A w \in V[k - 1] : turn[w] \in V[k]
  PROVE  Loop(n, start, turn) \in V[n]
<1> DEFINE Built(k, f) == /\ f = [i \in 0 .. k |-> f[i]] /\ f[0] = start
                          /\ \A i \in 1 .. k : f[i] = turn[f[i - 1]]
           S == {k \in 0 .. n : \E f : Built(k, f)}
           P(f) == f = [k \in 0 .. n |-> IF k = 0 THEN start ELSE turn[f[k - 1]]]
<1>1. 0 \in S
  <2>1. Built(0, [i \in 0 .. 0 |-> start])
    OBVIOUS
  <2> HIDE DEF Built
  <2> QED
    BY <2>1
<1>2. ASSUME NEW k \in 1 .. n, k - 1 \in S PROVE k \in S
  <2>1. PICK f : Built(k - 1, f)
    BY <1>2
  <2> DEFINE g == [i \in 0 .. k |-> IF i = k THEN turn[f[k - 1]] ELSE f[i]]
  <2>2. \A i \in 0 .. k - 1 : g[i] = f[i]
    OBVIOUS
  <2>3. g[0] = start
    BY <2>1
  <2>4. ASSUME NEW i \in 1 .. k PROVE g[i] = turn[g[i - 1]]
    <3>1. g[i - 1] = f[i - 1]
      BY <2>2
    <3>2. CASE i = k
      BY <3>1, <3>2
    <3>3. CASE i # k
      <4>1. i \in 1 .. k - 1
        BY <3>3
      <4> QED
        BY <2>1, <2>2, <3>1, <4>1, SMTT(30)
    <3> QED
      BY <3>2, <3>3
  <2>5. Built(k, g)
    BY <2>3, <2>4
  <2> HIDE DEF Built, g
  <2> QED
    BY <2>5
<1>3. n \in S
  <2> HIDE DEF S
  <2>1. S \in SUBSET (0 .. n)
    BY DEF S
  <2> QED
    BY <1>1, <1>2, <2>1, Induct
<1>4. PICK f : Built(n, f)
  BY <1>3
<1>5. P(f)
  <2>1. f = [i \in 0 .. n |-> f[i]]
    BY <1>4
  <2>2. \A i \in 0 .. n : f[i] = IF i = 0 THEN start ELSE turn[f[i - 1]]
    <3>1. f[0] = start /\ \A i \in 1 .. n : f[i] = turn[f[i - 1]]
      BY <1>4, Zenon
    <3> HIDE DEF Built, P, S
    <3> QED
      <4>1. \A i \in 0 .. n : i = 0 \/ (i # 0 /\ i \in 1 .. n)
        OBVIOUS
      <4> QED
        BY <3>1, <4>1, Zenon
  <2>3. [i \in 0 .. n |-> f[i]] = [i \in 0 .. n |-> IF i = 0 THEN start ELSE turn[f[i - 1]]]
    BY <2>2, Zenon
  <2> QED
    BY <2>1, <2>3, Zenon
<1> DEFINE g == CHOOSE h : P(h)
<1>6. P(g)
  <2> HIDE DEF P
  <2> QED
    BY <1>5
<1>7. Loop(n, start, turn) = g[n]
  BY DEF Loop
<1> HIDE DEF g
<1>8. g[0] = start /\ \A i \in 1 .. n : g[i] = turn[g[i - 1]]
  <2>1. \A i \in 0 .. n : g[i] = IF i = 0 THEN start ELSE turn[g[i - 1]]
    BY <1>6, Zenon
  <2> HIDE DEF P
  <2> QED
    BY <2>1
<1> DEFINE T == {k \in 0 .. n : g[k] \in V[k]}
<1>9. 0 \in T /\ \A i \in 1 .. n : i - 1 \in T => i \in T
  BY <1>8
<1>10. T = 0 .. n
  <2> HIDE DEF T
  <2>1. T \in SUBSET (0 .. n)
    BY DEF T
  <2> QED
    BY <1>9, <2>1, Induct
<1>11. n \in T
  BY <1>10
<1> QED
  BY <1>7, <1>11

-----------------------------------------------------------------------------
(***************************************************************************)
(* Bit numbers: a start bit and an offset below MapSize.                   *)
(***************************************************************************)
Starts == {s \in Nat : s % MapSize = 0}

\* A number is its start bit and an offset in the node's map.
LEMMA SplitBit ==
  ASSUME NEW b \in Nat
  PROVE  StartOf(b) \in Starts /\ b - StartOf(b) \in Offset /\ b = StartOf(b) + (b - StartOf(b))
<1> DEFINE q == b \div MapSize
<1>1. MapSize \in Nat \ {0}
  BY EbitmapAssumption
<1>2. b % MapSize \in 0 .. MapSize - 1 /\ q \in Nat /\ b = MapSize * q + (b % MapSize)
  BY <1>1
<1>3. StartOf(b) = MapSize * q
  BY <1>1, <1>2 DEF StartOf
<1>4. MapSize * q \in Nat /\ MapSize * q + 0 = MapSize * q /\ (MapSize * q + 0) % MapSize = 0
  BY <1>1, <1>2
<1> QED
  BY <1>1, <1>2, <1>3, <1>4 DEF Starts, Offset

\* Different start bits are at least a map apart.
LEMMA StartsApart ==
  ASSUME NEW s \in Starts, NEW t \in Starts, s < t
  PROVE  s + MapSize <= t
<1> DEFINE q == s \div MapSize
           r == t \div MapSize
<1>1. MapSize \in Nat \ {0}
  BY EbitmapAssumption
<1>2. q \in Nat /\ r \in Nat /\ s = MapSize * q /\ t = MapSize * r
  BY <1>1 DEF Starts
<1>3. q < r
  <2> SUFFICES ASSUME r <= q PROVE FALSE
    BY <1>2
  <2>1. r = q \/ r < q
    BY <1>2
  <2>2. r < q => MapSize * r + MapSize <= MapSize * q
    BY <1>1, <1>2
  <2> QED
    BY <1>1, <1>2, <2>1, <2>2
<1>4. MapSize * q + MapSize <= MapSize * r
  BY <1>1, <1>2, <1>3
<1> QED
  BY <1>2, <1>4

\* The next start bit.
LEMMA NextStart == ASSUME NEW s \in Starts PROVE s + MapSize \in Starts
<1> DEFINE q == s \div MapSize
<1>1. MapSize \in Nat \ {0}
  BY EbitmapAssumption
<1>2. q \in Nat /\ s = MapSize * q
  BY <1>1 DEF Starts
<1>3. s + MapSize = MapSize * (q + 1) + 0
  BY <1>1, <1>2
<1>4. (MapSize * (q + 1) + 0) % MapSize = 0
  BY <1>1, <1>2
<1> QED
  BY <1>1, <1>3, <1>4 DEF Starts

\* A bit number determines its start bit and its offset.
LEMMA OneSplit ==
  ASSUME NEW s \in Starts, NEW t \in Starts, NEW o \in Offset, NEW p \in Offset, s + o = t + p
  PROVE  s = t /\ o = p
<1>1. MapSize \in Nat \ {0}
  BY EbitmapAssumption
<1>2. s \in Nat /\ t \in Nat /\ o \in 0 .. MapSize - 1 /\ p \in 0 .. MapSize - 1
  BY DEF Starts, Offset
<1>3. ~(s < t)
  BY <1>1, <1>2, StartsApart
<1>4. ~(t < s)
  BY <1>1, <1>2, StartsApart
<1> QED
  BY <1>2, <1>3, <1>4

\* The end of a node's map wraps to 0 exactly for the last start bit.
LEMMA EndOfNode ==
  ASSUME NEW s \in Starts, s < Limit
  PROVE  /\ s + MapSize < Limit \/ s + MapSize = Limit
         /\ s + MapSize < Limit => U32(s + MapSize) = s + MapSize /\ s + MapSize \in Uint
         /\ s + MapSize = Limit => U32(s + MapSize) = 0
<1>1. MapSize \in Nat \ {0} /\ Limit \in Nat /\ Limit \in Starts
  BY EbitmapAssumption DEF Starts
<1>2. s + MapSize <= Limit /\ s \in Nat
  BY <1>1, StartsApart DEF Starts
<1>3. s + MapSize < Limit => (s + MapSize) % Limit = s + MapSize
  BY <1>1, <1>2
<1>4. Limit % Limit = 0
  <2>1. (Limit * 1 + 0) % Limit = 0
    BY <1>1, <1>2
  <2> QED
    BY <1>1, <2>1
<1> QED
  BY <1>1, <1>2, <1>3, <1>4 DEF U32, Uint

-----------------------------------------------------------------------------
(***************************************************************************)
(* The list of nodes.  On(n, k, s, o): the first k nodes of n hold offset  *)
(* o of start bit s.                                                       *)
(***************************************************************************)
NodeOK(x) == /\ x \in Nodes /\ x.startbit \in Starts /\ x.startbit + MapSize < Limit
             /\ x.map # {}

ListOK(n) == /\ n \in Seq(Nodes)
             /\ \A i \in 1 .. Len(n) : NodeOK(n[i])
             /\ \A i \in 2 .. Len(n) : n[i - 1].startbit < n[i].startbit

On(n, k, s, o) == \E x \in 1 .. k : n[x].startbit = s /\ o \in n[x].map

\* The representation is a sound list and the highbit that goes with it.
LEMMA RepIs ==
  ASSUME NEW e \in Bitmap
  PROVE  RepOK(e) <=> /\ ListOK(e.node)
                      /\ e.highbit = IF e.node = <<>> THEN 0 ELSE Last(e.node).startbit + MapSize
<1>1. e.node \in Seq(Nodes) /\ DOMAIN e.node = 1 .. Len(e.node) /\ Len(e.node) \in Nat
  BY DEF Bitmap
<1>2. \A i \in 1 .. Len(e.node) : e.node[i] \in Nodes
  BY <1>1
<1>3. \A i \in 1 .. Len(e.node) :
         /\ e.node[i].startbit \in Nat
         /\ e.node[i].map \subseteq Offset
         /\ e.node[i].startbit \in Starts <=> e.node[i].startbit % MapSize = 0
  BY <1>2, EbitmapAssumption DEF Nodes, Uint, Starts
<1>4. ASSUME ListOK(e.node)
      PROVE  \A i \in DOMAIN e.node :
              /\ e.node[i].startbit % MapSize = 0
              /\ e.node[i].startbit + MapSize < Limit
              /\ e.node[i].map \subseteq Offset
              /\ e.node[i].map # {}
              /\ i > 1 => e.node[i - 1].startbit < e.node[i].startbit
  <2> SUFFICES ASSUME NEW i \in 1 .. Len(e.node)
               PROVE  /\ e.node[i].startbit % MapSize = 0
                      /\ e.node[i].startbit + MapSize < Limit
                      /\ e.node[i].map \subseteq Offset
                      /\ e.node[i].map # {}
                      /\ i > 1 => e.node[i - 1].startbit < e.node[i].startbit
    BY <1>1
  <2>1. i > 1 => i \in 2 .. Len(e.node)
    BY <1>1
  <2>2. i > 1 => e.node[i - 1].startbit < e.node[i].startbit
    BY <1>4, <2>1, Zenon DEF ListOK
  <2>3. NodeOK(e.node[i])
    BY <1>4, Zenon DEF ListOK
  <2> QED
    BY <1>3, <2>2, <2>3 DEF NodeOK
<1>5. ASSUME \A i \in DOMAIN e.node :
              /\ e.node[i].startbit % MapSize = 0
              /\ e.node[i].startbit + MapSize < Limit
              /\ e.node[i].map \subseteq Offset
              /\ e.node[i].map # {}
              /\ i > 1 => e.node[i - 1].startbit < e.node[i].startbit
      PROVE  ListOK(e.node)
  <2>1. \A i \in 2 .. Len(e.node) : i \in DOMAIN e.node /\ i > 1
    BY <1>1
  <2>2. \A i \in 2 .. Len(e.node) : e.node[i - 1].startbit < e.node[i].startbit
    BY <1>5, <2>1
  <2>3. \A i \in 1 .. Len(e.node) : NodeOK(e.node[i])
    BY <1>1, <1>2, <1>3, <1>5 DEF NodeOK
  <2> QED
    BY <1>1, <2>2, <2>3 DEF ListOK
<1> QED
  BY <1>4, <1>5 DEF RepOK

\* Start bits increase along the whole list.
LEMMA Increasing ==
  ASSUME NEW n, ListOK(n), NEW i \in 1 .. Len(n), NEW j \in 1 .. Len(n), i < j
  PROVE  n[i].startbit < n[j].startbit
<1>1. Len(n) \in Nat /\ \A k \in 1 .. Len(n) : n[k].startbit \in Nat
  BY DEF ListOK, NodeOK, Starts
<1> DEFINE S == {k \in 0 .. Len(n) : i < k => n[i].startbit < n[k].startbit}
<1>2. 0 \in S
  BY <1>1
<1>3. ASSUME NEW k \in 1 .. Len(n), k - 1 \in S PROVE k \in S
  <2> SUFFICES ASSUME i < k PROVE n[i].startbit < n[k].startbit
    BY <1>1
  <2>1. k \in 2 .. Len(n) /\ k - 1 \in 1 .. Len(n) /\ i <= k - 1
    BY <1>1
  <2>2. n[k - 1].startbit < n[k].startbit
    BY <2>1 DEF ListOK
  <2>3. i = k - 1 \/ n[i].startbit < n[k - 1].startbit
    BY <1>3, <2>1
  <2> QED
    BY <1>1, <2>1, <2>2, <2>3
<1>4. S = 0 .. Len(n)
  <2>1. S \in SUBSET (0 .. Len(n))
    OBVIOUS
  <2> HIDE DEF S
  <2> QED
    BY <1>1, <1>2, <1>3, <2>1, Induct
<1> QED
  BY <1>1, <1>4

\* Facts about the nodes of a sound list.
LEMMA NodeFacts ==
  ASSUME NEW n, ListOK(n), NEW i \in 1 .. Len(n)
  PROVE  /\ n \in Seq(Nodes) /\ Len(n) \in Nat /\ n[i] \in Nodes
         /\ n[i].startbit \in Starts /\ n[i].startbit \in Nat /\ n[i].startbit \in Uint
         /\ n[i].startbit + MapSize < Limit
         /\ n[i].map \subseteq Offset /\ n[i].map # {}
<1>1. n \in Seq(Nodes) /\ NodeOK(n[i])
  BY DEF ListOK
<1> QED
  BY <1>1 DEF NodeOK, Nodes, Starts, Uint

LEMMA OnGrows ==
  ASSUME NEW n, NEW k \in Nat, NEW m \in Nat, k <= m, NEW s, NEW o, On(n, k, s, o)
  PROVE  On(n, m, s, o)
BY DEF On

\* What a list holds are start bits and offsets.
LEMMA OnTypes ==
  ASSUME NEW n, ListOK(n), NEW k \in 0 .. Len(n), NEW s, NEW o, On(n, k, s, o)
  PROVE  s \in Starts /\ o \in Offset
<1>1. PICK x \in 1 .. k : n[x].startbit = s /\ o \in n[x].map
  BY DEF On
<1>2. Len(n) \in Nat
  BY DEF ListOK
<1>3. x \in 1 .. Len(n)
  BY <1>2
<1> QED
  BY <1>1, <1>3, NodeFacts

\* A bit is in the set when the node of its start bit holds its offset.
LEMMA BitsOn ==
  ASSUME NEW e, ListOK(e.node)
  PROVE  /\ Bits(e) \subseteq Uint
         /\ \A s \in Starts, o \in Offset : s + o \in Bits(e) <=> On(e.node, Len(e.node), s, o)
<1> DEFINE n == e.node
<1>1. Len(n) \in Nat /\ DOMAIN n = 1 .. Len(n)
  BY DEF ListOK
<1>2. \A b : b \in Bits(e) <=> \E i \in 1 .. Len(n) : \E o \in n[i].map : b = n[i].startbit + o
  BY <1>1 DEF Bits
<1> HIDE DEF n
<1>3. ASSUME NEW i \in 1 .. Len(n), NEW o \in n[i].map
      PROVE  o \in Offset /\ n[i].startbit \in Starts /\ n[i].startbit + o \in Uint
  <2>1. o \in Offset /\ n[i].startbit \in Starts /\ n[i].startbit \in Nat /\ n[i].startbit + MapSize < Limit
    BY NodeFacts DEF n
  <2> QED
    BY <2>1, EbitmapAssumption DEF Offset, Uint
<1>4. Bits(e) \subseteq Uint
  BY <1>2, <1>3
<1>5. ASSUME NEW s \in Starts, NEW o \in Offset
      PROVE  s + o \in Bits(e) <=> On(n, Len(n), s, o)
  <2>1. ASSUME s + o \in Bits(e) PROVE On(n, Len(n), s, o)
    <3>1. PICK i \in 1 .. Len(n) : \E p \in n[i].map : s + o = n[i].startbit + p
      BY <1>2, <2>1
    <3>2. PICK p \in n[i].map : s + o = n[i].startbit + p
      BY <3>1
    <3>3. p \in Offset /\ n[i].startbit \in Starts
      BY <1>3
    <3>4. s = n[i].startbit /\ o = p
      BY <3>2, <3>3, OneSplit
    <3> QED
      BY <3>4 DEF On
  <2>2. ASSUME On(n, Len(n), s, o) PROVE s + o \in Bits(e)
    BY <1>2, <2>2 DEF On
  <2> QED
    BY <2>1, <2>2
<1> QED
  BY <1>4, <1>5 DEF n

\* Sets of bits that hold the same offsets of the same start bits are equal.
LEMMA SameBits ==
  ASSUME NEW A, NEW B, A \subseteq Uint, B \subseteq Uint,
         \A s \in Starts, o \in Offset : s + o \in A <=> s + o \in B
  PROVE  A = B
<1> SUFFICES ASSUME NEW b \in Uint PROVE b \in A <=> b \in B
  OBVIOUS
<1>1. b \in Nat
  BY EbitmapAssumption DEF Uint
<1> QED
  BY <1>1, SplitBit

\* A node linked behind a sound list.
LEMMA AppendNode ==
  ASSUME NEW n, ListOK(n), NEW s, NEW m, NodeOK(Node(s, m)),
         \A x \in 1 .. Len(n) : n[x].startbit < s
  PROVE  LET new == n \o <<Node(s, m)>>
         IN  /\ ListOK(new) /\ Len(new) = Len(n) + 1 /\ new[Len(n) + 1] = Node(s, m)
             /\ \A x \in 1 .. Len(n) : new[x] = n[x]
             /\ \A t, o : On(new, Len(new), t, o) <=> On(n, Len(n), t, o) \/ (t = s /\ o \in m)
<1> DEFINE y == Node(s, m)
           new == n \o <<y>>
<1>1. n \in Seq(Nodes) /\ Len(n) \in Nat /\ y \in Nodes /\ y.startbit = s /\ y.map = m
  BY DEF ListOK, NodeOK, Node
<1> HIDE DEF y
<1>2. /\ new \in Seq(Nodes) /\ Len(new) = Len(n) + 1 /\ new[Len(n) + 1] = y
      /\ \A x \in 1 .. Len(n) : new[x] = n[x]
  BY <1>1
<1> HIDE DEF new
<1>3. ListOK(new)
  <2>1. \A i \in 1 .. Len(new) : NodeOK(new[i])
    <3> SUFFICES ASSUME NEW i \in 1 .. Len(new) PROVE NodeOK(new[i])
      OBVIOUS
    <3>1. i \in 1 .. Len(n) \/ i = Len(n) + 1
      BY <1>1, <1>2
    <3>2. \A x \in 1 .. Len(n) : NodeOK(n[x])
      BY DEF ListOK
    <3> QED
      BY <1>2, <3>1, <3>2 DEF y
  <2>2. ASSUME NEW i \in 2 .. Len(new) PROVE new[i - 1].startbit < new[i].startbit
    <3>1. i - 1 \in 1 .. Len(n) /\ (i \in 2 .. Len(n) \/ i = Len(n) + 1)
      BY <1>1, <1>2
    <3>2. new[i - 1] = n[i - 1]
      BY <1>2, <3>1
    <3>3. CASE i = Len(n) + 1
      BY <1>1, <1>2, <3>1, <3>2, <3>3
    <3>4. CASE i \in 2 .. Len(n)
      <4>1. i \in 1 .. Len(n)
        BY <1>1, <3>4
      <4>2. n[i - 1].startbit < n[i].startbit
        BY <3>4 DEF ListOK
      <4> QED
        BY <1>2, <3>2, <4>1, <4>2
    <3> QED
      BY <3>1, <3>3, <3>4
  <2> QED
    BY <1>2, <2>1, <2>2 DEF ListOK
<1>4. ASSUME NEW t, NEW o
      PROVE  On(new, Len(new), t, o) <=> On(n, Len(n), t, o) \/ (t = s /\ o \in m)
  <2>1. \A x : x \in 1 .. Len(new) <=> x \in 1 .. Len(n) \/ x = Len(n) + 1
    BY <1>1, <1>2
  <2> QED
    BY <1>1, <1>2, <2>1 DEF On
<1> QED
  BY <1>2, <1>3, <1>4 DEF new, y

\* The same for a map that may be empty, in which case no node is linked.
LEMMA KeepNode ==
  ASSUME NEW n, ListOK(n), NEW s \in Starts, NEW m \in SUBSET Offset, s + MapSize < Limit,
         \A x \in 1 .. Len(n) : n[x].startbit < s
  PROVE  LET new == n \o Kept(s, m)
         IN  /\ ListOK(new) /\ Len(new) >= Len(n)
             /\ \A x \in 1 .. Len(n) : new[x] = n[x]
             /\ \A x \in 1 .. Len(new) : x \in 1 .. Len(n) \/ new[x].startbit = s
             /\ \A t, o : On(new, Len(new), t, o) <=> On(n, Len(n), t, o) \/ (t = s /\ o \in m)
<1>1. n \in Seq(Nodes) /\ Len(n) \in Nat
  BY DEF ListOK
<1>2. CASE m = {}
  <2>1. n \o Kept(s, m) = n
    BY <1>1, <1>2 DEF Kept
  <2>2. Len(n) >= Len(n) /\ ~(\E o : o \in m)
    BY <1>1, <1>2
  <2> QED
    BY <2>1, <2>2, Zenon
<1>3. CASE m # {}
  <2>1. n \o Kept(s, m) = n \o <<Node(s, m)>>
    BY <1>3 DEF Kept
  <2>2. NodeOK(Node(s, m))
    <3>1. s \in Uint
      BY EbitmapAssumption DEF Starts, Uint
    <3> QED
      BY <1>3, <3>1 DEF NodeOK, Node, Nodes
  <2> DEFINE new == n \o <<Node(s, m)>>
  <2>3. /\ ListOK(new) /\ Len(new) = Len(n) + 1 /\ new[Len(n) + 1] = Node(s, m)
        /\ \A x \in 1 .. Len(n) : new[x] = n[x]
        /\ \A t, o : On(new, Len(new), t, o) <=> On(n, Len(n), t, o) \/ (t = s /\ o \in m)
    BY <2>2, AppendNode
  <2> HIDE DEF new
  <2>4. \A x \in 1 .. Len(new) : x \in 1 .. Len(n) \/ x = Len(n) + 1
    BY <1>1, <2>3
  <2>5. new[Len(n) + 1].startbit = s
    BY <2>3 DEF Node
  <2>6. n \o Kept(s, m) = new
    BY <2>1 DEF new
  <2>7. Len(new) >= Len(n)
    BY <1>1, <2>3
  <2> QED
    BY <2>3, <2>4, <2>5, <2>6, <2>7
<1> QED
  BY <1>2, <1>3

-----------------------------------------------------------------------------
(***************************************************************************)
(* The loops over two lists.  The nodes behind each pointer start before   *)
(* the node the other pointer is at.                                       *)
(***************************************************************************)
Abreast(n1, n2, i, j) ==
    /\ i \in 1 .. Len(n1) + 1 /\ j \in 1 .. Len(n2) + 1
    /\ \A k \in 1 .. i - 1 : j <= Len(n2) => n1[k].startbit < n2[j].startbit
    /\ \A k \in 1 .. j - 1 : i <= Len(n1) => n2[k].startbit < n1[i].startbit

\* One node more.
LEMMA OnNext ==
  ASSUME NEW n, NEW i \in Nat \ {0}
  PROVE  \A s, o : On(n, i, s, o) <=> On(n, i - 1, s, o) \/ (s = n[i].startbit /\ o \in n[i].map)
<1>1. \A x : x \in 1 .. i <=> x \in 1 .. i - 1 \/ x = i
  OBVIOUS
<1> QED
  BY <1>1 DEF On

(* What a turn meets: the next start bit of either list, later than all    *)
(* those behind the pointers, with what both lists hold there.             *)
MeetOK(n1, n2, w, t) ==
    /\ Abreast(n1, n2, t.i, t.j)
    /\ t.i \in {w.i, w.i + 1} /\ t.j \in {w.j, w.j + 1} /\ t.i + t.j > w.i + w.j
    /\ t.startbit \in Starts /\ t.startbit + MapSize < Limit
    /\ t.map1 \subseteq Offset /\ t.map2 \subseteq Offset /\ t.map1 \cup t.map2 # {}
    /\ \A k \in 1 .. w.i - 1 : n1[k].startbit < t.startbit
    /\ \A k \in 1 .. w.j - 1 : n2[k].startbit < t.startbit
    /\ \A s, o : On(n1, t.i - 1, s, o) <=> On(n1, w.i - 1, s, o) \/ (s = t.startbit /\ o \in t.map1)
    /\ \A s, o : On(n2, t.j - 1, s, o) <=> On(n2, w.j - 1, s, o) \/ (s = t.startbit /\ o \in t.map2)
    /\ \/ \E k \in 1 .. t.i - 1 : n1[k].startbit = t.startbit
       \/ \E k \in 1 .. t.j - 1 : n2[k].startbit = t.startbit

LEMMA Meets ==
  ASSUME NEW n1, NEW n2, ListOK(n1), ListOK(n2), NEW w, Abreast(n1, n2, w.i, w.j),
         More(n1, w.i) \/ More(n2, w.j)
  PROVE  MeetOK(n1, n2, w, Meet(n1, n2, w))
<1> DEFINE i == w.i
           j == w.j
           a == n1[i]
           b == n2[j]
           at1 == More(n1, i) /\ (More(n2, j) => a.startbit <= b.startbit)
           at2 == More(n2, j) /\ (More(n1, i) => b.startbit <= a.startbit)
           t == Meet(n1, n2, w)
<1>1. /\ Len(n1) \in Nat /\ Len(n2) \in Nat
      /\ i \in 1 .. Len(n1) + 1 /\ j \in 1 .. Len(n2) + 1
      /\ More(n1, i) <=> i \in 1 .. Len(n1)
      /\ More(n2, j) <=> j \in 1 .. Len(n2)
  BY DEF ListOK, Abreast, More
<1>2. /\ t.startbit = IF at1 THEN a.startbit ELSE b.startbit
      /\ t.map1 = IF at1 THEN a.map ELSE {}
      /\ t.map2 = IF at2 THEN b.map ELSE {}
      /\ t.i = IF at1 THEN i + 1 ELSE i
      /\ t.j = IF at2 THEN j + 1 ELSE j
  BY DEF Meet
<1> HIDE DEF t
<1>3. /\ \A k \in 1 .. Len(n1) : n1[k].startbit \in Nat
      /\ \A k \in 1 .. Len(n2) : n2[k].startbit \in Nat
  BY NodeFacts
<1>4. /\ \A k \in 1 .. i - 1 : j \in 1 .. Len(n2) => n1[k].startbit < b.startbit
      /\ \A k \in 1 .. j - 1 : i \in 1 .. Len(n1) => n2[k].startbit < a.startbit
  BY <1>1 DEF Abreast
<1>5. /\ \A k, l \in 1 .. Len(n1) : k < l => n1[k].startbit < n1[l].startbit
      /\ \A k, l \in 1 .. Len(n2) : k < l => n2[k].startbit < n2[l].startbit
  BY Increasing
<1>6. /\ i \in 1 .. Len(n1) => \A s, o : On(n1, i, s, o) <=> On(n1, i - 1, s, o) \/ (s = a.startbit /\ o \in a.map)
      /\ j \in 1 .. Len(n2) => \A s, o : On(n2, j, s, o) <=> On(n2, j - 1, s, o) \/ (s = b.startbit /\ o \in b.map)
  BY OnNext
<1>7. /\ i \in 1 .. Len(n1) => /\ a.startbit \in Starts /\ a.startbit + MapSize < Limit
                               /\ a.map \subseteq Offset /\ a.map # {}
      /\ j \in 1 .. Len(n2) => /\ b.startbit \in Starts /\ b.startbit + MapSize < Limit
                               /\ b.map \subseteq Offset /\ b.map # {}
  BY NodeFacts
<1>8. /\ (i + 1) - 1 = i /\ (j + 1) - 1 = j /\ i \in Nat /\ j \in Nat
  BY <1>1
<1> HIDE DEF i, j
<1>9. at1 \/ at2
  <2>1. More(n1, i) \/ More(n2, j)
    BY DEF i, j
  <2> QED
    BY <1>1, <1>3, <2>1
<1>10. CASE at1 /\ at2
  <2>1. /\ i \in 1 .. Len(n1) /\ j \in 1 .. Len(n2) /\ a.startbit = b.startbit
        /\ t.startbit = a.startbit /\ t.map1 = a.map /\ t.map2 = b.map /\ t.i = i + 1 /\ t.j = j + 1
    BY <1>1, <1>2, <1>3, <1>10
  <2> HIDE DEF a, b
  <2>2. \A k \in 1 .. i - 1 : n1[k].startbit < t.startbit
    BY <1>4, <2>1
  <2>3. \A k \in 1 .. j - 1 : n2[k].startbit < t.startbit
    BY <1>4, <2>1
  <2>4. Abreast(n1, n2, t.i, t.j)
    <3>1. ASSUME NEW k \in 1 .. i, j + 1 <= Len(n2) PROVE n1[k].startbit < n2[j + 1].startbit
      <4>1. k \in 1 .. i - 1 \/ k = i
        BY <1>8
      <4>2. n1[k].startbit <= b.startbit /\ n1[k].startbit \in Nat /\ b.startbit \in Nat
        <5>1. k \in 1 .. Len(n1) /\ n1[k].startbit \in Nat /\ b.startbit \in Nat
          BY <1>1, <1>3, <1>8, <2>1 DEF b
        <5>2. k = i => n1[k].startbit = b.startbit
          BY <2>1 DEF a
        <5>3. k \in 1 .. i - 1 => n1[k].startbit < b.startbit
          BY <1>4, <2>1
        <5> QED
          BY <4>1, <5>1, <5>2, <5>3
      <4>3. b.startbit < n2[j + 1].startbit /\ n2[j + 1].startbit \in Nat
        BY <1>1, <1>3, <1>5, <2>1, <3>1 DEF b
      <4> QED
        BY <4>2, <4>3
    <3>2. ASSUME NEW k \in 1 .. j, i + 1 <= Len(n1) PROVE n2[k].startbit < n1[i + 1].startbit
      <4>1. k \in 1 .. j - 1 \/ k = j
        BY <1>8
      <4>2. n2[k].startbit <= a.startbit /\ n2[k].startbit \in Nat /\ a.startbit \in Nat
        BY <1>1, <1>3, <1>4, <2>1, <4>1 DEF a, b
      <4>3. a.startbit < n1[i + 1].startbit /\ n1[i + 1].startbit \in Nat
        BY <1>1, <1>3, <1>5, <2>1, <3>2 DEF a
      <4> QED
        BY <4>2, <4>3
    <3>3. i + 1 \in 1 .. Len(n1) + 1 /\ j + 1 \in 1 .. Len(n2) + 1
      BY <1>1, <2>1
    <3> QED
      BY <1>8, <2>1, <3>1, <3>2, <3>3 DEF Abreast
  <2>5. /\ \A s, o : On(n1, t.i - 1, s, o) <=> On(n1, i - 1, s, o) \/ (s = t.startbit /\ o \in t.map1)
        /\ \A s, o : On(n2, t.j - 1, s, o) <=> On(n2, j - 1, s, o) \/ (s = t.startbit /\ o \in t.map2)
    BY <1>6, <1>8, <2>1
  <2>6. \E k \in 1 .. t.i - 1 : n1[k].startbit = t.startbit
    BY <1>1, <1>8, <2>1 DEF a
  <2>7. t.i + t.j > i + j
    BY <1>8, <2>1
  <2>8. /\ t.startbit \in Starts /\ t.startbit + MapSize < Limit
        /\ t.map1 \subseteq Offset /\ t.map2 \subseteq Offset /\ t.map1 \cup t.map2 # {}
    BY <1>7, <2>1
  <2> QED
    BY <2>1, <2>2, <2>3, <2>4, <2>5, <2>6, <2>7, <2>8 DEF MeetOK, t, i, j
<1>11. CASE at1 /\ ~at2
  <2>1. /\ i \in 1 .. Len(n1) /\ (j \in 1 .. Len(n2) => a.startbit < b.startbit)
        /\ t.startbit = a.startbit /\ t.map1 = a.map /\ t.map2 = {} /\ t.i = i + 1 /\ t.j = j
    BY <1>1, <1>2, <1>3, <1>11
  <2> HIDE DEF a, b
  <2>2. \A k \in 1 .. i - 1 : n1[k].startbit < t.startbit
    <3> SUFFICES ASSUME NEW k \in 1 .. i - 1 PROVE n1[k].startbit < a.startbit
      BY <2>1
    <3>1. k \in 1 .. Len(n1) /\ k < i
      BY <1>1, <1>8
    <3> QED
      BY <1>5, <2>1, <3>1 DEF a
  <2>3. \A k \in 1 .. j - 1 : n2[k].startbit < t.startbit
    BY <1>4, <2>1
  <2>4. Abreast(n1, n2, t.i, t.j)
    <3>1. ASSUME NEW k \in 1 .. i, j <= Len(n2) PROVE n1[k].startbit < n2[j].startbit
      <4>1. k \in 1 .. i - 1 \/ k = i
        BY <1>8
      <4>2. j \in 1 .. Len(n2)
        BY <1>1, <3>1
      <4> QED
        BY <1>4, <2>1, <4>1, <4>2 DEF a, b
    <3>2. ASSUME NEW k \in 1 .. j - 1, i + 1 <= Len(n1) PROVE n2[k].startbit < n1[i + 1].startbit
      <4>1. n2[k].startbit < a.startbit /\ n2[k].startbit \in Nat /\ a.startbit \in Nat
        BY <1>1, <1>3, <1>4, <2>1 DEF a
      <4>2. a.startbit < n1[i + 1].startbit /\ n1[i + 1].startbit \in Nat
        BY <1>1, <1>3, <1>5, <2>1, <3>2 DEF a
      <4> QED
        BY <4>1, <4>2
    <3>3. i + 1 \in 1 .. Len(n1) + 1 /\ j \in 1 .. Len(n2) + 1
      BY <1>1, <2>1
    <3> QED
      BY <1>8, <2>1, <3>1, <3>2, <3>3 DEF Abreast
  <2>5. /\ \A s, o : On(n1, t.i - 1, s, o) <=> On(n1, i - 1, s, o) \/ (s = t.startbit /\ o \in t.map1)
        /\ \A s, o : On(n2, t.j - 1, s, o) <=> On(n2, j - 1, s, o) \/ (s = t.startbit /\ o \in t.map2)
    BY <1>6, <1>8, <2>1
  <2>6. \E k \in 1 .. t.i - 1 : n1[k].startbit = t.startbit
    BY <1>1, <1>8, <2>1 DEF a
  <2>7. t.i + t.j > i + j
    BY <1>8, <2>1
  <2>8. /\ t.startbit \in Starts /\ t.startbit + MapSize < Limit
        /\ t.map1 \subseteq Offset /\ t.map2 \subseteq Offset /\ t.map1 \cup t.map2 # {}
    BY <1>7, <2>1
  <2> QED
    BY <2>1, <2>2, <2>3, <2>4, <2>5, <2>6, <2>7, <2>8 DEF MeetOK, t, i, j
<1>12. CASE ~at1 /\ at2
  <2>1. /\ j \in 1 .. Len(n2) /\ (i \in 1 .. Len(n1) => b.startbit < a.startbit)
        /\ t.startbit = b.startbit /\ t.map1 = {} /\ t.map2 = b.map /\ t.i = i /\ t.j = j + 1
    BY <1>1, <1>2, <1>3, <1>12
  <2> HIDE DEF a, b
  <2>2. \A k \in 1 .. i - 1 : n1[k].startbit < t.startbit
    BY <1>4, <2>1
  <2>3. \A k \in 1 .. j - 1 : n2[k].startbit < t.startbit
    <3> SUFFICES ASSUME NEW k \in 1 .. j - 1 PROVE n2[k].startbit < b.startbit
      BY <2>1
    <3>1. k \in 1 .. Len(n2) /\ k < j
      BY <1>1, <1>8
    <3> QED
      BY <1>5, <2>1, <3>1 DEF b
  <2>4. Abreast(n1, n2, t.i, t.j)
    <3>1. ASSUME NEW k \in 1 .. i - 1, j + 1 <= Len(n2) PROVE n1[k].startbit < n2[j + 1].startbit
      <4>1. n1[k].startbit < b.startbit /\ n1[k].startbit \in Nat /\ b.startbit \in Nat
        BY <1>1, <1>3, <1>4, <2>1 DEF b
      <4>2. b.startbit < n2[j + 1].startbit /\ n2[j + 1].startbit \in Nat
        BY <1>1, <1>3, <1>5, <2>1, <3>1 DEF b
      <4> QED
        BY <4>1, <4>2
    <3>2. ASSUME NEW k \in 1 .. j, i <= Len(n1) PROVE n2[k].startbit < n1[i].startbit
      <4>1. k \in 1 .. j - 1 \/ k = j
        BY <1>8
      <4>2. i \in 1 .. Len(n1)
        BY <1>1, <3>2
      <4> QED
        BY <1>4, <2>1, <4>1, <4>2 DEF a, b
    <3>3. i \in 1 .. Len(n1) + 1 /\ j + 1 \in 1 .. Len(n2) + 1
      BY <1>1, <2>1
    <3> QED
      BY <1>8, <2>1, <3>1, <3>2, <3>3 DEF Abreast
  <2>5. /\ \A s, o : On(n1, t.i - 1, s, o) <=> On(n1, i - 1, s, o) \/ (s = t.startbit /\ o \in t.map1)
        /\ \A s, o : On(n2, t.j - 1, s, o) <=> On(n2, j - 1, s, o) \/ (s = t.startbit /\ o \in t.map2)
    BY <1>6, <1>8, <2>1
  <2>6. \E k \in 1 .. t.j - 1 : n2[k].startbit = t.startbit
    BY <1>1, <1>8, <2>1 DEF b
  <2>7. t.i + t.j > i + j
    BY <1>8, <2>1
  <2>8. /\ t.startbit \in Starts /\ t.startbit + MapSize < Limit
        /\ t.map1 \subseteq Offset /\ t.map2 \subseteq Offset /\ t.map1 \cup t.map2 # {}
    BY <1>7, <2>1
  <2> QED
    BY <2>1, <2>2, <2>3, <2>4, <2>5, <2>6, <2>7, <2>8 DEF MeetOK, t, i, j
<1> QED
  BY <1>9, <1>10, <1>11, <1>12 DEF t

Kinds == {"or", "and", "xor"}

Joined(kind, p, q) ==
    CASE kind = "or" -> p \/ q
      [] kind = "and" -> p /\ q
      [] kind = "xor" -> ~(p <=> q)

JoinedMaps(kind, m1, m2) ==
    CASE kind = "or" -> m1 \cup m2
      [] kind = "and" -> m1 \cap m2
      [] kind = "xor" -> SymDiff(m1, m2)

(* The list built so far holds the join of what is behind the pointers.    *)
MergeInv(kind, n1, n2, w) ==
    /\ w \in Merge /\ Abreast(n1, n2, w.i, w.j) /\ ListOK(w.out)
    /\ \A x \in 1 .. Len(w.out) : \/ \E k \in 1 .. w.i - 1 : n1[k].startbit = w.out[x].startbit
                                  \/ \E k \in 1 .. w.j - 1 : n2[k].startbit = w.out[x].startbit
    /\ \A s, o : On(w.out, Len(w.out), s, o) <=>
                   Joined(kind, On(n1, w.i - 1, s, o), On(n2, w.j - 1, s, o))

\* A turn that links what it meets, unless that is nothing, keeps it.
LEMMA MergeTurn ==
  ASSUME NEW kind \in Kinds, NEW n1, NEW n2, ListOK(n1), ListOK(n2),
         NEW w, MergeInv(kind, n1, n2, w), More(n1, w.i) \/ More(n2, w.j),
         NEW t, t = Meet(n1, n2, w),
         NEW new, new = w.out \o Kept(t.startbit, JoinedMaps(kind, t.map1, t.map2))
  PROVE  /\ MergeInv(kind, n1, n2, Linked(t, new))
         /\ Linked(t, new).i + Linked(t, new).j > w.i + w.j
<1> DEFINE m == JoinedMaps(kind, t.map1, t.map2)
           v == Linked(t, new)
<1>1. MeetOK(n1, n2, w, t)
  <2>1. Abreast(n1, n2, w.i, w.j)
    BY DEF MergeInv
  <2> QED
    BY <2>1, Meets
<1>2. v.i = t.i /\ v.j = t.j /\ v.out = new /\ v = [i |-> t.i, j |-> t.j, out |-> new]
  BY DEF Linked
<1>3. m \in SUBSET Offset
  BY <1>1 DEF MeetOK, JoinedMaps, Kinds, SymDiff
<1>4. \A o : o \in m <=> Joined(kind, o \in t.map1, o \in t.map2)
  BY DEF JoinedMaps, Joined, Kinds, SymDiff
<1>5. ListOK(w.out) /\ Len(w.out) \in Nat
  BY DEF MergeInv, ListOK
<1>6. /\ \A k \in 1 .. w.i - 1 : n1[k].startbit < t.startbit
      /\ \A k \in 1 .. w.j - 1 : n2[k].startbit < t.startbit
      /\ t.startbit \in Starts /\ t.startbit \in Nat /\ t.startbit + MapSize < Limit
  BY <1>1 DEF MeetOK, Starts
<1>7. \A x \in 1 .. Len(w.out) : w.out[x].startbit < t.startbit
  BY <1>6 DEF MergeInv
<1> HIDE DEF m
<1>8. /\ ListOK(new) /\ Len(new) >= Len(w.out)
      /\ \A x \in 1 .. Len(w.out) : new[x] = w.out[x]
      /\ \A x \in 1 .. Len(new) : x \in 1 .. Len(w.out) \/ new[x].startbit = t.startbit
      /\ \A s, o : On(new, Len(new), s, o) <=> On(w.out, Len(w.out), s, o) \/ (s = t.startbit /\ o \in m)
  <2>1. PICK n, s : n = w.out /\ s = t.startbit
    OBVIOUS
  <2>2. /\ ListOK(n) /\ s \in Starts /\ s + MapSize < Limit
        /\ \A x \in 1 .. Len(n) : n[x].startbit < s
    BY <1>5, <1>6, <1>7, <2>1
  <2>3. new = n \o Kept(s, m)
    BY <2>1 DEF m
  <2>4. /\ ListOK(new) /\ Len(new) >= Len(n)
        /\ \A x \in 1 .. Len(n) : new[x] = n[x]
        /\ \A x \in 1 .. Len(new) : x \in 1 .. Len(n) \/ new[x].startbit = s
        /\ \A u, o : On(new, Len(new), u, o) <=> On(n, Len(n), u, o) \/ (u = s /\ o \in m)
    BY <1>3, <2>2, <2>3, KeepNode
  <2> QED
    BY <2>1, <2>4
<1>9. w.i \in Nat \ {0} /\ w.j \in Nat \ {0} /\ t.i \in {w.i, w.i + 1} /\ t.j \in {w.j, w.j + 1}
      /\ t.i + t.j > w.i + w.j /\ Abreast(n1, n2, t.i, t.j)
  <2>1. w.i \in 1 .. Len(n1) + 1 /\ w.j \in 1 .. Len(n2) + 1
    BY DEF MergeInv, Abreast
  <2>2. Len(n1) \in Nat /\ Len(n2) \in Nat
    BY DEF ListOK
  <2> QED
    BY <1>1, <2>1, <2>2 DEF MeetOK
<1>10. v \in Merge
  <2>1. new \in Seq(Nodes)
    BY <1>8 DEF ListOK
  <2>2. t.i \in Nat /\ t.j \in Nat
    BY <1>9
  <2> QED
    BY <1>2, <2>1, <2>2, SMTT(30) DEF Merge
<1>11. ASSUME NEW x \in 1 .. Len(new)
       PROVE  \/ \E k \in 1 .. t.i - 1 : n1[k].startbit = new[x].startbit
              \/ \E k \in 1 .. t.j - 1 : n2[k].startbit = new[x].startbit
  <2>1. CASE x \in 1 .. Len(w.out)
    <3>1. \/ \E k \in 1 .. w.i - 1 : n1[k].startbit = new[x].startbit
          \/ \E k \in 1 .. w.j - 1 : n2[k].startbit = new[x].startbit
      BY <1>8, <2>1 DEF MergeInv
    <3>2. 1 .. w.i - 1 \subseteq 1 .. t.i - 1 /\ 1 .. w.j - 1 \subseteq 1 .. t.j - 1
      BY <1>9
    <3> QED
      BY <3>1, <3>2
  <2>2. CASE new[x].startbit = t.startbit
    BY <1>1, <2>2 DEF MeetOK
  <2> QED
    BY <1>8, <2>1, <2>2
<1>12. ASSUME NEW s, NEW o
       PROVE  On(new, Len(new), s, o) <=> Joined(kind, On(n1, t.i - 1, s, o), On(n2, t.j - 1, s, o))
  <2>1. /\ On(n1, t.i - 1, s, o) <=> On(n1, w.i - 1, s, o) \/ (s = t.startbit /\ o \in t.map1)
        /\ On(n2, t.j - 1, s, o) <=> On(n2, w.j - 1, s, o) \/ (s = t.startbit /\ o \in t.map2)
    BY <1>1 DEF MeetOK
  <2>2. On(w.out, Len(w.out), s, o) <=> Joined(kind, On(n1, w.i - 1, s, o), On(n2, w.j - 1, s, o))
    BY DEF MergeInv
  <2>3. CASE s = t.startbit
    <3>1. ~On(n1, w.i - 1, s, o) /\ ~On(n2, w.j - 1, s, o)
      <4>1. \A k \in 1 .. w.i - 1 : n1[k].startbit # s
        BY <1>6, <2>3
      <4>2. \A k \in 1 .. w.j - 1 : n2[k].startbit # s
        BY <1>6, <2>3
      <4> QED
        BY <4>1, <4>2 DEF On
    <3>2. ~On(w.out, Len(w.out), s, o)
      BY <2>2, <3>1 DEF Joined, Kinds
    <3>3. On(new, Len(new), s, o) <=> o \in m
      BY <1>8, <2>3, <3>2
    <3> QED
      BY <1>4, <2>1, <2>3, <3>1, <3>3 DEF Joined, Kinds
  <2>4. CASE s # t.startbit
    <3>1. On(new, Len(new), s, o) <=> On(w.out, Len(w.out), s, o)
      BY <1>8, <2>4
    <3> QED
      BY <2>1, <2>2, <2>4, <3>1 DEF Joined, Kinds
  <2> QED
    BY <2>3, <2>4
<1> HIDE DEF v
<1>13. MergeInv(kind, n1, n2, v)
  BY <1>2, <1>8, <1>9, <1>10, <1>11, <1>12 DEF MergeInv
<1> QED
  BY <1>2, <1>9, <1>13 DEF v

(* ebitmap_and stops at the end of either list, the others of both.        *)
Stop(kind, n1, n2, w) ==
    \/ ~More(n1, w.i) /\ ~More(n2, w.j)
    \/ kind = "and" /\ ~(More(n1, w.i) /\ More(n2, w.j))

Merged(kind, n1, n2, out) ==
    /\ ListOK(out)
    /\ \A s, o : On(out, Len(out), s, o) <=>
                   Joined(kind, On(n1, Len(n1), s, o), On(n2, Len(n2), s, o))

\* At the end of the loop the list is the join of both lists.
LEMMA MergeEnds ==
  ASSUME NEW kind \in Kinds, NEW n1, NEW n2, ListOK(n1), ListOK(n2),
         NEW w, MergeInv(kind, n1, n2, w), Stop(kind, n1, n2, w)
  PROVE  Merged(kind, n1, n2, w.out)
<1>1. /\ Len(n1) \in Nat /\ Len(n2) \in Nat /\ ListOK(w.out)
      /\ w.i \in 1 .. Len(n1) + 1 /\ w.j \in 1 .. Len(n2) + 1
      /\ \A k \in 1 .. w.i - 1 : w.j <= Len(n2) => n1[k].startbit < n2[w.j].startbit
      /\ \A k \in 1 .. w.j - 1 : w.i <= Len(n1) => n2[k].startbit < n1[w.i].startbit
  BY DEF MergeInv, Abreast, ListOK
<1>2. \A s, o : On(w.out, Len(w.out), s, o) <=>
                  Joined(kind, On(n1, w.i - 1, s, o), On(n2, w.j - 1, s, o))
  BY DEF MergeInv
<1>3. CASE ~More(n1, w.i) /\ ~More(n2, w.j)
  <2>1. w.i - 1 = Len(n1) /\ w.j - 1 = Len(n2)
    BY <1>1, <1>3 DEF More
  <2> QED
    BY <1>1, <1>2, <2>1 DEF Merged
<1>4. CASE kind = "and" /\ ~(More(n1, w.i) /\ More(n2, w.j))
  <2> SUFFICES ASSUME NEW s, NEW o
               PROVE  On(n1, w.i - 1, s, o) /\ On(n2, w.j - 1, s, o) <=>
                        On(n1, Len(n1), s, o) /\ On(n2, Len(n2), s, o)
    BY <1>1, <1>2, <1>4 DEF Merged, Joined
  <2>1. 1 .. w.i - 1 \subseteq 1 .. Len(n1) /\ 1 .. w.j - 1 \subseteq 1 .. Len(n2)
    BY <1>1
  <2>2. ASSUME On(n1, w.i - 1, s, o), On(n2, w.j - 1, s, o)
        PROVE  On(n1, Len(n1), s, o) /\ On(n2, Len(n2), s, o)
    BY <2>1, <2>2 DEF On
  <2>3. ASSUME On(n1, Len(n1), s, o), On(n2, Len(n2), s, o)
        PROVE  On(n1, w.i - 1, s, o) /\ On(n2, w.j - 1, s, o)
    <3>1. PICK x \in 1 .. Len(n1) : n1[x].startbit = s /\ o \in n1[x].map
      BY <2>3 DEF On
    <3>2. PICK y \in 1 .. Len(n2) : n2[y].startbit = s /\ o \in n2[y].map
      BY <2>3 DEF On
    <3>3. s \in Nat
      BY <3>1, NodeFacts
    <3>4. x \in 1 .. w.i - 1
      <4> SUFFICES ASSUME x >= w.i PROVE FALSE
        BY <1>1
      <4>1. w.i \in 1 .. Len(n1) /\ w.j - 1 = Len(n2)
        BY <1>1, <1>4 DEF More
      <4>2. n2[y].startbit < n1[w.i].startbit
        BY <1>1, <4>1
      <4>3. n1[w.i].startbit <= n1[x].startbit /\ n1[w.i].startbit \in Nat
        <5>1. w.i = x \/ w.i < x
          BY <1>1
        <5>2. n1[w.i].startbit \in Nat /\ n1[x].startbit \in Nat
          BY <4>1, NodeFacts
        <5>3. w.i < x => n1[w.i].startbit < n1[x].startbit
          BY <4>1, Increasing
        <5> QED
          BY <5>1, <5>2, <5>3
      <4> QED
        BY <3>1, <3>2, <3>3, <4>2, <4>3
    <3>5. y \in 1 .. w.j - 1
      <4> SUFFICES ASSUME y >= w.j PROVE FALSE
        BY <1>1
      <4>1. w.j \in 1 .. Len(n2) /\ w.i - 1 = Len(n1)
        BY <1>1, <1>4 DEF More
      <4>2. n1[x].startbit < n2[w.j].startbit
        BY <1>1, <4>1
      <4>3. n2[w.j].startbit <= n2[y].startbit /\ n2[w.j].startbit \in Nat
        <5>1. w.j = y \/ w.j < y
          BY <1>1
        <5>2. n2[w.j].startbit \in Nat /\ n2[y].startbit \in Nat
          BY <4>1, NodeFacts
        <5>3. w.j < y => n2[w.j].startbit < n2[y].startbit
          BY <4>1, Increasing
        <5> QED
          BY <5>1, <5>2, <5>3
      <4> QED
        BY <3>1, <3>2, <3>3, <4>2, <4>3
    <3> QED
      BY <3>1, <3>2, <3>4, <3>5 DEF On
  <2> QED
    BY <2>2, <2>3
<1> QED
  BY <1>3, <1>4 DEF Stop

\* A loop whose turns keep the invariant and advance until they may stop.
LEMMA MergeLoop ==
  ASSUME NEW kind \in Kinds, NEW n1, NEW n2, ListOK(n1), ListOK(n2), NEW turn,
         \A w \in Merge : MergeInv(kind, n1, n2, w) =>
            IF Stop(kind, n1, n2, w) THEN turn[w] = w
            ELSE MergeInv(kind, n1, n2, turn[w]) /\ turn[w].i + turn[w].j > w.i + w.j
  PROVE  Merged(kind, n1, n2, Loop(Len(n1) + Len(n2), MergeStart, turn).out)
<1> DEFINE N == Len(n1) + Len(n2)
           Inv(w) == MergeInv(kind, n1, n2, w)
           Far(w, k) == Stop(kind, n1, n2, w) \/ w.i + w.j - 2 >= k
           V == [k \in 0 .. N |-> {w \in Merge : Inv(w) /\ Far(w, k)}]
<1>1. Len(n1) \in Nat /\ Len(n2) \in Nat /\ N \in Nat
  BY DEF ListOK
<1>2. MergeStart \in V[0]
  <2>1. /\ MergeStart \in Merge /\ MergeStart.i = 1 /\ MergeStart.j = 1 /\ MergeStart.out = <<>>
        /\ Len(<<>>) = 0 /\ <<>> \in Seq(Nodes)
    BY DEF MergeStart, Merge
  <2>2. ListOK(<<>>)
    BY <2>1 DEF ListOK
  <2>3. \A n, s, o : ~On(n, 0, s, o)
    BY DEF On
  <2>4. Abreast(n1, n2, 1, 1)
    BY <1>1 DEF Abreast
  <2>5. Inv(MergeStart)
    <3>1. 1 - 1 = 0 /\ ~(\E x : x \in 1 .. 0)
      OBVIOUS
    <3>3. ASSUME NEW s, NEW o
          PROVE  On(<<>>, 0, s, o) <=> Joined(kind, On(n1, 0, s, o), On(n2, 0, s, o))
      <4>1. (On(<<>>, 0, s, o) <=> FALSE) /\ (On(n1, 0, s, o) <=> FALSE) /\ (On(n2, 0, s, o) <=> FALSE)
        BY <2>3
      <4> QED
        BY <4>1 DEF Joined, Kinds
    <3>4. \A x \in 1 .. 0 : \/ \E k \in 1 .. 0 : n1[k].startbit = <<>>[x].startbit
                            \/ \E k \in 1 .. 0 : n2[k].startbit = <<>>[x].startbit
      OBVIOUS
    <3> QED
      BY <2>1, <2>2, <2>4, <3>1, <3>3, <3>4 DEF MergeInv
  <2>6. Far(MergeStart, 0)
    BY <2>1
  <2> QED
    BY <1>1, <2>1, <2>5, <2>6
<1>3. ASSUME NEW k \in 1 .. N, NEW w \in V[k - 1] PROVE turn[w] \in V[k]
  <2>0. k - 1 \in 0 .. N /\ k \in 0 .. N
    BY <1>1
  <2>1. w \in Merge /\ Inv(w) /\ Far(w, k - 1)
    BY <2>0
  <2>2. w.i \in Nat /\ w.j \in Nat
    BY <2>1 DEF Merge
  <2>3. CASE Stop(kind, n1, n2, w)
    BY <2>0, <2>1, <2>3
  <2>4. CASE ~Stop(kind, n1, n2, w)
    <3>0. Inv(turn[w]) /\ turn[w].i + turn[w].j > w.i + w.j
      BY <2>1, <2>4
    <3>1. turn[w] \in Merge /\ turn[w].i \in Nat /\ turn[w].j \in Nat
      BY <3>0 DEF MergeInv, Merge
    <3>2. w.i + w.j - 2 >= k - 1
      BY <2>1, <2>4
    <3>3. k \in Nat
      BY <1>1
    <3>4. turn[w].i + turn[w].j - 2 >= k
      <4> HIDE DEF V, Inv, Far, N
      <4> QED
        BY <2>2, <3>0, <3>1, <3>2, <3>3
    <3> QED
      BY <2>0, <3>0, <3>1, <3>4
  <2> QED
    BY <2>3, <2>4
<1> DEFINE l == Loop(N, MergeStart, turn)
<1>4. l \in V[N]
  <2> HIDE DEF V, N
  <2> QED
    BY <1>1, <1>2, <1>3, LoopInvariant
<1> HIDE DEF l
<1>5. Inv(l) /\ Far(l, N) /\ l \in Merge
  BY <1>1, <1>4
<1>6. Stop(kind, n1, n2, l)
  <2>1. l.i \in 1 .. Len(n1) + 1 /\ l.j \in 1 .. Len(n2) + 1
    BY <1>5 DEF MergeInv, Abreast
  <2>2. CASE l.i + l.j - 2 >= N
    <3>1. l.i = Len(n1) + 1 /\ l.j = Len(n2) + 1
      BY <1>1, <2>1, <2>2
    <3> QED
      BY <1>1, <3>1 DEF Stop, More
  <2> QED
    BY <1>5, <2>2
<1> QED
  BY <1>5, <1>6, MergeEnds DEF l

\* The three loops.
LEMMA OrMerged ==
  ASSUME NEW n1, NEW n2, ListOK(n1), ListOK(n2)
  PROVE  Merged("or", n1, n2, OrNodes(n1, n2))
<1> DEFINE turn == [w \in Merge |-> OrTurn(n1, n2, w)]
<1>1. ASSUME NEW w \in Merge, MergeInv("or", n1, n2, w)
      PROVE  IF Stop("or", n1, n2, w) THEN turn[w] = w
             ELSE MergeInv("or", n1, n2, turn[w]) /\ turn[w].i + turn[w].j > w.i + w.j
  <2> DEFINE t == Meet(n1, n2, w)
             m == JoinedMaps("or", t.map1, t.map2)
             new == w.out \o Kept(t.startbit, m)
  <2>1. turn[w] = OrTurn(n1, n2, w)
    OBVIOUS
  <2>2. CASE Stop("or", n1, n2, w)
    BY <2>1, <2>2 DEF Stop, OrTurn
  <2>3. CASE ~Stop("or", n1, n2, w)
    <3>1. More(n1, w.i) \/ More(n2, w.j)
      BY <2>3 DEF Stop
    <3>2. m = t.map1 \cup t.map2
      BY DEF JoinedMaps
    <3>3. m # {}
      <4>1. Abreast(n1, n2, w.i, w.j)
        BY <1>1 DEF MergeInv
      <4>2. MeetOK(n1, n2, w, t)
        BY <3>1, <4>1, Meets
      <4> QED
        BY <3>2, <4>2 DEF MeetOK
    <3>4. Kept(t.startbit, m) = <<Node(t.startbit, t.map1 \cup t.map2)>>
      BY <3>2, <3>3 DEF Kept
    <3>5. turn[w] = Linked(t, new)
      BY <2>1, <3>1, <3>4 DEF OrTurn
    <3> HIDE DEF turn
    <3>6. MergeInv("or", n1, n2, Linked(t, new)) /\ Linked(t, new).i + Linked(t, new).j > w.i + w.j
      <4> HIDE DEF t, new
      <4> QED
        BY <1>1, <3>1, MergeTurn DEF t, new, m, Kinds
    <3> QED
      BY <2>3, <3>5, <3>6
  <2> QED
    BY <2>2, <2>3
<1>2. OrNodes(n1, n2) = Loop(Len(n1) + Len(n2), MergeStart, turn).out
  BY DEF OrNodes
<1> HIDE DEF turn
<1> QED
  BY <1>1, <1>2, MergeLoop DEF Kinds

LEMMA XorMerged ==
  ASSUME NEW n1, NEW n2, ListOK(n1), ListOK(n2)
  PROVE  Merged("xor", n1, n2, XorNodes(n1, n2))
<1> DEFINE turn == [w \in Merge |-> XorTurn(n1, n2, w)]
<1>1. ASSUME NEW w \in Merge, MergeInv("xor", n1, n2, w)
      PROVE  IF Stop("xor", n1, n2, w) THEN turn[w] = w
             ELSE MergeInv("xor", n1, n2, turn[w]) /\ turn[w].i + turn[w].j > w.i + w.j
  <2> DEFINE t == Meet(n1, n2, w)
             m == JoinedMaps("xor", t.map1, t.map2)
             new == w.out \o Kept(t.startbit, m)
  <2>1. turn[w] = XorTurn(n1, n2, w)
    OBVIOUS
  <2>2. CASE Stop("xor", n1, n2, w)
    BY <2>1, <2>2 DEF Stop, XorTurn
  <2>3. CASE ~Stop("xor", n1, n2, w)
    <3>1. More(n1, w.i) \/ More(n2, w.j)
      BY <2>3 DEF Stop
    <3>2. m = SymDiff(t.map1, t.map2)
      BY DEF JoinedMaps
    <3>5. turn[w] = Linked(t, new)
      BY <2>1, <3>1, <3>2 DEF XorTurn
    <3> HIDE DEF turn
    <3>6. MergeInv("xor", n1, n2, Linked(t, new)) /\ Linked(t, new).i + Linked(t, new).j > w.i + w.j
      <4> HIDE DEF t, new
      <4> QED
        BY <1>1, <3>1, MergeTurn DEF t, new, m, Kinds
    <3> QED
      BY <2>3, <3>5, <3>6
  <2> QED
    BY <2>2, <2>3
<1>2. XorNodes(n1, n2) = Loop(Len(n1) + Len(n2), MergeStart, turn).out
  BY DEF XorNodes
<1> HIDE DEF turn
<1> QED
  BY <1>1, <1>2, MergeLoop DEF Kinds

LEMMA AndMerged ==
  ASSUME NEW n1, NEW n2, ListOK(n1), ListOK(n2)
  PROVE  Merged("and", n1, n2, AndNodes(n1, n2))
<1> DEFINE turn == [w \in Merge |-> AndTurn(n1, n2, w)]
<1>1. ASSUME NEW w \in Merge, MergeInv("and", n1, n2, w)
      PROVE  IF Stop("and", n1, n2, w) THEN turn[w] = w
             ELSE MergeInv("and", n1, n2, turn[w]) /\ turn[w].i + turn[w].j > w.i + w.j
  <2> DEFINE t == Meet(n1, n2, w)
             m == JoinedMaps("and", t.map1, t.map2)
             new == w.out \o Kept(t.startbit, m)
  <2>1. turn[w] = AndTurn(n1, n2, w)
    OBVIOUS
  <2>2. CASE Stop("and", n1, n2, w)
    BY <2>1, <2>2 DEF Stop, AndTurn
  <2>3. CASE ~Stop("and", n1, n2, w)
    <3>1. More(n1, w.i) /\ More(n2, w.j)
      BY <2>3 DEF Stop
    <3>2. m = t.map1 \cap t.map2
      BY DEF JoinedMaps
    <3>5. turn[w] = Linked(t, new)
      BY <2>1, <3>1, <3>2 DEF AndTurn
    <3> HIDE DEF turn
    <3>6. MergeInv("and", n1, n2, Linked(t, new)) /\ Linked(t, new).i + Linked(t, new).j > w.i + w.j
      <4> HIDE DEF t, new
      <4> QED
        BY <1>1, <3>1, MergeTurn DEF t, new, m, Kinds
    <3> QED
      BY <2>3, <3>5, <3>6
  <2> QED
    BY <2>2, <2>3
<1>2. AndNodes(n1, n2) = Loop(Len(n1) + Len(n2), MergeStart, turn).out
  BY DEF AndNodes
<1> HIDE DEF turn
<1> QED
  BY <1>1, <1>2, MergeLoop DEF Kinds

-----------------------------------------------------------------------------
(***************************************************************************)
(* highbit.                                                                *)
(***************************************************************************)
High(n) == IF n = <<>> THEN 0 ELSE Last(n).startbit + MapSize

\* highbit is past everything the list holds and no further than needed.
LEMMA HighIs ==
  ASSUME NEW n, ListOK(n)
  PROVE  /\ High(n) \in Uint /\ High(n) \in Nat
         /\ \A s, o : On(n, Len(n), s, o) => s \in Nat /\ s + MapSize <= High(n)
         /\ High(n) # 0 => \E s \in Starts, o \in Offset : s + MapSize = High(n) /\ On(n, Len(n), s, o)
         /\ n # <<>> <=> High(n) # 0
         /\ \A x \in 1 .. Len(n) : n[x].startbit + MapSize <= High(n)
<1>1. n \in Seq(Nodes) /\ Len(n) \in Nat /\ (n = <<>> <=> Len(n) = 0) /\ MapSize \in Nat \ {0} /\ Limit \in Nat
  BY EbitmapAssumption DEF ListOK
<1>2. CASE n = <<>>
  <2>1. High(n) = 0 /\ Len(n) = 0
    BY <1>1, <1>2 DEF High
  <2>2. 0 \in Uint
    BY EbitmapAssumption DEF Uint
  <2> QED
    BY <1>2, <2>1, <2>2 DEF On
<1>3. CASE n # <<>>
  <2> DEFINE l == Len(n)
  <2>1. l \in 1 .. Len(n) /\ High(n) = n[l].startbit + MapSize
    BY <1>1, <1>3 DEF High, Last
  <2>2. /\ n[l].startbit \in Starts /\ n[l].startbit \in Nat /\ n[l].startbit + MapSize < Limit
        /\ n[l].map \subseteq Offset /\ n[l].map # {}
    BY <2>1, NodeFacts
  <2>3. High(n) \in Nat /\ High(n) \in Uint /\ High(n) # 0
    BY <1>1, <2>1, <2>2 DEF Uint
  <2>4. ASSUME NEW x \in 1 .. Len(n) PROVE n[x].startbit \in Nat /\ n[x].startbit + MapSize <= High(n)
    <3>1. n[x].startbit \in Nat
      BY NodeFacts
    <3>2. x = l \/ x < l
      BY <1>1
    <3>3. x < l => n[x].startbit < n[l].startbit
      BY <2>1, Increasing
    <3> QED
      BY <1>1, <2>1, <2>2, <3>1, <3>2, <3>3
  <2>5. \A s, o : On(n, Len(n), s, o) => s \in Nat /\ s + MapSize <= High(n)
    BY <2>4 DEF On
  <2>6. \E s \in Starts, o \in Offset : s + MapSize = High(n) /\ On(n, Len(n), s, o)
    BY <2>1, <2>2 DEF On
  <2> QED
    BY <1>3, <2>3, <2>4, <2>5, <2>6
<1> QED
  BY <1>2, <1>3

\* A sound list with its highbit is a bitmap.
LEMMA ListMakesBitmap ==
  ASSUME NEW n, ListOK(n), NEW e, e = [node |-> n, highbit |-> High(n)]
  PROVE  e \in Bitmap /\ RepOK(e)
<1>1. e \in Bitmap
  BY HighIs DEF Bitmap, ListOK
<1> QED
  BY <1>1, RepIs DEF High

LEMMA FinishedOK ==
  ASSUME NEW n, ListOK(n)
  PROVE  Finished(n) = [node |-> n, highbit |-> High(n)]
<1>1. CASE n = <<>>
  BY <1>1 DEF Finished, High
<1>2. CASE n # <<>>
  <2>1. Len(n) \in 1 .. Len(n)
    BY <1>2 DEF ListOK
  <2>2. Last(n).startbit \in Starts /\ Last(n).startbit + MapSize < Limit
    BY <2>1, NodeFacts DEF Last
  <2>3. U32(Last(n).startbit + MapSize) = Last(n).startbit + MapSize
    <3>1. Last(n).startbit < Limit
      BY <2>2, EbitmapAssumption DEF Starts
    <3> QED
      BY <2>2, <3>1, EndOfNode
  <2> QED
    BY <1>2, <2>3 DEF Finished, High
<1> QED
  BY <1>1, <1>2

\* A bitmap is its list and its highbit.
LEMMA BitmapIs ==
  ASSUME NEW e \in Bitmap, RepOK(e)
  PROVE  ListOK(e.node) /\ e.highbit = High(e.node) /\ e = [node |-> e.node, highbit |-> e.highbit]
<1>1. e = [node |-> e.node, highbit |-> e.highbit]
  BY DEF Bitmap
<1> QED
  BY <1>1, RepIs DEF High

-----------------------------------------------------------------------------
(***************************************************************************)
(* ebitmap_or, ebitmap_and and ebitmap_xor.                                *)
(***************************************************************************)
\* A joined list holds the join of the sets.
LEMMA JoinBits ==
  ASSUME NEW kind \in Kinds, NEW e1, NEW e2, ListOK(e1.node), ListOK(e2.node),
         NEW e, Merged(kind, e1.node, e2.node, e.node), NEW b \in Uint
  PROVE  b \in Bits(e) <=> Joined(kind, b \in Bits(e1), b \in Bits(e2))
<1> DEFINE s == StartOf(b)
           o == b - StartOf(b)
<1>1. s \in Starts /\ o \in Offset /\ b = s + o
  <2>1. b \in Nat
    BY EbitmapAssumption DEF Uint
  <2> QED
    BY <2>1, SplitBit
<1> HIDE DEF s, o
<1>2. /\ b \in Bits(e) <=> On(e.node, Len(e.node), s, o)
      /\ b \in Bits(e1) <=> On(e1.node, Len(e1.node), s, o)
      /\ b \in Bits(e2) <=> On(e2.node, Len(e2.node), s, o)
  <2>1. ListOK(e.node)
    BY DEF Merged
  <2> QED
    BY <1>1, <2>1, BitsOn
<1>3. On(e.node, Len(e.node), s, o) <=>
        Joined(kind, On(e1.node, Len(e1.node), s, o), On(e2.node, Len(e2.node), s, o))
  BY DEF Merged
<1> QED
  BY <1>2, <1>3 DEF Joined, Kinds

LEMMA OrOK ==
  ASSUME NEW e1 \in Bitmap, NEW e2 \in Bitmap, RepOK(e1), RepOK(e2)
  PROVE  /\ ebitmap_or(e1, e2) \in Bitmap /\ RepOK(ebitmap_or(e1, e2))
         /\ Bits(ebitmap_or(e1, e2)) = Bits(e1) \cup Bits(e2)
<1> DEFINE n1 == e1.node
           n2 == e2.node
           n == OrNodes(n1, n2)
           e == ebitmap_or(e1, e2)
<1>1. ListOK(n1) /\ ListOK(n2) /\ e1.highbit = High(n1) /\ e2.highbit = High(n2)
  BY BitmapIs
<1>2. e = [node |-> n, highbit |-> IF High(n1) > High(n2) THEN High(n1) ELSE High(n2)]
  BY <1>1 DEF ebitmap_or
<1> HIDE DEF n1, n2, n, e
<1>3. Merged("or", n1, n2, n) /\ ListOK(n)
  BY <1>1, OrMerged DEF Merged, n
<1>4. \A s, o : On(n, Len(n), s, o) <=> On(n1, Len(n1), s, o) \/ On(n2, Len(n2), s, o)
  BY <1>3 DEF Merged, Joined
<1>5. High(n) \in Nat /\ High(n1) \in Nat /\ High(n2) \in Nat
  BY <1>1, <1>3, HighIs
<1>6. High(n1) <= High(n)
  <2>1. CASE High(n1) = 0
    BY <1>5, <2>1
  <2>2. CASE High(n1) # 0
    <3>1. PICK s \in Starts, o \in Offset : s + MapSize = High(n1) /\ On(n1, Len(n1), s, o)
      BY <1>1, <2>2, HighIs
    <3> QED
      BY <1>3, <1>4, <3>1, HighIs
  <2> QED
    BY <2>1, <2>2
<1>7. High(n2) <= High(n)
  <2>1. CASE High(n2) = 0
    BY <1>5, <2>1
  <2>2. CASE High(n2) # 0
    <3>1. PICK s \in Starts, o \in Offset : s + MapSize = High(n2) /\ On(n2, Len(n2), s, o)
      BY <1>1, <2>2, HighIs
    <3> QED
      BY <1>3, <1>4, <3>1, HighIs
  <2> QED
    BY <2>1, <2>2
<1>8. High(n) <= High(n1) \/ High(n) <= High(n2)
  <2>1. CASE High(n) = 0
    BY <1>5, <2>1
  <2>2. CASE High(n) # 0
    <3>1. PICK s \in Starts, o \in Offset : s + MapSize = High(n) /\ On(n, Len(n), s, o)
      BY <1>3, <2>2, HighIs
    <3>2. On(n1, Len(n1), s, o) => s + MapSize <= High(n1)
      BY <1>1, HighIs
    <3>3. On(n2, Len(n2), s, o) => s + MapSize <= High(n2)
      BY <1>1, HighIs
    <3> QED
      BY <1>4, <3>1, <3>2, <3>3
  <2> QED
    BY <2>1, <2>2
<1>9. e = [node |-> n, highbit |-> High(n)]
  BY <1>2, <1>5, <1>6, <1>7, <1>8
<1>10. e \in Bitmap /\ RepOK(e)
  BY <1>3, <1>9, ListMakesBitmap
<1>11. Bits(e) = Bits(e1) \cup Bits(e2)
  <2>1. Merged("or", e1.node, e2.node, e.node) /\ ListOK(e1.node) /\ ListOK(e2.node) /\ ListOK(e.node)
    BY <1>1, <1>3, <1>9 DEF n1, n2
  <2>2. \A b \in Uint : b \in Bits(e) <=> Joined("or", b \in Bits(e1), b \in Bits(e2))
    BY <2>1, JoinBits DEF Kinds
  <2>3. Bits(e) \subseteq Uint /\ Bits(e1) \subseteq Uint /\ Bits(e2) \subseteq Uint
    BY <2>1, BitsOn
  <2> QED
    BY <2>2, <2>3 DEF Joined
<1> QED
  BY <1>10, <1>11 DEF e

LEMMA AndOK ==
  ASSUME NEW e1 \in Bitmap, NEW e2 \in Bitmap, RepOK(e1), RepOK(e2)
  PROVE  /\ ebitmap_and(e1, e2) \in Bitmap /\ RepOK(ebitmap_and(e1, e2))
         /\ Bits(ebitmap_and(e1, e2)) = Bits(e1) \cap Bits(e2)
<1> DEFINE n == AndNodes(e1.node, e2.node)
           e == ebitmap_and(e1, e2)
<1>1. ListOK(e1.node) /\ ListOK(e2.node)
  BY BitmapIs
<1>2. e = Finished(n)
  BY DEF ebitmap_and
<1> HIDE DEF n, e
<1>3. Merged("and", e1.node, e2.node, n) /\ ListOK(n)
  BY <1>1, AndMerged DEF Merged, n
<1>4. e = [node |-> n, highbit |-> High(n)]
  BY <1>2, <1>3, FinishedOK
<1>5. e \in Bitmap /\ RepOK(e)
  BY <1>3, <1>4, ListMakesBitmap
<1>6. Bits(e) = Bits(e1) \cap Bits(e2)
  <2>1. Merged("and", e1.node, e2.node, e.node) /\ ListOK(e.node)
    BY <1>3, <1>4
  <2>2. \A b \in Uint : b \in Bits(e) <=> Joined("and", b \in Bits(e1), b \in Bits(e2))
    BY <1>1, <2>1, JoinBits DEF Kinds
  <2>3. Bits(e) \subseteq Uint /\ Bits(e1) \subseteq Uint /\ Bits(e2) \subseteq Uint
    BY <1>1, <2>1, BitsOn
  <2> QED
    BY <2>2, <2>3 DEF Joined
<1> QED
  BY <1>5, <1>6 DEF e

LEMMA XorOK ==
  ASSUME NEW e1 \in Bitmap, NEW e2 \in Bitmap, RepOK(e1), RepOK(e2)
  PROVE  /\ ebitmap_xor(e1, e2) \in Bitmap /\ RepOK(ebitmap_xor(e1, e2))
         /\ Bits(ebitmap_xor(e1, e2)) = SymDiff(Bits(e1), Bits(e2))
<1> DEFINE n == XorNodes(e1.node, e2.node)
           e == ebitmap_xor(e1, e2)
<1>1. ListOK(e1.node) /\ ListOK(e2.node)
  BY BitmapIs
<1>2. e = Finished(n)
  BY DEF ebitmap_xor
<1> HIDE DEF n, e
<1>3. Merged("xor", e1.node, e2.node, n) /\ ListOK(n)
  BY <1>1, XorMerged DEF Merged, n
<1>4. e = [node |-> n, highbit |-> High(n)]
  BY <1>2, <1>3, FinishedOK
<1>5. e \in Bitmap /\ RepOK(e)
  BY <1>3, <1>4, ListMakesBitmap
<1>6. Bits(e) = SymDiff(Bits(e1), Bits(e2))
  <2>1. Merged("xor", e1.node, e2.node, e.node) /\ ListOK(e.node)
    BY <1>3, <1>4
  <2>2. \A b \in Uint : b \in Bits(e) <=> Joined("xor", b \in Bits(e1), b \in Bits(e2))
    BY <1>1, <2>1, JoinBits DEF Kinds
  <2>3. Bits(e) \subseteq Uint /\ Bits(e1) \subseteq Uint /\ Bits(e2) \subseteq Uint
    BY <1>1, <2>1, BitsOn
  <2> QED
    BY <2>2, <2>3 DEF Joined, SymDiff
<1> QED
  BY <1>5, <1>6 DEF e

-----------------------------------------------------------------------------
(***************************************************************************)
(* ebitmap_not and ebitmap_andnot.                                         *)
(***************************************************************************)
(* The list built so far is the complement, below maxbit, of what the list *)
(* holds before cur_startbit; n is at the first node not before it.        *)
NotInv(n, maxbit, w) ==
    /\ w \in Sweep /\ w.i \in 1 .. Len(n) + 1 /\ w.cur \in Starts /\ ListOK(w.out)
    /\ \A k \in 1 .. w.i - 1 : n[k].startbit < w.cur
    /\ \A k \in w.i .. Len(n) : n[k].startbit >= w.cur
    /\ \A x \in 1 .. Len(w.out) : w.out[x].startbit < w.cur
    /\ \A s \in Starts, o \in Offset :
          On(w.out, Len(w.out), s, o) <=> s < w.cur /\ s + o < maxbit /\ ~On(n, Len(n), s, o)

LEMMA NotTurnOK ==
  ASSUME NEW n, ListOK(n), NEW maxbit \in MaxBits, NEW w, NotInv(n, maxbit, w), w.cur < maxbit
  PROVE  /\ NotInv(n, maxbit, NotTurn(n, maxbit, w))
         /\ NotTurn(n, maxbit, w).cur = w.cur + MapSize
<1> DEFINE i == w.i
           cur == w.cur
           hit == More(n, i) /\ n[i].startbit = cur
           m == {o \in Offset \ (IF hit THEN n[i].map ELSE {}) : cur + o < maxbit}
           new == w.out \o Kept(cur, m)
           v == NotTurn(n, maxbit, w)
<1>1. /\ v.i = IF hit THEN i + 1 ELSE i
      /\ v.cur = cur + MapSize /\ v.out = new
      /\ v = [i |-> IF hit THEN i + 1 ELSE i, cur |-> cur + MapSize, out |-> new]
  BY DEF NotTurn
<1>2. /\ Len(n) \in Nat /\ MapSize \in Nat \ {0} /\ Limit \in Nat /\ maxbit \in Nat /\ maxbit <= Limit - MapSize
  BY EbitmapAssumption DEF ListOK, MaxBits
<1>3. /\ i \in 1 .. Len(n) + 1 /\ i \in Nat /\ cur \in Starts /\ cur \in Nat /\ ListOK(w.out)
      /\ \A k \in 1 .. i - 1 : n[k].startbit < cur
      /\ \A k \in i .. Len(n) : n[k].startbit >= cur
      /\ \A x \in 1 .. Len(w.out) : w.out[x].startbit < cur
      /\ \A s \in Starts, o \in Offset :
            On(w.out, Len(w.out), s, o) <=> s < cur /\ s + o < maxbit /\ ~On(n, Len(n), s, o)
  BY <1>2, SMTT(30) DEF NotInv, Starts
<1>4. cur + MapSize < Limit /\ cur < maxbit
  BY <1>2, <1>3
<1>5. hit <=> i \in 1 .. Len(n) /\ n[i].startbit = cur
  BY <1>2, <1>3 DEF More
<1>6. \A k \in 1 .. Len(n) : n[k].startbit \in Starts /\ n[k].startbit \in Nat
  BY NodeFacts
<1> HIDE DEF hit, cur, i, v
<1>7. \A o \in Offset : On(n, Len(n), cur, o) <=> hit /\ o \in n[i].map
  <2> SUFFICES ASSUME NEW o \in Offset PROVE On(n, Len(n), cur, o) <=> hit /\ o \in n[i].map
    OBVIOUS
  <2>1. ASSUME On(n, Len(n), cur, o) PROVE hit /\ o \in n[i].map
    <3>1. PICK x \in 1 .. Len(n) : n[x].startbit = cur /\ o \in n[x].map
      BY <2>1 DEF On
    <3>2. x >= i
      BY <1>2, <1>3, <1>6, <3>1
    <3>3. ~(x > i)
      <4> SUFFICES ASSUME x > i PROVE FALSE
        OBVIOUS
      <4>1. i \in 1 .. Len(n)
        BY <1>2, <1>3
      <4>2. n[i].startbit < n[x].startbit /\ n[i].startbit \in Nat
        BY <1>6, <4>1, Increasing
      <4>3. n[i].startbit >= cur
        BY <1>2, <1>3, <4>1
      <4> QED
        BY <1>3, <3>1, <4>2, <4>3
    <3>4. x = i
      BY <1>3, <3>2, <3>3
    <3> QED
      BY <1>5, <3>1, <3>4
  <2>2. ASSUME hit, o \in n[i].map PROVE On(n, Len(n), cur, o)
    BY <1>5, <2>2 DEF On
  <2> QED
    BY <2>1, <2>2
<1>8. m \in SUBSET Offset /\ \A o \in Offset : o \in m <=> cur + o < maxbit /\ ~On(n, Len(n), cur, o)
  BY <1>7
<1> HIDE DEF m
<1>9. /\ ListOK(new) /\ Len(new) >= Len(w.out) /\ Len(w.out) \in Nat
      /\ \A x \in 1 .. Len(w.out) : new[x] = w.out[x]
      /\ \A x \in 1 .. Len(new) : x \in 1 .. Len(w.out) \/ new[x].startbit = cur
      /\ \A s, o : On(new, Len(new), s, o) <=> On(w.out, Len(w.out), s, o) \/ (s = cur /\ o \in m)
  <2>1. PICK l : l = w.out
    OBVIOUS
  <2>2. ListOK(l) /\ \A x \in 1 .. Len(l) : l[x].startbit < cur
    BY <1>3, <2>1
  <2> DEFINE nl == l \o Kept(cur, m)
  <2>3. /\ ListOK(nl) /\ Len(nl) >= Len(l)
        /\ \A x \in 1 .. Len(l) : nl[x] = l[x]
        /\ \A x \in 1 .. Len(nl) : x \in 1 .. Len(l) \/ nl[x].startbit = cur
        /\ \A s, o : On(nl, Len(nl), s, o) <=> On(l, Len(l), s, o) \/ (s = cur /\ o \in m)
    BY <1>3, <1>4, <1>8, <2>2, KeepNode
  <2>4. nl = new
    BY <2>1
  <2>5. Len(l) \in Nat
    BY <2>2 DEF ListOK
  <2> HIDE DEF nl, new
  <2> QED
    BY <2>1, <2>3, <2>4, <2>5
<1> HIDE DEF new
<1>10. \A s \in Starts : s < cur + MapSize <=> s < cur \/ s = cur
  <2> SUFFICES ASSUME NEW s \in Starts PROVE s < cur + MapSize <=> s < cur \/ s = cur
    OBVIOUS
  <2>1. cur < s => cur + MapSize <= s
    BY <1>3, StartsApart
  <2>2. s \in Nat
    BY DEF Starts
  <2> QED
    BY <1>2, <1>3, <2>1, <2>2
<1>11. ASSUME NEW s \in Starts, NEW o \in Offset
       PROVE  On(new, Len(new), s, o) <=> s < cur + MapSize /\ s + o < maxbit /\ ~On(n, Len(n), s, o)
  <2>1. s \in Nat
    BY DEF Starts
  <2>2. CASE s = cur
    <3>1. ~(s < cur)
      BY <1>3, <2>2
    <3> QED
      BY <1>3, <1>8, <1>9, <1>10, <2>2, <3>1
  <2>3. CASE s # cur
    BY <1>3, <1>9, <1>10, <2>3
  <2> QED
    BY <2>2, <2>3
<1>12. ASSUME NEW k \in 1 .. v.i - 1 PROVE n[k].startbit < cur + MapSize
  <2>1. CASE k \in 1 .. i - 1
    <3>1. n[k].startbit < cur /\ k \in 1 .. Len(n)
      BY <1>2, <1>3, <2>1
    <3> QED
      BY <1>2, <1>3, <1>6, <3>1
  <2>2. CASE k \notin 1 .. i - 1
    <3>1. hit /\ k = i
      BY <1>1, <1>3, <2>2
    <3> QED
      BY <1>2, <1>3, <1>5, <3>1
  <2> QED
    BY <2>1, <2>2
<1>13. ASSUME NEW k \in v.i .. Len(n) PROVE n[k].startbit >= cur + MapSize
  <2>1. k \in 1 .. Len(n) /\ k >= i
    BY <1>1, <1>2, <1>3
  <2>2. n[k].startbit >= cur
    BY <1>2, <1>3, <2>1
  <2>3. n[k].startbit # cur
    <3>1. CASE hit
      <4>1. i \in 1 .. Len(n) /\ n[i].startbit = cur /\ i < k
        BY <1>1, <1>3, <1>5, <2>1, <3>1
      <4>2. n[i].startbit < n[k].startbit
        BY <2>1, <4>1, Increasing
      <4> QED
        BY <1>3, <4>1, <4>2
    <3>2. CASE ~hit
      <4>1. k = i => n[k].startbit # cur
        BY <1>5, <2>1, <3>2
      <4>2. ASSUME k # i PROVE n[k].startbit # cur
        <5>1. i \in 1 .. Len(n) /\ i < k
          BY <1>3, <2>1, <4>2
        <5>2. n[i].startbit < n[k].startbit /\ n[i].startbit >= cur
          BY <1>2, <1>3, <2>1, <5>1, Increasing
        <5> QED
          BY <1>3, <1>6, <2>1, <5>1, <5>2
      <4> QED
        BY <4>1, <4>2
    <3> QED
      BY <3>1, <3>2
  <2>4. n[k].startbit \in Starts /\ cur < n[k].startbit
    BY <1>3, <1>6, <2>1, <2>2, <2>3
  <2>5. cur + MapSize <= n[k].startbit
    BY <1>3, <2>4, StartsApart
  <2> QED
    BY <1>2, <1>3, <1>6, <2>1, <2>5
<1>14. v \in Sweep /\ v.i \in 1 .. Len(n) + 1 /\ v.cur \in Starts
  <2>1. cur + MapSize \in Starts /\ cur + MapSize \in Nat
    BY <1>2, <1>3, NextStart
  <2>2. v.i \in 1 .. Len(n) + 1 /\ v.i \in Nat
    BY <1>1, <1>2, <1>3, <1>5
  <2>3. new \in Seq(Nodes)
    BY <1>9 DEF ListOK
  <2> QED
    BY <1>1, <2>1, <2>2, <2>3 DEF Sweep
<1>15. ASSUME NEW x \in 1 .. Len(new) PROVE new[x].startbit < cur + MapSize
  <2>1. new[x].startbit = cur \/ (new[x].startbit < cur /\ new[x].startbit \in Nat)
    <3>1. new[x].startbit \in Nat
      BY <1>9, NodeFacts
    <3> QED
      BY <1>3, <1>9, <3>1
  <2> QED
    BY <1>2, <1>3, <2>1
<1>16. NotInv(n, maxbit, v)
  BY <1>1, <1>9, <1>11, <1>12, <1>13, <1>14, <1>15 DEF NotInv
<1> QED
  BY <1>1, <1>16 DEF v, cur

\* The list of ebitmap_not.
LEMMA NotNodesOK ==
  ASSUME NEW n, ListOK(n), NEW maxbit \in MaxBits
  PROVE  /\ ListOK(NotNodes(n, maxbit))
         /\ \A s \in Starts, o \in Offset :
               On(NotNodes(n, maxbit), Len(NotNodes(n, maxbit)), s, o) <=>
                  s + o < maxbit /\ ~On(n, Len(n), s, o)
<1> DEFINE start == [i |-> 1, cur |-> 0, out |-> <<>>]
           turn == [w \in Sweep |-> NotTurn(n, maxbit, w)]
           Far(w, k) == w.cur >= maxbit \/ w.cur >= k
           V == [k \in 0 .. maxbit |-> {w \in Sweep : NotInv(n, maxbit, w) /\ Far(w, k)}]
           l == Loop(maxbit, start, turn)
<1>1. maxbit \in Nat /\ MapSize \in Nat \ {0} /\ Len(n) \in Nat
  BY EbitmapAssumption DEF MaxBits, ListOK
<1>2. start \in V[0]
  <2>1. /\ start \in Sweep /\ start.i = 1 /\ start.cur = 0 /\ start.out = <<>>
        /\ Len(<<>>) = 0 /\ <<>> \in Seq(Nodes)
    BY DEF Sweep
  <2>2. ListOK(<<>>) /\ \A s, o : ~On(<<>>, 0, s, o)
    BY <2>1 DEF ListOK, On
  <2>3. 0 \in Starts
    <3>1. (MapSize * 0 + 0) % MapSize = 0
      BY <1>1
    <3> QED
      BY <1>1, <3>1 DEF Starts
  <2>4. \A k \in 1 .. Len(n) : n[k].startbit >= 0
    BY NodeFacts
  <2>5. \A s \in Starts : ~(s < 0)
    BY DEF Starts
  <2> HIDE DEF start
  <2>6. NotInv(n, maxbit, start)
    BY <1>1, <2>1, <2>2, <2>3, <2>4, <2>5 DEF NotInv
  <2>7. Far(start, 0)
    BY <1>1, <2>1
  <2> QED
    BY <1>1, <2>1, <2>6, <2>7
<1>3. ASSUME NEW k \in 1 .. maxbit, NEW w \in V[k - 1] PROVE turn[w] \in V[k]
  <2>0. k - 1 \in 0 .. maxbit /\ k \in 0 .. maxbit /\ k \in Nat
    BY <1>1
  <2>1. w \in Sweep /\ NotInv(n, maxbit, w) /\ Far(w, k - 1) /\ turn[w] = NotTurn(n, maxbit, w) /\ w.cur \in Nat
    BY <2>0 DEF Sweep
  <2>2. CASE ~(w.cur < maxbit)
    <3>1. turn[w] = w
      BY <2>1, <2>2 DEF NotTurn
    <3>2. Far(w, k)
      BY <1>1, <2>1, <2>2
    <3> QED
      BY <2>0, <2>1, <3>1, <3>2
  <2>3. CASE w.cur < maxbit
    <3>1. NotInv(n, maxbit, turn[w]) /\ turn[w].cur = w.cur + MapSize
      BY <2>1, <2>3, NotTurnOK
    <3>2. turn[w] \in Sweep
      BY <3>1 DEF NotInv
    <3>3. w.cur >= k - 1
      BY <1>1, <2>1, <2>3
    <3>4. Far(turn[w], k)
      BY <1>1, <2>0, <2>1, <3>1, <3>3
    <3> QED
      BY <2>0, <3>1, <3>2, <3>4
  <2> QED
    BY <2>2, <2>3
<1>4. l \in V[maxbit]
  <2> HIDE DEF V, start, turn
  <2> QED
    BY <1>1, <1>2, <1>3, LoopInvariant
<1>5. NotNodes(n, maxbit) = l.out
  BY DEF NotNodes
<1> HIDE DEF l
<1>6. NotInv(n, maxbit, l) /\ l.cur >= maxbit /\ l.cur \in Nat
  BY <1>1, <1>4 DEF Sweep
<1>7. ASSUME NEW s \in Starts, NEW o \in Offset
      PROVE  On(l.out, Len(l.out), s, o) <=> s + o < maxbit /\ ~On(n, Len(n), s, o)
  <2>1. s \in Nat /\ o \in Nat
    BY <1>1 DEF Starts, Offset
  <2>2. s + o < maxbit => s < l.cur
    BY <1>1, <1>6, <2>1
  <2> QED
    BY <1>6, <2>2 DEF NotInv
<1> QED
  BY <1>5, <1>6, <1>7 DEF NotInv

LEMMA NotOK ==
  ASSUME NEW e1 \in Bitmap, RepOK(e1), NEW maxbit \in MaxBits
  PROVE  /\ ebitmap_not(e1, maxbit) \in Bitmap /\ RepOK(ebitmap_not(e1, maxbit))
         /\ Bits(ebitmap_not(e1, maxbit)) = {b \in Uint : b < maxbit} \ Bits(e1)
<1> DEFINE n == NotNodes(e1.node, maxbit)
           e == ebitmap_not(e1, maxbit)
           C == {b \in Uint : b < maxbit} \ Bits(e1)
<1>1. ListOK(e1.node)
  BY BitmapIs
<1>2. e = Finished(n)
  BY DEF ebitmap_not
<1> HIDE DEF n, e
<1>3. ListOK(n) /\ \A s \in Starts, o \in Offset :
                      On(n, Len(n), s, o) <=> s + o < maxbit /\ ~On(e1.node, Len(e1.node), s, o)
  BY <1>1, NotNodesOK DEF n
<1>4. e = [node |-> n, highbit |-> High(n)]
  BY <1>2, <1>3, FinishedOK
<1>5. e \in Bitmap /\ RepOK(e)
  BY <1>3, <1>4, ListMakesBitmap
<1>6. Bits(e) = C
  <2>1. ListOK(e.node) /\ e.node = n
    BY <1>3, <1>4
  <2>2. Bits(e) \subseteq Uint /\ C \subseteq Uint
    BY <2>1, BitsOn
  <2>3. ASSUME NEW s \in Starts, NEW o \in Offset PROVE s + o \in Bits(e) <=> s + o \in C
    <3>1. s + o \in Bits(e) <=> s + o < maxbit /\ ~(s + o \in Bits(e1))
      BY <1>1, <1>3, <2>1, BitsOn
    <3>2. s + o < maxbit => s + o \in Uint
      BY EbitmapAssumption DEF Starts, Offset, Uint, MaxBits
    <3> QED
      BY <3>1, <3>2
  <2> HIDE DEF C
  <2> QED
    BY <2>2, <2>3, SameBits
<1> QED
  BY <1>5, <1>6 DEF e

LEMMA AndNotOK ==
  ASSUME NEW e1 \in Bitmap, NEW e2 \in Bitmap, RepOK(e1), RepOK(e2), NEW maxbit \in MaxBits
  PROVE  /\ ebitmap_andnot(e1, e2, maxbit) \in Bitmap /\ RepOK(ebitmap_andnot(e1, e2, maxbit))
         /\ Bits(ebitmap_andnot(e1, e2, maxbit)) = (Bits(e1) \cap {b \in Uint : b < maxbit}) \ Bits(e2)
<1> DEFINE e3 == ebitmap_not(e2, maxbit)
<1>1. e3 \in Bitmap /\ RepOK(e3) /\ Bits(e3) = {b \in Uint : b < maxbit} \ Bits(e2)
  BY NotOK
<1>2. ebitmap_andnot(e1, e2, maxbit) = ebitmap_and(e1, e3)
  BY DEF ebitmap_andnot
<1> HIDE DEF e3
<1>3. /\ ebitmap_and(e1, e3) \in Bitmap /\ RepOK(ebitmap_and(e1, e3))
      /\ Bits(ebitmap_and(e1, e3)) = Bits(e1) \cap Bits(e3)
  BY <1>1, AndOK
<1> QED
  BY <1>1, <1>2, <1>3

-----------------------------------------------------------------------------
(***************************************************************************)
(* ebitmap_set_bit and ebitmap_get_bit.                                    *)
(***************************************************************************)
\* The walk stops at the first node that ends after the bit.
LEMMA StopAtIs ==
  ASSUME NEW n, ListOK(n), NEW bit \in Nat
  PROVE  /\ StopAt(n, bit) \in 1 .. Len(n) + 1
         /\ \A j \in 1 .. StopAt(n, bit) - 1 : n[j].startbit + MapSize <= bit
         /\ StopAt(n, bit) <= Len(n) => n[StopAt(n, bit)].startbit + MapSize > bit
<1> DEFINE Ends(j) == n[j].startbit + MapSize <= bit
           P(i) == /\ \/ i = Len(n) + 1
                      \/ n[i].startbit > bit
                      \/ n[i].startbit + MapSize > bit
                   /\ \A j \in 1 .. i - 1 : n[j].startbit + MapSize <= bit /\ n[j].startbit <= bit
           T == {k \in 0 .. Len(n) : \A j \in 1 .. k : Ends(j)}
<1>1. Len(n) \in Nat /\ MapSize \in Nat \ {0}
  BY EbitmapAssumption DEF ListOK
<1>2. \A j \in 1 .. Len(n) : n[j].startbit \in Nat
  BY NodeFacts
<1>3. \A j \in 1 .. Len(n) : Ends(j) => n[j].startbit <= bit
  BY <1>1, <1>2
<1>4. \E i \in 1 .. Len(n) + 1 : P(i)
  <2>1. 0 \in T
    BY <1>1
  <2>2. CASE \A k \in 1 .. Len(n) : k - 1 \in T => k \in T
    <3>1. T = 0 .. Len(n)
      <4>1. T \in SUBSET (0 .. Len(n))
        OBVIOUS
      <4> HIDE DEF T
      <4> QED
        BY <1>1, <2>1, <2>2, <4>1, Induct
    <3>2. Len(n) \in T
      BY <1>1, <3>1
    <3>3. P(Len(n) + 1)
      BY <1>1, <1>3, <3>2
    <3> QED
      BY <1>1, <3>3
  <2>3. CASE \E k \in 1 .. Len(n) : k - 1 \in T /\ k \notin T
    <3>1. PICK k \in 1 .. Len(n) : k - 1 \in T /\ k \notin T
      BY <2>3
    <3>2. \A j \in 1 .. k - 1 : Ends(j)
      BY <3>1
    <3>3. ~Ends(k)
      <4>1. \A j \in 1 .. k : j \in 1 .. k - 1 \/ j = k
        OBVIOUS
      <4> QED
        BY <1>1, <3>1, <3>2, <4>1
    <3>4. P(k)
      <4>1. n[k].startbit + MapSize > bit
        BY <1>1, <1>2, <3>3
      <4>2. \A j \in 1 .. k - 1 : j \in 1 .. Len(n)
        BY <1>1
      <4> QED
        BY <1>3, <3>2, <4>1, <4>2
    <3> QED
      BY <1>1, <3>4
  <2> QED
    BY <2>2, <2>3
<1>5. StopAt(n, bit) = CHOOSE i \in 1 .. Len(n) + 1 : P(i)
  BY DEF StopAt
<1>6. StopAt(n, bit) \in 1 .. Len(n) + 1 /\ P(StopAt(n, bit))
  <2> HIDE DEF P
  <2> QED
    BY <1>4, <1>5
<1>7. StopAt(n, bit) <= Len(n) => n[StopAt(n, bit)].startbit + MapSize > bit
  <2> SUFFICES ASSUME StopAt(n, bit) <= Len(n) PROVE n[StopAt(n, bit)].startbit + MapSize > bit
    OBVIOUS
  <2>1. PICK i : i = StopAt(n, bit)
    OBVIOUS
  <2>2. i \in 1 .. Len(n) /\ P(i)
    BY <1>1, <1>6, <2>1
  <2>3. n[i].startbit \in Nat
    BY <1>2, <2>2
  <2>4. n[i].startbit + MapSize > bit
    BY <1>1, <2>2, <2>3
  <2> QED
    BY <2>1, <2>4
<1> QED
  BY <1>6, <1>7

\* Only the node a start bit is at holds anything of it.
LEMMA OnAt ==
  ASSUME NEW n, ListOK(n), NEW i \in 1 .. Len(n)
  PROVE  \A o : On(n, Len(n), n[i].startbit, o) <=> o \in n[i].map
<1> SUFFICES ASSUME NEW o, On(n, Len(n), n[i].startbit, o) PROVE o \in n[i].map
  BY DEF On
<1>1. PICK x \in 1 .. Len(n) : n[x].startbit = n[i].startbit /\ o \in n[x].map
  BY DEF On
<1>2. n[x].startbit \in Nat /\ Len(n) \in Nat
  BY NodeFacts
<1>3. ~(x < i) /\ ~(i < x)
  BY <1>1, <1>2, Increasing
<1>4. x = i
  BY <1>2, <1>3
<1> QED
  BY <1>1, <1>4

\* Where the walk stops is the node of the bit if the list has one.
LEMMA StopFinds ==
  ASSUME NEW n, ListOK(n), NEW bit \in Nat, NEW i, i = StopAt(n, bit)
  PROVE  /\ i \in 1 .. Len(n) + 1
         /\ Hits(n, i, bit) => i \in 1 .. Len(n) /\ n[i].startbit = StartOf(bit)
         /\ ~Hits(n, i, bit) => /\ \A j \in 1 .. i - 1 : n[j].startbit < StartOf(bit)
                                /\ \A j \in i .. Len(n) : StartOf(bit) < n[j].startbit
                                /\ \A o : ~On(n, Len(n), StartOf(bit), o)
<1> DEFINE s == StartOf(bit)
<1>1. s \in Starts /\ s \in Nat /\ bit - s \in Offset
  BY SplitBit DEF Starts
<1>2. MapSize \in Nat \ {0} /\ Len(n) \in Nat /\ s <= bit /\ bit < s + MapSize
  BY <1>1, EbitmapAssumption DEF Offset, ListOK
<1> HIDE DEF s
<1>3. /\ i \in 1 .. Len(n) + 1
      /\ \A j \in 1 .. i - 1 : n[j].startbit + MapSize <= bit
      /\ i <= Len(n) => n[i].startbit + MapSize > bit
  BY StopAtIs
<1>4. \A j \in 1 .. Len(n) : n[j].startbit \in Nat /\ n[j].startbit \in Starts
  BY NodeFacts
<1>5. ASSUME Hits(n, i, bit) PROVE i \in 1 .. Len(n) /\ n[i].startbit = s
  <2>1. i \in 1 .. Len(n) /\ n[i].startbit <= bit /\ n[i].startbit + MapSize > bit
    BY <1>2, <1>3, <1>5 DEF Hits
  <2>2. bit - n[i].startbit \in Offset /\ n[i].startbit + (bit - n[i].startbit) = s + (bit - s)
    BY <1>1, <1>2, <1>4, <2>1 DEF Offset
  <2>3. n[i].startbit = s
    BY <1>1, <1>4, <2>1, <2>2, OneSplit
  <2> QED
    BY <2>1, <2>3
<1>6. ASSUME ~Hits(n, i, bit)
      PROVE  /\ \A j \in 1 .. i - 1 : n[j].startbit < s
             /\ \A j \in i .. Len(n) : s < n[j].startbit
             /\ \A o : ~On(n, Len(n), s, o)
  <2>1. ASSUME NEW j \in 1 .. i - 1 PROVE n[j].startbit < s
    <3>1. j \in 1 .. Len(n) /\ n[j].startbit + MapSize <= bit
      BY <1>2, <1>3
    <3>2. n[j].startbit \in Nat
      BY <1>4, <3>1
    <3> QED
      BY <1>1, <1>2, <3>1, <3>2
  <2>2. ASSUME NEW j \in i .. Len(n) PROVE s < n[j].startbit
    <3>1. i \in 1 .. Len(n) /\ j \in 1 .. Len(n)
      BY <1>2, <1>3
    <3>2. n[i].startbit > bit /\ n[i].startbit \in Nat /\ n[j].startbit \in Nat
      BY <1>4, <1>6, <3>1 DEF Hits
    <3>3. j = i \/ i < j
      BY <3>1
    <3>4. i < j => n[i].startbit < n[j].startbit
      BY <3>1, Increasing
    <3> QED
      BY <1>1, <1>2, <3>2, <3>3, <3>4
  <2>3. \A j \in 1 .. Len(n) : n[j].startbit # s
    <3> SUFFICES ASSUME NEW j \in 1 .. Len(n) PROVE n[j].startbit # s
      OBVIOUS
    <3>1. j \in 1 .. i - 1 \/ j \in i .. Len(n)
      BY <1>2, <1>3
    <3> QED
      BY <1>1, <1>4, <2>1, <2>2, <3>1
  <2> QED
    BY <2>1, <2>2, <2>3 DEF On
<1> QED
  BY <1>3, <1>5, <1>6 DEF s

\* ebitmap_get_bit is membership.
LEMMA GetBitIs ==
  ASSUME NEW e \in Bitmap, RepOK(e), NEW bit \in Uint
  PROVE  ebitmap_get_bit(e, bit) <=> bit \in Bits(e)
<1> DEFINE n == e.node
           i == StopAt(n, bit)
           s == StartOf(bit)
<1>1. ListOK(n) /\ e.highbit = High(n)
  BY BitmapIs
<1>2. bit \in Nat /\ MapSize \in Nat \ {0}
  BY EbitmapAssumption DEF Uint
<1>3. s \in Starts /\ s \in Nat /\ bit - s \in Offset /\ bit = s + (bit - s)
  BY <1>2, SplitBit DEF Starts
<1>4. bit \in Bits(e) <=> On(n, Len(n), s, bit - s)
  BY <1>1, <1>3, BitsOn
<1>5. ebitmap_get_bit(e, bit) <=>
        e.highbit >= bit /\ Hits(n, i, bit) /\ bit - n[i].startbit \in n[i].map
  BY DEF ebitmap_get_bit
<1> HIDE DEF i, n, s
<1>6. /\ Hits(n, i, bit) => i \in 1 .. Len(n) /\ n[i].startbit = s
      /\ ~Hits(n, i, bit) => \A o : ~On(n, Len(n), s, o)
  BY <1>1, <1>2, StopFinds DEF i, s
<1>7. CASE Hits(n, i, bit)
  <2>1. i \in 1 .. Len(n) /\ n[i].startbit = s
    BY <1>6, <1>7
  <2>2. bit \in Bits(e) <=> bit - s \in n[i].map
    BY <1>1, <1>4, <2>1, OnAt
  <2>3. e.highbit >= bit
    <3>1. s + MapSize <= High(n) /\ High(n) \in Nat
      BY <1>1, <2>1, HighIs
    <3> QED
      BY <1>1, <1>2, <1>3, <3>1 DEF Offset
  <2> QED
    BY <1>5, <1>7, <2>1, <2>2, <2>3
<1>8. CASE ~Hits(n, i, bit)
  BY <1>4, <1>5, <1>6, <1>8
<1> QED
  BY <1>7, <1>8

\* A node whose map changes.
Changed(n, i, m) == [n EXCEPT ![i].map = m]

LEMMA ChangeMap ==
  ASSUME NEW n, ListOK(n), NEW i \in 1 .. Len(n), NEW m \in SUBSET Offset, m # {},
         NEW new, new = Changed(n, i, m)
  PROVE  /\ ListOK(new) /\ High(new) = High(n)
         /\ \A s, o : On(new, Len(new), s, o) <=>
                        IF s = n[i].startbit THEN o \in m ELSE On(n, Len(n), s, o)
<1>1. n \in Seq(Nodes) /\ Len(n) \in Nat /\ n[i] \in Nodes /\ NodeOK(n[i])
  BY DEF ListOK
<1> DEFINE y == [n[i] EXCEPT !.map = m]
<1>2. y \in Nodes /\ y.startbit = n[i].startbit /\ y.map = m
  BY <1>1 DEF Nodes
<1>3. new = [n EXCEPT ![i] = y]
  BY DEF Changed
<1> HIDE DEF y
<1>4. /\ new \in Seq(Nodes) /\ Len(new) = Len(n) /\ new[i] = y
      /\ \A x \in 1 .. Len(n) : x # i => new[x] = n[x]
  BY <1>1, <1>2, <1>3
<1>5. \A x \in 1 .. Len(n) : new[x].startbit = n[x].startbit
  BY <1>2, <1>4
<1>6. NodeOK(y)
  BY <1>1, <1>2 DEF NodeOK
<1>7. ListOK(new)
  <2>1. \A x \in 1 .. Len(new) : NodeOK(new[x])
    BY <1>4, <1>6 DEF ListOK
  <2>2. ASSUME NEW x \in 2 .. Len(new) PROVE new[x - 1].startbit < new[x].startbit
    <3>1. x \in 2 .. Len(n) /\ x - 1 \in 1 .. Len(n) /\ x \in 1 .. Len(n)
      BY <1>1, <1>4
    <3>2. n[x - 1].startbit < n[x].startbit
      BY <3>1 DEF ListOK
    <3> QED
      BY <1>5, <3>1, <3>2
  <2> QED
    BY <1>4, <2>1, <2>2 DEF ListOK
<1>8. High(new) = High(n)
  <2>1. n # <<>> /\ new # <<>> /\ Len(n) \in 1 .. Len(n)
    BY <1>1, <1>4
  <2> QED
    BY <1>4, <1>5, <2>1 DEF High, Last
<1>9. ASSUME NEW s, NEW o
      PROVE  On(new, Len(new), s, o) <=> IF s = n[i].startbit THEN o \in m ELSE On(n, Len(n), s, o)
  <2>1. CASE s = n[i].startbit
    <3>1. i \in 1 .. Len(new) /\ new[i].startbit = s /\ new[i].map = m
      BY <1>2, <1>4, <2>1
    <3>2. On(new, Len(new), new[i].startbit, o) <=> o \in new[i].map
      BY <1>7, <3>1, OnAt
    <3> QED
      BY <2>1, <3>1, <3>2
  <2>2. CASE s # n[i].startbit
    <3>1. \A x \in 1 .. Len(n) : new[x].startbit = s => new[x] = n[x]
      BY <1>4, <1>5, <2>2
    <3>2. \A x \in 1 .. Len(n) : n[x].startbit = s => new[x] = n[x]
      BY <1>4, <2>2
    <3> QED
      BY <1>4, <2>2, <3>1, <3>2 DEF On
  <2> QED
    BY <2>1, <2>2
<1> QED
  BY <1>7, <1>8, <1>9

\* A node taken out of the list.
LEMMA RemoveNode ==
  ASSUME NEW n, ListOK(n), NEW i \in 1 .. Len(n), NEW new, new = RemoveAt(n, i)
  PROVE  /\ ListOK(new)
         /\ High(new) = IF i < Len(n) THEN High(n)
                        ELSE IF i > 1 THEN n[i - 1].startbit + MapSize ELSE 0
         /\ \A s, o : On(new, Len(new), s, o) <=> s # n[i].startbit /\ On(n, Len(n), s, o)
<1> DEFINE a == SubSeq(n, 1, i - 1)
           b == SubSeq(n, i + 1, Len(n))
<1>1. n \in Seq(Nodes) /\ Len(n) \in Nat
  BY DEF ListOK
<1>2. a \in Seq(Nodes) /\ Len(a) = i - 1 /\ \A x \in 1 .. i - 1 : a[x] = n[x]
  BY <1>1
<1>3. b \in Seq(Nodes) /\ Len(b) = Len(n) - i /\ \A x \in 1 .. Len(n) - i : b[x] = n[i + x]
  BY <1>1
<1>4. new = a \o b
  BY DEF RemoveAt
<1> HIDE DEF a, b
<1>5. /\ new \in Seq(Nodes) /\ Len(new) = Len(n) - 1
      /\ \A x \in 1 .. Len(n) - 1 : new[x] = IF x < i THEN n[x] ELSE n[x + 1]
  <2>0. a \in Seq(Nodes) /\ b \in Seq(Nodes)
    BY <1>2, <1>3
  <2>1. new \in Seq(Nodes) /\ Len(new) = (i - 1) + (Len(n) - i)
    <3>1. new \in Seq(Nodes) /\ Len(new) = Len(a) + Len(b)
      BY <1>4, <2>0, ConcatProperties
    <3> QED
      BY <1>2, <1>3, <3>1
  <2>2. \A x \in 1 .. Len(new) : new[x] = IF x <= Len(a) THEN a[x] ELSE b[x - Len(a)]
    BY <1>2, <1>3, <1>4
  <2>3. ASSUME NEW x \in 1 .. Len(n) - 1 PROVE new[x] = IF x < i THEN n[x] ELSE n[x + 1]
    <3>1. x \in 1 .. Len(new)
      BY <1>1, <2>1
    <3>2. CASE x < i
      <4>1. x <= Len(a) /\ x \in 1 .. i - 1
        BY <1>1, <1>2, <3>2
      <4> QED
        BY <1>2, <2>2, <3>1, <3>2, <4>1
    <3>3. CASE ~(x < i)
      <4>1. ~(x <= Len(a)) /\ x - Len(a) \in 1 .. Len(n) - i /\ i + (x - Len(a)) = x + 1
        BY <1>1, <1>2, <3>3
      <4> QED
        BY <1>3, <2>2, <3>1, <3>3, <4>1
    <3> QED
      BY <3>2, <3>3
  <2> QED
    BY <1>1, <2>1, <2>3
<1>6. \A x, y \in 1 .. Len(n) : x < y => n[x].startbit < n[y].startbit
  BY Increasing
<1> DEFINE Old(x) == IF x < i THEN x ELSE x + 1
<1>7. \A x \in 1 .. Len(new) : Old(x) \in 1 .. Len(n) /\ Old(x) # i /\ new[x] = n[Old(x)]
  BY <1>1, <1>5
<1>8. ListOK(new)
  <2>1. \A x \in 1 .. Len(new) : NodeOK(new[x])
    <3> HIDE DEF Old
    <3> QED
      BY <1>7 DEF ListOK
  <2>2. ASSUME NEW x \in 2 .. Len(new) PROVE new[x - 1].startbit < new[x].startbit
    <3>1. x \in 1 .. Len(new) /\ x - 1 \in 1 .. Len(new) /\ Old(x - 1) < Old(x)
      BY <1>1, <1>5
    <3> HIDE DEF Old
    <3> QED
      BY <1>6, <1>7, <3>1
  <2> QED
    BY <1>5, <2>1, <2>2 DEF ListOK
<1>9. High(new) = IF i < Len(n) THEN High(n) ELSE IF i > 1 THEN n[i - 1].startbit + MapSize ELSE 0
  <2>1. CASE i < Len(n)
    <3>1. Len(new) \in 1 .. Len(new) /\ Old(Len(new)) = Len(n) /\ n # <<>> /\ new # <<>>
      BY <1>1, <1>5, <2>1
    <3>2. new[Len(new)] = n[Len(n)]
      BY <1>7, <3>1
    <3> QED
      BY <2>1, <3>1, <3>2 DEF High, Last
  <2>2. CASE i = Len(n) /\ i > 1
    <3>1. Len(new) \in 1 .. Len(new) /\ Old(Len(new)) = i - 1 /\ new # <<>>
      BY <1>1, <1>5, <2>2
    <3>2. new[Len(new)] = n[i - 1]
      BY <1>7, <3>1
    <3> QED
      BY <1>1, <2>2, <3>1, <3>2 DEF High, Last
  <2>3. CASE i = Len(n) /\ i = 1
    <3>1. new = <<>>
      BY <1>1, <1>5, <2>3
    <3> QED
      BY <2>3, <3>1 DEF High
  <2> QED
    BY <1>1, <2>1, <2>2, <2>3
<1>10. ASSUME NEW s, NEW o
       PROVE  On(new, Len(new), s, o) <=> s # n[i].startbit /\ On(n, Len(n), s, o)
  <2>1. ASSUME On(new, Len(new), s, o) PROVE s # n[i].startbit /\ On(n, Len(n), s, o)
    <3>1. PICK x \in 1 .. Len(new) : new[x].startbit = s /\ o \in new[x].map
      BY <2>1 DEF On
    <3>2. PICK y \in 1 .. Len(n) : y # i /\ new[x] = n[y]
      BY <1>7
    <3>3. n[y].startbit \in Nat /\ n[i].startbit \in Nat
      BY NodeFacts
    <3>4. n[y].startbit # n[i].startbit
      <4>1. y < i \/ i < y
        BY <3>2
      <4> QED
        BY <1>6, <3>3, <4>1
    <3> QED
      BY <3>1, <3>2, <3>4 DEF On
  <2>2. ASSUME s # n[i].startbit, On(n, Len(n), s, o) PROVE On(new, Len(new), s, o)
    <3>1. PICK y \in 1 .. Len(n) : n[y].startbit = s /\ o \in n[y].map
      BY <2>2 DEF On
    <3>2. y # i
      BY <2>2, <3>1
    <3> DEFINE x == IF y < i THEN y ELSE y - 1
    <3>3. x \in 1 .. Len(new) /\ Old(x) = y
      BY <1>1, <1>5, <3>2
    <3>4. new[x] = n[y]
      BY <1>7, <3>3
    <3> HIDE DEF x, Old
    <3> QED
      BY <3>1, <3>3, <3>4 DEF On
  <2> QED
    BY <2>1, <2>2
<1> QED
  BY <1>8, <1>9, <1>10

\* A node put between two others.
LEMMA InsertNode ==
  ASSUME NEW n, ListOK(n), NEW i \in 1 .. Len(n) + 1, NEW y, NodeOK(y),
         \A j \in 1 .. i - 1 : n[j].startbit < y.startbit,
         \A j \in i .. Len(n) : y.startbit < n[j].startbit,
         NEW new, new = InsertAt(n, i, y)
  PROVE  /\ ListOK(new)
         /\ High(new) = IF i > Len(n) THEN y.startbit + MapSize ELSE High(n)
         /\ \A s, o : On(new, Len(new), s, o) <=>
                        On(n, Len(n), s, o) \/ (s = y.startbit /\ o \in y.map)
<1> DEFINE a == SubSeq(n, 1, i - 1)
           b == SubSeq(n, i, Len(n))
           c == a \o <<y>>
<1>1. n \in Seq(Nodes) /\ Len(n) \in Nat /\ y \in Nodes
  BY DEF ListOK, NodeOK
<1>2. a \in Seq(Nodes) /\ Len(a) = i - 1 /\ \A x \in 1 .. i - 1 : a[x] = n[x]
  BY <1>1
<1>3. b \in Seq(Nodes) /\ Len(b) = Len(n) - i + 1 /\ \A x \in 1 .. Len(n) - i + 1 : b[x] = n[i + x - 1]
  BY <1>1
<1> HIDE DEF a, b
<1>4. /\ c \in Seq(Nodes) /\ Len(c) = (i - 1) + 1 /\ c[(i - 1) + 1] = y
      /\ \A x \in 1 .. i - 1 : c[x] = a[x]
  BY <1>1, <1>2
<1>5. new = c \o b
  BY DEF InsertAt, a, b
<1> HIDE DEF c
<1>6. /\ new \in Seq(Nodes) /\ Len(new) = Len(n) + 1
      /\ \A x \in 1 .. Len(n) + 1 : new[x] = IF x < i THEN n[x] ELSE IF x = i THEN y ELSE n[x - 1]
  <2>0. i \in Nat /\ Len(c) = i
    BY <1>1, <1>4
  <2>1. new \in Seq(Nodes) /\ Len(new) = i + (Len(n) - i + 1)
    <3>1. c \in Seq(Nodes) /\ b \in Seq(Nodes)
      BY <1>3, <1>4
    <3>2. new \in Seq(Nodes) /\ Len(new) = Len(c) + Len(b)
      BY <1>5, <3>1, ConcatProperties
    <3> QED
      BY <1>3, <2>0, <3>2
  <2>2. \A x \in 1 .. Len(new) : new[x] = IF x <= Len(c) THEN c[x] ELSE b[x - Len(c)]
    BY <1>3, <1>4, <1>5
  <2>3. ASSUME NEW x \in 1 .. Len(n) + 1
        PROVE  new[x] = IF x < i THEN n[x] ELSE IF x = i THEN y ELSE n[x - 1]
    <3>1. x \in 1 .. Len(new)
      BY <1>1, <2>0, <2>1
    <3>2. CASE x < i
      <4>1. x <= Len(c) /\ x \in 1 .. i - 1
        BY <1>1, <2>0, <3>2
      <4> QED
        BY <1>2, <1>4, <2>2, <3>1, <3>2, <4>1
    <3>3. CASE x = i
      <4>1. x <= Len(c) /\ x = (i - 1) + 1
        BY <2>0, <3>3
      <4> QED
        BY <1>4, <2>2, <3>1, <3>3, <4>1
    <3>4. CASE ~(x < i) /\ x # i
      <4>1. ~(x <= Len(c)) /\ x - Len(c) \in 1 .. Len(n) - i + 1 /\ i + (x - Len(c)) - 1 = x - 1
        BY <1>1, <2>0, <3>4
      <4> QED
        BY <1>3, <2>2, <3>1, <3>4, <4>1
    <3> QED
      BY <3>2, <3>3, <3>4
  <2> QED
    BY <1>1, <2>0, <2>1, <2>3
<1>7. \A x, z \in 1 .. Len(n) : x < z => n[x].startbit < n[z].startbit
  BY Increasing
<1>8. ListOK(new)
  <2>1. ASSUME NEW x \in 1 .. Len(new) PROVE NodeOK(new[x])
    <3>1. new[x] = y \/ \E z \in 1 .. Len(n) : new[x] = n[z]
      BY <1>1, <1>6
    <3>2. \A z \in 1 .. Len(n) : NodeOK(n[z])
      BY DEF ListOK
    <3> QED
      BY <3>1, <3>2
  <2>2. ASSUME NEW x \in 2 .. Len(new) PROVE new[x - 1].startbit < new[x].startbit
    <3>0. x \in 1 .. Len(n) + 1 /\ x - 1 \in 1 .. Len(n) + 1
      BY <1>1, <1>6
    <3>1. CASE x < i
      <4>1. new[x] = n[x] /\ new[x - 1] = n[x - 1] /\ x \in 1 .. Len(n) /\ x - 1 \in 1 .. Len(n) /\ x - 1 < x
        BY <1>1, <1>6, <3>0, <3>1
      <4> QED
        BY <1>7, <4>1
    <3>2. CASE x = i
      <4>1. new[x] = y /\ new[x - 1] = n[x - 1] /\ x - 1 \in 1 .. i - 1
        BY <1>1, <1>6, <3>0, <3>2
      <4> QED
        BY <4>1
    <3>3. CASE x = i + 1
      <4>1. new[x] = n[i] /\ new[x - 1] = y /\ i \in i .. Len(n)
        BY <1>1, <1>6, <3>0, <3>3
      <4> QED
        BY <4>1
    <3>4. CASE x > i + 1
      <4>1. new[x] = n[x - 1] /\ new[x - 1] = n[x - 2] /\ x - 1 \in 1 .. Len(n) /\ x - 2 \in 1 .. Len(n) /\ x - 2 < x - 1
        BY <1>1, <1>6, <3>0, <3>4
      <4> QED
        BY <1>7, <4>1
    <3> QED
      BY <1>1, <3>0, <3>1, <3>2, <3>3, <3>4
  <2> QED
    BY <1>6, <2>1, <2>2 DEF ListOK
<1>9. High(new) = IF i > Len(n) THEN y.startbit + MapSize ELSE High(n)
  <2>1. CASE i > Len(n)
    <3>1. new[Len(new)] = y /\ new # <<>>
      BY <1>1, <1>6, <2>1
    <3> QED
      BY <2>1, <3>1 DEF High, Last
  <2>2. CASE ~(i > Len(n))
    <3>1. new[Len(new)] = n[Len(n)] /\ new # <<>> /\ n # <<>>
      <4>1. /\ Len(new) \in 1 .. Len(n) + 1 /\ ~(Len(new) < i) /\ Len(new) # i
            /\ Len(new) - 1 = Len(n)
        BY <1>1, <1>6, <2>2
      <4>2. new[Len(new)] = n[Len(n)]
        BY <1>6, <4>1
      <4>3. Len(n) # 0 /\ Len(new) # 0
        BY <1>1, <1>6, <2>2
      <4> QED
        BY <4>2, <4>3
    <3> QED
      BY <2>2, <3>1 DEF High, Last
  <2> QED
    BY <2>1, <2>2
<1>10. ASSUME NEW s, NEW o
       PROVE  On(new, Len(new), s, o) <=> On(n, Len(n), s, o) \/ (s = y.startbit /\ o \in y.map)
  <2>1. ASSUME NEW x \in 1 .. Len(new) PROVE new[x] = y \/ \E z \in 1 .. Len(n) : new[x] = n[z]
    BY <1>1, <1>6
  <2>2. i \in 1 .. Len(new) /\ new[i] = y
    BY <1>1, <1>6
  <2>3. ASSUME NEW z \in 1 .. Len(n) PROVE \E x \in 1 .. Len(new) : new[x] = n[z]
    <3>1. CASE z < i
      BY <1>1, <1>6, <3>1
    <3>2. CASE ~(z < i)
      <4>1. z + 1 \in 1 .. Len(n) + 1 /\ ~(z + 1 < i) /\ z + 1 # i /\ (z + 1) - 1 = z
        BY <1>1, <3>2
      <4>2. new[z + 1] = n[z] /\ z + 1 \in 1 .. Len(new)
        BY <1>6, <4>1
      <4> QED
        BY <4>2
    <3> QED
      BY <3>1, <3>2
  <2>4. ASSUME On(new, Len(new), s, o)
        PROVE  On(n, Len(n), s, o) \/ (s = y.startbit /\ o \in y.map)
    <3>1. PICK x \in 1 .. Len(new) : new[x].startbit = s /\ o \in new[x].map
      BY <2>4 DEF On
    <3>2. CASE new[x] = y
      BY <3>1, <3>2
    <3>3. CASE \E z \in 1 .. Len(n) : new[x] = n[z]
      <4>1. PICK z \in 1 .. Len(n) : new[x] = n[z]
        BY <3>3
      <4>2. n[z].startbit = s /\ o \in n[z].map
        BY <3>1, <4>1
      <4> QED
        BY <4>2 DEF On
    <3> QED
      BY <2>1, <3>2, <3>3
  <2>5. ASSUME On(n, Len(n), s, o) PROVE On(new, Len(new), s, o)
    <3>1. PICK z \in 1 .. Len(n) : n[z].startbit = s /\ o \in n[z].map
      BY <2>5 DEF On
    <3>2. PICK x \in 1 .. Len(new) : new[x] = n[z]
      BY <2>3
    <3>3. new[x].startbit = s /\ o \in new[x].map
      BY <3>1, <3>2
    <3> QED
      BY <3>3 DEF On
  <2>6. s = y.startbit /\ o \in y.map => On(new, Len(new), s, o)
    BY <2>2 DEF On
  <2> QED
    BY <2>4, <2>5, <2>6
<1> QED
  BY <1>8, <1>9, <1>10

\* The set of a sound list, from what the list holds.
LEMMA BitsAre ==
  ASSUME NEW e, ListOK(e.node), NEW C \in SUBSET Uint,
         \A s \in Starts, o \in Offset : On(e.node, Len(e.node), s, o) <=> s + o \in C
  PROVE  Bits(e) = C
<1>1. /\ Bits(e) \subseteq Uint
      /\ \A s \in Starts, o \in Offset : s + o \in Bits(e) <=> On(e.node, Len(e.node), s, o)
  BY BitsOn
<1> QED
  BY <1>1, SameBits

LEMMA SetBitOK ==
  ASSUME NEW e \in Bitmap, RepOK(e), NEW bit \in Uint, ~SetBitOverflows(bit), NEW value \in BOOLEAN
  PROVE  /\ ebitmap_set_bit(e, bit, value) \in Bitmap /\ RepOK(ebitmap_set_bit(e, bit, value))
         /\ Bits(ebitmap_set_bit(e, bit, value)) = IF value THEN Bits(e) \cup {bit} ELSE Bits(e) \ {bit}
<1> DEFINE n == e.node
           i == StopAt(n, bit)
           s0 == StartOf(bit)
           o0 == bit - s0
           off == bit - n[i].startbit
           map == IF value THEN n[i].map \cup {off} ELSE n[i].map \ {off}
           r == ebitmap_set_bit(e, bit, value)
           C == IF value THEN Bits(e) \cup {bit} ELSE Bits(e) \ {bit}
           Wanted(s, o) == IF value THEN On(n, Len(n), s, o) \/ (s = s0 /\ o = o0)
                           ELSE On(n, Len(n), s, o) /\ ~(s = s0 /\ o = o0)
<1>1. ListOK(n) /\ e.highbit = High(n) /\ e = [node |-> n, highbit |-> e.highbit]
  BY BitmapIs
<1>2. bit \in Nat /\ MapSize \in Nat \ {0} /\ Limit \in Nat /\ bit < Limit /\ Len(n) \in Nat
  BY <1>1, EbitmapAssumption DEF Uint, ListOK
<1>3. s0 \in Starts /\ s0 \in Nat /\ o0 \in Offset /\ bit = s0 + o0
  BY <1>2, SplitBit DEF Starts
<1>4. s0 + MapSize < Limit /\ U32(s0 + MapSize) = s0 + MapSize /\ s0 \in Uint
  <2>1. s0 < Limit
    BY <1>2, <1>3 DEF Offset
  <2>2. U32(s0 + MapSize) # 0
    BY DEF SetBitOverflows
  <2> QED
    BY <1>2, <1>3, <2>1, <2>2, EndOfNode DEF Uint
<1>5. r = IF Hits(n, i, bit)
          THEN IF map = {} THEN WithoutNode(e, i) ELSE [e EXCEPT !.node[i].map = map]
          ELSE IF value THEN WithNode(e, i, bit) ELSE e
  BY DEF ebitmap_set_bit
<1> HIDE DEF i, r
<1>6. /\ i \in 1 .. Len(n) + 1
      /\ Hits(n, i, bit) => i \in 1 .. Len(n) /\ n[i].startbit = s0
      /\ ~Hits(n, i, bit) => /\ \A j \in 1 .. i - 1 : n[j].startbit < s0
                             /\ \A j \in i .. Len(n) : s0 < n[j].startbit
                             /\ \A o : ~On(n, Len(n), s0, o)
  BY <1>1, <1>2, StopFinds DEF i
<1> HIDE DEF n, s0, o0
<1>7. SUFFICES \E new : /\ r = [node |-> new, highbit |-> High(new)] /\ ListOK(new)
                        /\ \A s, o : On(new, Len(new), s, o) <=> Wanted(s, o)
  <2>1. PICK new : /\ r = [node |-> new, highbit |-> High(new)] /\ ListOK(new)
                   /\ \A s, o : On(new, Len(new), s, o) <=> Wanted(s, o)
    BY <1>7
  <2>2. r \in Bitmap /\ RepOK(r) /\ r.node = new
    BY <2>1, ListMakesBitmap
  <2>3. Bits(e) \subseteq Uint /\ \A s \in Starts, o \in Offset : s + o \in Bits(e) <=> On(n, Len(n), s, o)
    BY <1>1, BitsOn DEF n
  <2>4. \A s \in Starts, o \in Offset : s + o = bit <=> s = s0 /\ o = o0
    BY <1>3, OneSplit
  <2>5. C \in SUBSET Uint
    BY <2>3
  <2>6. \A s \in Starts, o \in Offset : Wanted(s, o) <=> s + o \in C
    BY <2>3, <2>4
  <2> HIDE DEF C, Wanted
  <2>7. Bits(r) = C
    BY <2>1, <2>2, <2>5, <2>6, BitsAre
  <2> QED
    BY <2>2, <2>7 DEF C, r
<1>8. CASE Hits(n, i, bit)
  <2>1. i \in 1 .. Len(n) /\ n[i].startbit = s0 /\ off = o0
    BY <1>6, <1>8 DEF o0
  <2>2. map \in SUBSET Offset
    BY <1>1, <1>3, <2>1, NodeFacts
  <2>3. \A o : On(n, Len(n), s0, o) <=> o \in n[i].map
    BY <1>1, <2>1, OnAt
  <2>4. \A o : o \in map <=> Wanted(s0, o)
    BY <2>1, <2>3
  <2> HIDE DEF map, off
  <2>5. CASE map = {}
    <3> DEFINE new == RemoveAt(n, i)
    <3>1. /\ ListOK(new)
          /\ High(new) = IF i < Len(n) THEN High(n)
                         ELSE IF i > 1 THEN n[i - 1].startbit + MapSize ELSE 0
          /\ \A s, o : On(new, Len(new), s, o) <=> s # n[i].startbit /\ On(n, Len(n), s, o)
      BY <1>1, <2>1, RemoveNode
    <3>2. r = [node |-> new, highbit |-> IF i < Len(n) THEN High(n)
                                         ELSE IF i > 1 THEN U32(n[i - 1].startbit + MapSize) ELSE 0]
      BY <1>1, <1>5, <1>8, <2>5 DEF WithoutNode, n
    <3>3. i > 1 => U32(n[i - 1].startbit + MapSize) = n[i - 1].startbit + MapSize
      <4> SUFFICES ASSUME i > 1 PROVE U32(n[i - 1].startbit + MapSize) = n[i - 1].startbit + MapSize
        OBVIOUS
      <4>1. i - 1 \in 1 .. Len(n)
        BY <1>2, <2>1
      <4>2. /\ n[i - 1].startbit \in Starts /\ n[i - 1].startbit + MapSize < Limit
            /\ n[i - 1].startbit \in Nat
        BY <1>1, <4>1, NodeFacts
      <4>3. n[i - 1].startbit < Limit
        BY <1>2, <4>2
      <4> QED
        BY <4>2, <4>3, EndOfNode
    <3> HIDE DEF new
    <3>4. r = [node |-> new, highbit |-> High(new)]
      BY <3>1, <3>2, <3>3
    <3>5. \A s, o : On(new, Len(new), s, o) <=> Wanted(s, o)
      <4>1. \A o : ~Wanted(s0, o)
        BY <2>4, <2>5
      <4>2. \A s, o : s # s0 => (Wanted(s, o) <=> On(n, Len(n), s, o))
        OBVIOUS
      <4> HIDE DEF Wanted
      <4> QED
        BY <2>1, <3>1, <4>1, <4>2
    <3> QED
      BY <3>1, <3>4, <3>5
  <2>6. CASE map # {}
    <3>a. PICK new : new = Changed(n, i, map)
      OBVIOUS
    <3>1. /\ ListOK(new) /\ High(new) = High(n)
          /\ \A s, o : On(new, Len(new), s, o) <=>
                         IF s = n[i].startbit THEN o \in map ELSE On(n, Len(n), s, o)
      BY <1>1, <2>1, <2>2, <2>6, <3>a, ChangeMap
    <3>2. r = [node |-> new, highbit |-> High(n)]
      <4>1. r = [e EXCEPT !.node[i].map = map]
        BY <1>5, <1>8, <2>6
      <4>2. r = [e EXCEPT !.node = [e.node EXCEPT ![i].map = map]]
        BY <4>1
      <4> QED
        BY <1>1, <3>a, <4>2 DEF n, Changed
    <3>3. \A s, o : On(new, Len(new), s, o) <=> Wanted(s, o)
      <4>1. \A s, o : s # s0 => (Wanted(s, o) <=> On(n, Len(n), s, o))
        OBVIOUS
      <4> HIDE DEF Wanted
      <4> QED
        BY <2>1, <2>4, <3>1, <4>1
    <3> QED
      BY <3>1, <3>2, <3>3
  <2> QED
    BY <2>5, <2>6
<1>9. CASE ~Hits(n, i, bit) /\ value
  <2> DEFINE y == Node(s0, {o0})
             new == InsertAt(n, i, y)
  <2>1. NodeOK(y) /\ y.startbit = s0 /\ y.map = {o0}
    BY <1>3, <1>4 DEF NodeOK, Node, Nodes
  <2> HIDE DEF y
  <2>2. /\ ListOK(new)
        /\ High(new) = IF i > Len(n) THEN y.startbit + MapSize ELSE High(n)
        /\ \A s, o : On(new, Len(new), s, o) <=> On(n, Len(n), s, o) \/ (s = y.startbit /\ o \in y.map)
    BY <1>1, <1>6, <1>9, <2>1, InsertNode
  <2>3. r = [node |-> new, highbit |-> IF i > Len(n) THEN U32(s0 + MapSize) ELSE High(n)]
    BY <1>1, <1>5, <1>9 DEF WithNode, n, s0, o0, y
  <2> HIDE DEF new
  <2>4. r = [node |-> new, highbit |-> High(new)]
    BY <1>4, <2>1, <2>2, <2>3
  <2>5. \A s, o : On(new, Len(new), s, o) <=> Wanted(s, o)
    BY <1>9, <2>1, <2>2
  <2> QED
    BY <2>2, <2>4, <2>5
<1>10. CASE ~Hits(n, i, bit) /\ ~value
  <2>1. r = [node |-> n, highbit |-> High(n)]
    BY <1>1, <1>5, <1>10
  <2>2. \A s, o : On(n, Len(n), s, o) <=> Wanted(s, o)
    BY <1>6, <1>10
  <2> QED
    BY <1>1, <2>1, <2>2
<1> QED
  BY <1>8, <1>9, <1>10

-----------------------------------------------------------------------------
(***************************************************************************)
(* ebitmap_init_range.                                                     *)
(***************************************************************************)
\* The start bits of the nodes a range needs, counted from the first.
LEMMA Stride ==
  ASSUME NEW first \in Starts, NEW last \in Starts, first <= last,
         NEW count, count = ((last - first) \div MapSize) + 1
  PROVE  /\ count \in Nat /\ count >= 1 /\ first + (count - 1) * MapSize = last
         /\ \A i \in 1 .. count : /\ first + (i - 1) * MapSize \in Starts
                                  /\ first + (i - 1) * MapSize <= last
         /\ \A i \in 2 .. count : /\ first + (i - 1) * MapSize = first + (i - 2) * MapSize + MapSize
                                  /\ first + MapSize <= first + (i - 1) * MapSize
         /\ \A s \in Starts : first <= s /\ s <= last =>
               \E i \in 1 .. count : s = first + (i - 1) * MapSize
<1>1. MapSize \in Nat \ {0} /\ first \in Nat /\ last \in Nat
  BY EbitmapAssumption DEF Starts
<1> DEFINE a == first \div MapSize
           b == last \div MapSize
<1>2. a \in Nat /\ b \in Nat /\ first = MapSize * a /\ last = MapSize * b
  BY <1>1 DEF Starts
<1> HIDE DEF a, b
<1>3. \A p, q \in Nat : p < q => MapSize * p + MapSize <= MapSize * q
  BY <1>1
<1>4. \A p, q \in Nat : MapSize * p \in Nat /\ (MapSize * p <= MapSize * q => p <= q)
  <2> SUFFICES ASSUME NEW p \in Nat, NEW q \in Nat, MapSize * p <= MapSize * q, q < p PROVE FALSE
    BY <1>1
  <2>1. MapSize * q + MapSize <= MapSize * p
    BY <1>3
  <2>2. MapSize * q \in Nat /\ MapSize * p \in Nat
    BY <1>1
  <2> QED
    BY <1>1, <2>1, <2>2
<1>5. a <= b
  BY <1>2, <1>4
<1>6. last - first = MapSize * (b - a) /\ b - a \in Nat
  BY <1>1, <1>2, <1>5
<1>7. count = b - a + 1
  <2>1. (MapSize * (b - a)) \div MapSize = b - a
    BY <1>1, <1>6
  <2> QED
    BY <1>6, <2>1
<1>8. \A i \in 1 .. count : first + (i - 1) * MapSize = MapSize * (a + i - 1) /\ a + i - 1 \in Nat
  BY <1>1, <1>2, <1>5, <1>7
<1>9. \A q \in Nat : MapSize * q \in Starts
  <2> SUFFICES ASSUME NEW q \in Nat PROVE MapSize * q \in Starts
    OBVIOUS
  <2>1. MapSize * q \in Nat /\ MapSize * q + 0 = MapSize * q /\ (MapSize * q + 0) % MapSize = 0
    BY <1>1
  <2> QED
    BY <2>1 DEF Starts
<1>10. \A s \in Starts : \E c \in Nat : s = MapSize * c
  <2> SUFFICES ASSUME NEW s \in Starts PROVE \E c \in Nat : s = MapSize * c
    OBVIOUS
  <2>1. s \div MapSize \in Nat /\ s = MapSize * (s \div MapSize)
    BY <1>1 DEF Starts
  <2> QED
    BY <2>1
<1>11. count \in Nat /\ count >= 1 /\ first + (count - 1) * MapSize = last
  BY <1>2, <1>5, <1>7, <1>8
<1>12. ASSUME NEW i \in 1 .. count
       PROVE  /\ first + (i - 1) * MapSize \in Starts
              /\ first + (i - 1) * MapSize <= last
  <2>1. a + i - 1 <= b /\ a + i - 1 \in Nat
    BY <1>2, <1>7
  <2>2. MapSize * (a + i - 1) <= MapSize * b
    <3>1. CASE a + i - 1 = b
      BY <1>1, <1>2, <3>1
    <3>2. CASE a + i - 1 < b
      <4>1. MapSize * (a + i - 1) + MapSize <= MapSize * b
        BY <1>2, <1>3, <2>1, <3>2
      <4> QED
        BY <1>1, <1>2, <1>4, <2>1, <4>1
    <3> QED
      BY <1>2, <2>1, <3>1, <3>2
  <2> QED
    BY <1>2, <1>8, <1>9, <2>1, <2>2
<1>13. ASSUME NEW i \in 2 .. count
       PROVE  /\ first + (i - 1) * MapSize = first + (i - 2) * MapSize + MapSize
              /\ first + MapSize <= first + (i - 1) * MapSize
  <2>1. i - 2 \in Nat /\ i - 1 = (i - 2) + 1
    BY <1>11
  <2>2. (i - 2) * MapSize \in Nat /\ ((i - 2) + 1) * MapSize = (i - 2) * MapSize + MapSize
    BY <1>1, <2>1
  <2> QED
    BY <1>1, <2>1, <2>2
<1>14. ASSUME NEW s \in Starts, first <= s, s <= last
       PROVE  \E i \in 1 .. count : s = first + (i - 1) * MapSize
  <2>1. PICK c \in Nat : s = MapSize * c
    BY <1>10
  <2>2. a <= c /\ c <= b
    BY <1>2, <1>4, <1>14, <2>1
  <2>3. c - a + 1 \in 1 .. count /\ a + (c - a + 1) - 1 = c
    BY <1>2, <1>7, <2>2
  <2>4. first + ((c - a + 1) - 1) * MapSize = MapSize * c
    BY <1>8, <2>3
  <2> QED
    BY <2>1, <2>3, <2>4
<1> QED
  BY <1>11, <1>12, <1>13, <1>14

LEMMA RangeOK ==
  ASSUME NEW lo \in Uint, NEW hi \in Uint, lo <= hi, ~RangeOverflows(lo, hi)
  PROVE  /\ ebitmap_init_range(lo, hi) \in Bitmap /\ RepOK(ebitmap_init_range(lo, hi))
         /\ Bits(ebitmap_init_range(lo, hi)) = {b \in Uint : lo <= b /\ b <= hi}
<1> DEFINE first == StartOf(lo)
           last == StartOf(hi)
           count == ((last - first) \div MapSize) + 1
           s(i) == first + (i - 1) * MapSize
           n == [i \in 1 .. count |->
                   Node(s(i), {o \in Offset : lo <= s(i) + o /\ s(i) + o <= hi})]
           e == ebitmap_init_range(lo, hi)
           C == {b \in Uint : lo <= b /\ b <= hi}
<1>1. MapSize \in Nat \ {0} /\ Limit \in Nat /\ lo \in Nat /\ hi \in Nat /\ lo < Limit /\ hi < Limit
  BY EbitmapAssumption DEF Uint
<1>2. /\ first \in Starts /\ first \in Nat /\ first <= lo /\ lo < first + MapSize /\ lo - first \in Offset
      /\ last \in Starts /\ last \in Nat /\ last <= hi /\ hi < last + MapSize
  <2>1. first \in Starts /\ lo - first \in Offset /\ last \in Starts /\ hi - last \in Offset
    BY <1>1, SplitBit
  <2> HIDE DEF first, last
  <2> QED
    BY <1>1, <2>1 DEF Starts, Offset
<1>3. e = [node |-> n, highbit |-> U32(last + MapSize)]
  BY DEF ebitmap_init_range
<1>4. last + MapSize < Limit /\ U32(last + MapSize) = last + MapSize
  <2>1. U32(last + MapSize) # 0
    BY DEF RangeOverflows
  <2>2. last < Limit
    BY <1>1, <1>2
  <2> HIDE DEF last
  <2> QED
    BY <1>1, <1>2, <2>1, <2>2, EndOfNode
<1> HIDE DEF first, last, e
<1>5. first <= last
  <2> SUFFICES ASSUME last < first PROVE FALSE
    BY <1>2
  <2>1. last + MapSize <= first
    BY <1>2, StartsApart
  <2> QED
    BY <1>1, <1>2, <2>1
<1>6. /\ count \in Nat /\ count >= 1 /\ s(count) = last
      /\ \A i \in 1 .. count : s(i) \in Starts /\ s(i) <= last
      /\ \A i \in 2 .. count : s(i) = first + (i - 2) * MapSize + MapSize /\ first + MapSize <= s(i)
      /\ \A t \in Starts : first <= t /\ t <= last => \E i \in 1 .. count : t = s(i)
  <2>1. PICK c : c = count
    OBVIOUS
  <2> HIDE DEF count
  <2> USE DEF s
  <2>2. c = ((last - first) \div MapSize) + 1
    BY <2>1 DEF count
  <2> QED
    BY <1>2, <1>5, <2>1, <2>2, Stride
<1> HIDE DEF count
<1>7. s(1) = first
  BY <1>1, <1>2
<1>8. \A i \in 2 .. count : i - 1 \in 1 .. count /\ i \in 1 .. count /\ s(i) = s(i - 1) + MapSize
  <2> SUFFICES ASSUME NEW i \in 2 .. count
               PROVE  i - 1 \in 1 .. count /\ i \in 1 .. count /\ s(i) = s(i - 1) + MapSize
    OBVIOUS
  <2>1. i - 1 \in 1 .. count /\ i \in 1 .. count /\ (i - 1) - 1 = i - 2
    BY <1>6
  <2> QED
    BY <1>6, <2>1
<1>9. \A i \in 1 .. count : n[i].startbit = s(i) /\ n[i].map = {o \in Offset : lo <= s(i) + o /\ s(i) + o <= hi}
  BY DEF Node
<1>10. ASSUME NEW i \in 1 .. count PROVE NodeOK(n[i])
  <2>1. s(i) \in Starts /\ s(i) \in Nat /\ s(i) <= last /\ s(i) \in Uint /\ s(i) + MapSize < Limit
    BY <1>1, <1>2, <1>4, <1>6 DEF Starts, Uint
  <2>2. n[i] \in Nodes
    BY <2>1 DEF Node, Nodes
  <2>3. n[i].map # {}
    <3>1. CASE i = 1
      <4>1. lo - first \in Offset /\ lo = first + (lo - first)
        BY <1>1, <1>2
      <4> HIDE DEF s, n
      <4>2. lo - first \in n[i].map
        BY <1>1, <1>7, <1>9, <3>1, <4>1
      <4> QED
        BY <4>2
    <3>2. CASE i # 1
      <4>1. i \in 2 .. count
        BY <1>6, <3>2
      <4>2. first + MapSize <= s(i)
        BY <1>6, <4>1
      <4> HIDE DEF s, n
      <4>3. 0 \in Offset /\ lo <= s(i) + 0 /\ s(i) + 0 <= hi
        BY <1>1, <1>2, <2>1, <4>2 DEF Offset
      <4>4. 0 \in n[i].map
        BY <1>9, <4>3
      <4> QED
        BY <4>4
    <3> QED
      BY <3>1, <3>2
  <2> HIDE DEF n, s
  <2> QED
    BY <1>9, <2>1, <2>2, <2>3 DEF NodeOK
<1>11. n \in Seq(Nodes) /\ Len(n) = count
  <2>1. \A i \in 1 .. count : n[i] \in Nodes
    BY <1>10 DEF NodeOK
  <2>2. DOMAIN n = 1 .. count
    OBVIOUS
  <2>3. n = [i \in 1 .. count |-> n[i]]
    BY Zenon
  <2> HIDE DEF n, s
  <2>4. n \in [1 .. count -> Nodes]
    BY <2>1, <2>3
  <2> QED
    BY <1>6, <2>4, LenProperties, IsASeq
<1>12. ListOK(n)
  <2>1. ASSUME NEW i \in 2 .. Len(n) PROVE n[i - 1].startbit < n[i].startbit
    <3>1. i \in 2 .. count
      BY <1>11
    <3>2. i - 1 \in 1 .. count /\ i \in 1 .. count /\ s(i) = s(i - 1) + MapSize
      BY <1>8, <3>1
    <3>3. s(i - 1) \in Nat
      BY <1>6, <3>2 DEF Starts
    <3>4. n[i].startbit = s(i) /\ n[i - 1].startbit = s(i - 1)
      BY <1>9, <3>2
    <3> HIDE DEF s, n
    <3> QED
      BY <1>1, <3>2, <3>3, <3>4
  <2> HIDE DEF n, s
  <2> QED
    BY <1>10, <1>11, <2>1 DEF ListOK
<1> HIDE DEF n
<1>13. High(n) = last + MapSize
  <2>1. count \in 1 .. count
    BY <1>6
  <2>2. n # <<>> /\ Last(n) = n[count]
    BY <1>6, <1>11 DEF Last
  <2>3. n[count].startbit = last
    BY <1>6, <1>9, <2>1
  <2> QED
    BY <2>2, <2>3 DEF High
<1>14. e \in Bitmap /\ RepOK(e) /\ e.node = n
  BY <1>3, <1>4, <1>12, <1>13, ListMakesBitmap
<1>15. ASSUME NEW t \in Starts, NEW o \in Offset
       PROVE  On(n, Len(n), t, o) <=> t + o \in C
  <2> HIDE DEF s
  <2>1. t \in Nat /\ o \in Nat /\ o < MapSize
    BY <1>1 DEF Starts, Offset
  <2>2. ASSUME On(n, Len(n), t, o) PROVE t + o \in C
    <3>1. PICK x \in 1 .. count : n[x].startbit = t /\ o \in n[x].map
      BY <1>11, <2>2 DEF On
    <3>2. lo <= t + o /\ t + o <= hi
      BY <1>9, <3>1
    <3> QED
      BY <1>1, <2>1, <3>2 DEF Uint
  <2>3. ASSUME t + o \in C PROVE On(n, Len(n), t, o)
    <3>1. lo <= t + o /\ t + o <= hi
      BY <2>3
    <3>2. ~(t < first)
      BY <1>1, <1>2, <2>1, <3>1, StartsApart
    <3>3. ~(last < t)
      BY <1>1, <1>2, <2>1, <3>1, StartsApart
    <3>4. PICK i \in 1 .. count : t = s(i)
      BY <1>2, <1>6, <2>1, <3>2, <3>3
    <3>5. n[i].startbit = t /\ o \in n[i].map
      BY <1>9, <3>1, <3>4
    <3> QED
      BY <1>11, <3>5 DEF On
  <2> QED
    BY <2>2, <2>3
<1>16. C \in SUBSET Uint
  OBVIOUS
<1> HIDE DEF C
<1>17. Bits(e) = C
  BY <1>12, <1>14, <1>15, <1>16, BitsAre
<1> QED
  BY <1>14, <1>17 DEF e, C

-----------------------------------------------------------------------------
(***************************************************************************)
(* ebitmap_read: any image it accepts is a bitmap, and the image of a      *)
(* bitmap is read back as that bitmap.                                     *)
(***************************************************************************)
LEMMA EmptyOK == EmptyBitmap \in Bitmap /\ RepOK(EmptyBitmap) /\ Bits(EmptyBitmap) = {}
<1>1. ListOK(<<>>)
  BY DEF ListOK
<1>2. EmptyBitmap = [node |-> <<>>, highbit |-> High(<<>>)]
  BY DEF EmptyBitmap, High
<1>3. Bits(EmptyBitmap) = {}
  BY DEF Bits, EmptyBitmap
<1> QED
  BY <1>1, <1>2, <1>3, ListMakesBitmap

Image == [mapsize : Nat, highbit : Uint, count : Nat, node : Seq(Nodes)]

LEMMA ReadOK ==
  ASSUME NEW img \in Image
  PROVE  ebitmap_read(img) \in Bitmap /\ RepOK(ebitmap_read(img))
<1>1. CASE ~ImageOK(img) \/ img.highbit = 0
  BY <1>1, EmptyOK DEF ebitmap_read
<1>2. CASE ImageOK(img) /\ img.highbit # 0
  <2> DEFINE l == img.node
             c == img.count
             h == img.highbit
             n == SubSeq(l, 1, c)
  <2>1. /\ l \in Seq(Nodes) /\ Len(l) \in Nat /\ c \in Nat /\ h \in Nat /\ h < Limit
        /\ MapSize \in Nat \ {0} /\ Limit \in Nat
    BY EbitmapAssumption DEF Image, Uint
  <2>2. c > 0 /\ l[c].startbit + MapSize = h
    BY <1>2 DEF ImageOK
  <2>3. ASSUME NEW i \in 1 .. c
        PROVE  /\ i \in 1 .. Len(l) /\ l[i].startbit % MapSize = 0
               /\ l[i].startbit <= h - MapSize /\ l[i].map # {}
               /\ i > 1 => l[i].startbit > l[i - 1].startbit
    <3>1. NodeImageOK(img, i)
      BY <1>2, <2>3 DEF ImageOK
    <3> QED
      BY <2>1, <3>1 DEF NodeImageOK
  <2>4. c \in 1 .. Len(l)
    BY <2>1, <2>2, <2>3
  <2>5. ebitmap_read(img) = [node |-> n, highbit |-> h]
    BY <1>2 DEF ebitmap_read
  <2> HIDE DEF l, c, h
  <2>6. n \in Seq(Nodes) /\ Len(n) = c /\ \A i \in 1 .. c : n[i] = l[i]
    BY <2>1, <2>4
  <2>7. ASSUME NEW i \in 1 .. c PROVE NodeOK(n[i])
    <3>1. l[i] \in Nodes /\ n[i] = l[i]
      BY <2>1, <2>3, <2>6
    <3>2. l[i].startbit \in Nat
      BY <3>1 DEF Nodes, Uint
    <3> HIDE DEF n
    <3>3. l[i].startbit + MapSize < Limit
      BY <2>1, <2>3, <3>2
    <3>4. l[i].startbit \in Starts
      BY <2>3, <3>2 DEF Starts
    <3> QED
      BY <2>3, <3>1, <3>3, <3>4 DEF NodeOK
  <2> HIDE DEF n
  <2>8. ListOK(n)
    <3>1. ASSUME NEW i \in 2 .. Len(n) PROVE n[i - 1].startbit < n[i].startbit
      <4>1. i \in 1 .. c /\ i - 1 \in 1 .. c /\ i > 1
        BY <2>1, <2>6
      <4>2. l[i].startbit > l[i - 1].startbit
        BY <2>3, <4>1
      <4>3. n[i] = l[i] /\ n[i - 1] = l[i - 1]
        BY <2>6, <4>1
      <4>4. l[i] \in Nodes /\ l[i - 1] \in Nodes
        BY <2>1, <2>3, <4>1
      <4> QED
        BY <4>2, <4>3, <4>4 DEF Nodes, Uint
    <3> QED
      BY <2>6, <2>7, <3>1 DEF ListOK
  <2>9. High(n) = h
    BY <2>1, <2>2, <2>4, <2>6 DEF High, Last
  <2> QED
    BY <2>5, <2>8, <2>9, ListMakesBitmap
<1> QED
  BY <1>1, <1>2

LEMMA WrittenIsRead ==
  ASSUME NEW e \in Bitmap, RepOK(e)
  PROVE  ebitmap_read(ebitmap_write(e)) = e
<1> DEFINE n == e.node
           img == ebitmap_write(e)
<1>1. ListOK(n) /\ e.highbit = High(n) /\ e = [node |-> n, highbit |-> e.highbit]
  BY BitmapIs
<1>2. img.mapsize = MapSize /\ img.highbit = e.highbit /\ img.count = Len(n) /\ img.node = n
  BY DEF ebitmap_write
<1>3. n \in Seq(Nodes) /\ Len(n) \in Nat /\ (n = <<>> <=> Len(n) = 0) /\ MapSize \in Nat \ {0}
  BY <1>1, EbitmapAssumption DEF ListOK
<1> HIDE DEF n, img
<1>4. CASE n = <<>>
  <2>1. High(n) = 0
    BY <1>4 DEF High
  <2> QED
    BY <1>1, <1>2, <1>4, <2>1 DEF ebitmap_read, EmptyBitmap, img
<1>5. CASE n # <<>>
  <2>1. Len(n) \in 1 .. Len(n)
    BY <1>3, <1>5
  <2>2. n[Len(n)].startbit \in Starts /\ n[Len(n)].startbit \in Nat
    BY <1>1, <2>1, NodeFacts
  <2>3. High(n) = n[Len(n)].startbit + MapSize
    BY <1>5 DEF High, Last
  <2>4. High(n) % MapSize = 0 /\ High(n) # 0
    BY <1>3, <2>2, <2>3, NextStart DEF Starts
  <2>5. ASSUME NEW i \in 1 .. Len(n) PROVE NodeImageOK(img, i)
    <3>1. n[i].startbit \in Starts /\ n[i].startbit \in Nat /\ n[i].map # {}
      BY <1>1, NodeFacts
    <3>2. n[i].startbit + MapSize <= High(n) /\ High(n) \in Nat
      BY <1>1, HighIs
    <3>3. i > 1 => n[i].startbit > n[i - 1].startbit
      <4> SUFFICES ASSUME i > 1 PROVE n[i].startbit > n[i - 1].startbit
        OBVIOUS
      <4>1. i \in 2 .. Len(n) /\ i - 1 \in 1 .. Len(n)
        BY <1>3
      <4>2. n[i - 1].startbit < n[i].startbit
        BY <1>1, <4>1 DEF ListOK
      <4>3. n[i - 1].startbit \in Nat
        BY <1>1, <4>1, NodeFacts
      <4> QED
        BY <3>1, <4>2, <4>3
    <3> QED
      BY <1>1, <1>2, <1>3, <3>1, <3>2, <3>3 DEF NodeImageOK, Starts
  <2>6. ImageOK(img)
    BY <1>1, <1>2, <1>3, <1>5, <2>3, <2>4, <2>5 DEF ImageOK
  <2>7. SubSeq(n, 1, Len(n)) = n
    BY <1>3
  <2>8. ebitmap_read(img) = [node |-> n, highbit |-> e.highbit]
    BY <1>1, <1>2, <2>4, <2>6, <2>7 DEF ebitmap_read
  <2> QED
    BY <1>1, <2>8 DEF img
<1> QED
  BY <1>4, <1>5

-----------------------------------------------------------------------------
(***************************************************************************)
(* The specification.                                                      *)
(***************************************************************************)
\* What every call leaves: bitmaps, sound ones.
LEMMA CallOK ==
  ASSUME RepInvariant, NEW call, NEW d \in Reg, NEW e \in Bitmap, RepOK(e), Call(call, d, e)
  PROVE  RepInvariant'
<1>1. bm \in [Reg -> Bitmap] /\ bm' = [bm EXCEPT ![d] = e] /\ \A r \in Reg : RepOK(bm[r])
  BY DEF RepInvariant, Call
<1>2. bm' \in [Reg -> Bitmap] /\ bm'[d] = e /\ \A r \in Reg : r # d => bm'[r] = bm[r]
  BY <1>1
<1>3. \A r \in Reg : RepOK(bm'[r])
  BY <1>1, <1>2
<1> QED
  BY <1>2, <1>3 DEF RepInvariant, RepOK

\* The representation holds at first and every call restores it.
LEMMA RepInductive == Init => RepInvariant
<1> SUFFICES ASSUME Init PROVE RepInvariant
  OBVIOUS
<1>1. bm = [r \in Reg |-> EmptyBitmap]
  BY DEF Init
<1> QED
  BY <1>1, EmptyOK DEF RepInvariant

LEMMA RepStep == RepInvariant /\ [Next]_vars => RepInvariant'
<1> SUFFICES ASSUME RepInvariant, [Next]_vars PROVE RepInvariant'
  OBVIOUS
<1>1. \A r \in Reg : bm[r] \in Bitmap /\ RepOK(bm[r])
  BY DEF RepInvariant
<1>2. ASSUME NEW d \in Reg, NEW bit \in Uint, NEW value \in BOOLEAN, SetBit(d, bit, value)
      PROVE  RepInvariant'
  <2>1. ebitmap_set_bit(bm[d], bit, value) \in Bitmap /\ RepOK(ebitmap_set_bit(bm[d], bit, value))
    BY <1>1, <1>2, SetBitOK DEF SetBit
  <2> QED
    BY <1>2, <2>1, CallOK DEF SetBit
<1>3. ASSUME NEW d \in Reg, NEW bit \in Uint, SetBitFails(d, bit) PROVE RepInvariant'
  BY <1>1, <1>3, CallOK DEF SetBitFails
<1>4. ASSUME NEW d \in Reg, NEW a \in Reg, NEW b \in Reg, Or(d, a, b) PROVE RepInvariant'
  BY <1>1, <1>4, OrOK, CallOK DEF Or
<1>5. ASSUME NEW d \in Reg, NEW a \in Reg, NEW b \in Reg, And(d, a, b) PROVE RepInvariant'
  BY <1>1, <1>5, AndOK, CallOK DEF And
<1>6. ASSUME NEW d \in Reg, NEW a \in Reg, NEW b \in Reg, Xor(d, a, b) PROVE RepInvariant'
  BY <1>1, <1>6, XorOK, CallOK DEF Xor
<1>7. ASSUME NEW d \in Reg, NEW a \in Reg, ebitmap_union(d, a) PROVE RepInvariant'
  BY <1>4, <1>7 DEF ebitmap_union
<1>8. ASSUME NEW d \in Reg, NEW a \in Reg, NEW m \in MaxBits, Not(d, a, m) PROVE RepInvariant'
  BY <1>1, <1>8, NotOK, CallOK DEF Not
<1>9. ASSUME NEW d \in Reg, NEW a \in Reg, NEW b \in Reg, NEW m \in MaxBits, AndNot(d, a, b, m)
      PROVE  RepInvariant'
  BY <1>1, <1>9, AndNotOK, CallOK DEF AndNot
<1>10. ASSUME NEW d \in Reg, NEW lo \in Uint, NEW hi \in Uint, InitRange(d, lo, hi) PROVE RepInvariant'
  BY <1>10, RangeOK, CallOK DEF InitRange
<1>11. ASSUME NEW d \in Reg, NEW lo \in Uint, NEW hi \in Uint, InitRangeFails(d, lo, hi)
       PROVE  RepInvariant'
  BY <1>11, EmptyOK, CallOK DEF InitRangeFails
<1>12. ASSUME NEW d \in Reg, ConstructorFails(d) \/ Destroy(d) PROVE RepInvariant'
  BY <1>12, EmptyOK, CallOK DEF ConstructorFails, Destroy
<1>13. ASSUME NEW d \in Reg, NEW a \in Reg \ {d}, Cpy(d, a) PROVE RepInvariant'
  BY <1>1, <1>13, CallOK DEF Cpy
<1>14. ASSUME NEW d \in Reg, NEW a \in Reg \ {d}, SaveAndLoad(d, a) PROVE RepInvariant'
  BY <1>1, <1>14, WrittenIsRead, CallOK DEF SaveAndLoad
<1>15. CASE Done \/ UNCHANGED vars
  BY <1>15 DEF Done, vars, RepInvariant, RepOK
<1> QED
  BY <1>2, <1>3, <1>4, <1>5, <1>6, <1>7, <1>8, <1>9, <1>10, <1>11, <1>12, <1>13, <1>14, <1>15 DEF Next

(* Whatever sequence of calls, the lists stay sound: aligned start bits in *)
(* increasing order, no empty map, highbit one past the last node.  For    *)
(* every number of bitmaps, every map size and every width of the bit      *)
(* numbers (ebitmap.c).                                                    *)
THEOREM RepresentationHolds == Spec => []RepInvariant
<1> QED
  BY RepInductive, RepStep, PTL DEF Spec

LEMMA ImagesRead == RepInvariant => ReadChecksImage
<1>1. ASSUME RepInvariant,
             NEW r \in Reg, NEW h \in Uint, NEW s \in Uint, NEW m \in {{}, {0}}, NEW c \in 0 .. 3
      PROVE  LET n == bm[r].node
             IN  \A l \in {n, <<Node(s, m)>> \o n, Append(n, Node(s, m))} :
                    RepOK(ebitmap_read([mapsize |-> MapSize, highbit |-> h, count |-> c, node |-> l]))
  <2> DEFINE n == bm[r].node
             y == Node(s, m)
  <2>1. n \in Seq(Nodes)
    BY <1>1 DEF RepInvariant, Bitmap
  <2>2. 0 \in Offset /\ MapSize \in Nat
    BY EbitmapAssumption DEF Offset
  <2>3. y \in Nodes
    BY <2>2 DEF Node, Nodes
  <2> HIDE DEF n, y
  <2>4. <<y>> \o n \in Seq(Nodes) /\ Append(n, y) \in Seq(Nodes)
    BY <2>1, <2>3
  <2>5. ASSUME NEW l \in {n, <<y>> \o n, Append(n, y)}
        PROVE  RepOK(ebitmap_read([mapsize |-> MapSize, highbit |-> h, count |-> c, node |-> l]))
    <3>1. l \in Seq(Nodes)
      BY <2>1, <2>4, <2>5, Zenon
    <3>2. [mapsize |-> MapSize, highbit |-> h, count |-> c, node |-> l] \in Image
      BY <2>2, <3>1 DEF Image
    <3> QED
      BY <3>2, ReadOK
  <2> QED
    BY <2>5, Zenon DEF n, y
<1> QED
  BY <1>1, Zenon DEF ReadChecksImage

(* An image of a bitmap, with a node added or cut off and any highbit and  *)
(* count, is refused or read as a sound bitmap (ebitmap_read).  ReadOK has *)
(* the same for every sequence of nodes.                                   *)
THEOREM ImagesAreChecked == Spec => []ReadChecksImage
<1> QED
  BY RepresentationHolds, ImagesRead, PTL

-----------------------------------------------------------------------------
(***************************************************************************)
(* The bitmaps implement the sets of BitSet.                               *)
(***************************************************************************)
\* A call that builds e makes the destination the set of e.
LEMMA CallMaps ==
  ASSUME RepInvariant, NEW call, NEW d \in Reg, NEW e, Call(call, d, e), NEW S, S = Bits(e)
  PROVE  AsSets!Call(call, d, S)
<1>1. bm \in [Reg -> Bitmap] /\ bm' = [bm EXCEPT ![d] = e] /\ op = Idle /\ op' = call
  BY DEF RepInvariant, Call
<1>2. \A r \in Reg : bm'[r] = IF r = d THEN e ELSE bm[r]
  BY <1>1
<1>3. [r \in Reg |-> Bits(bm[r])]' = [[r \in Reg |-> Bits(bm[r])] EXCEPT ![d] = S]
  <2>1. [r \in Reg |-> Bits(bm[r])]' = [r \in Reg |-> Bits(bm'[r])]
    BY DEF Bits
  <2>2. \A r \in Reg : Bits(bm'[r]) = IF r = d THEN S ELSE Bits(bm[r])
    BY <1>2
  <2> QED
    BY <2>1, <2>2
<1> QED
  BY <1>1, <1>3 DEF AsSets!Call, AsSets!Idle, Idle

LEMMA SetsInit == Init => AsSets!Init
<1> SUFFICES ASSUME Init PROVE AsSets!Init
  OBVIOUS
<1>1. bm = [r \in Reg |-> EmptyBitmap] /\ op = Idle
  BY DEF Init
<1>2. [r \in Reg |-> Bits(bm[r])] = [r \in Reg |-> {}]
  BY <1>1, EmptyOK
<1> QED
  BY <1>1, <1>2 DEF AsSets!Init, AsSets!Idle, Idle

LEMMA SetsStep == RepInvariant /\ [Next]_vars => [AsSets!Next]_<<[r \in Reg |-> Bits(bm[r])], op>>
<1> SUFFICES ASSUME RepInvariant, [Next]_vars
             PROVE  AsSets!Next \/ UNCHANGED <<[r \in Reg |-> Bits(bm[r])], op>>
  OBVIOUS
<1> DEFINE set == [r \in Reg |-> Bits(bm[r])]
<1>1. \A r \in Reg : bm[r] \in Bitmap /\ RepOK(bm[r]) /\ set[r] = Bits(bm[r])
  BY DEF RepInvariant
<1>2. ASSUME NEW d \in Reg, NEW bit \in Uint, NEW value \in BOOLEAN, SetBit(d, bit, value)
      PROVE  AsSets!SetBit(d, bit) \/ AsSets!ClearBit(d, bit)
  <2> DEFINE e == ebitmap_set_bit(bm[d], bit, value)
  <2>1. /\ Call(<<IF value THEN "set" ELSE "clear", d, bit>>, d, e)
        /\ Bits(e) = IF value THEN set[d] \cup {bit} ELSE set[d] \ {bit}
    <3>1. ~SetBitOverflows(bit) /\ Call(<<IF value THEN "set" ELSE "clear", d, bit>>, d, e)
      BY <1>2 DEF SetBit
    <3>2. bm[d] \in Bitmap /\ RepOK(bm[d]) /\ Bits(bm[d]) = set[d]
      BY <1>1
    <3>3. Bits(e) = IF value THEN Bits(bm[d]) \cup {bit} ELSE Bits(bm[d]) \ {bit}
      BY <3>1, <3>2, SetBitOK, Zenon
    <3> HIDE DEF e, set
    <3> QED
      BY <3>1, <3>2, <3>3, Zenon
  <2> HIDE DEF e
  <2>2. CASE value
    <3>1. Call(<<"set", d, bit>>, d, e) /\ Bits(e) = set[d] \cup {bit}
      BY <2>1, <2>2
    <3>2. AsSets!Call(<<"set", d, bit>>, d, set[d] \cup {bit})
      BY <3>1, CallMaps
    <3> QED
      BY <3>2 DEF AsSets!SetBit
  <2>3. CASE ~value
    <3>1. Call(<<"clear", d, bit>>, d, e) /\ Bits(e) = set[d] \ {bit}
      BY <2>1, <2>3
    <3>2. AsSets!Call(<<"clear", d, bit>>, d, set[d] \ {bit})
      BY <3>1, CallMaps
    <3> QED
      BY <3>2 DEF AsSets!ClearBit
  <2> QED
    BY <2>2, <2>3
<1>3. ASSUME NEW d \in Reg, NEW bit \in Uint, SetBitFails(d, bit) PROVE AsSets!Fail(d)
  <2>1. Call(<<"failed", d>>, d, bm[d]) /\ Bits(bm[d]) = set[d]
    BY <1>1, <1>3 DEF SetBitFails
  <2>2. AsSets!Call(<<"failed", d>>, d, set[d])
    BY <2>1, CallMaps
  <2> QED
    BY <2>2 DEF AsSets!Fail
<1>4. ASSUME NEW d \in Reg, NEW a \in Reg, NEW b \in Reg, Or(d, a, b) PROVE AsSets!Or(d, a, b)
  <2>1. Call(<<"or", d, a, b>>, d, ebitmap_or(bm[a], bm[b]))
    BY <1>4 DEF Or
  <2>2. Bits(ebitmap_or(bm[a], bm[b])) = set[a] \cup set[b]
    BY <1>1, OrOK
  <2>3. AsSets!Call(<<"or", d, a, b>>, d, set[a] \cup set[b])
    BY <2>1, <2>2, CallMaps
  <2> QED
    BY <2>3 DEF AsSets!Or
<1>5. ASSUME NEW d \in Reg, NEW a \in Reg, NEW b \in Reg, And(d, a, b) PROVE AsSets!And(d, a, b)
  <2>1. Call(<<"and", d, a, b>>, d, ebitmap_and(bm[a], bm[b]))
    BY <1>5 DEF And
  <2>2. Bits(ebitmap_and(bm[a], bm[b])) = set[a] \cap set[b]
    BY <1>1, AndOK
  <2>3. AsSets!Call(<<"and", d, a, b>>, d, set[a] \cap set[b])
    BY <2>1, <2>2, CallMaps
  <2> QED
    BY <2>3 DEF AsSets!And
<1>6. ASSUME NEW d \in Reg, NEW a \in Reg, NEW b \in Reg, Xor(d, a, b) PROVE AsSets!Xor(d, a, b)
  <2>1. Call(<<"xor", d, a, b>>, d, ebitmap_xor(bm[a], bm[b]))
    BY <1>6 DEF Xor
  <2>2. Bits(ebitmap_xor(bm[a], bm[b])) = (set[a] \ set[b]) \cup (set[b] \ set[a])
    BY <1>1, XorOK DEF SymDiff
  <2>3. AsSets!Call(<<"xor", d, a, b>>, d, (set[a] \ set[b]) \cup (set[b] \ set[a]))
    BY <2>1, <2>2, CallMaps
  <2> QED
    BY <2>3 DEF AsSets!Xor
<1>7. ASSUME NEW d \in Reg, NEW a \in Reg, ebitmap_union(d, a) PROVE AsSets!Or(d, d, a)
  BY <1>4, <1>7 DEF ebitmap_union
<1>8. ASSUME NEW d \in Reg, NEW a \in Reg, NEW m \in MaxBits, Not(d, a, m) PROVE AsSets!Not(d, a, m)
  <2>1. Call(<<"not", d, a, m>>, d, ebitmap_not(bm[a], m))
    BY <1>8 DEF Not
  <2>2. Bits(ebitmap_not(bm[a], m)) = {b \in Uint : b < m} \ set[a]
    BY <1>1, NotOK
  <2>3. AsSets!Call(<<"not", d, a, m>>, d, {b \in Uint : b < m} \ set[a])
    BY <2>1, <2>2, CallMaps
  <2> QED
    BY <2>3 DEF AsSets!Not, AsSets!Below
<1>9. ASSUME NEW d \in Reg, NEW a \in Reg, NEW b \in Reg, NEW m \in MaxBits, AndNot(d, a, b, m)
      PROVE  AsSets!AndNot(d, a, b, m)
  <2>1. Call(<<"andnot", d, a, b, m>>, d, ebitmap_andnot(bm[a], bm[b], m))
    BY <1>9 DEF AndNot
  <2>2. Bits(ebitmap_andnot(bm[a], bm[b], m)) = (set[a] \cap {x \in Uint : x < m}) \ set[b]
    <3>1. Bits(ebitmap_andnot(bm[a], bm[b], m)) = (Bits(bm[a]) \cap {x \in Uint : x < m}) \ Bits(bm[b])
      <4>1. bm[a] \in Bitmap /\ RepOK(bm[a]) /\ bm[b] \in Bitmap /\ RepOK(bm[b])
        BY <1>1
      <4> QED
        BY <4>1, AndNotOK, Zenon
    <3> HIDE DEF set
    <3> QED
      BY <1>1, <3>1
  <2>3. AsSets!Call(<<"andnot", d, a, b, m>>, d, (set[a] \cap {x \in Uint : x < m}) \ set[b])
    BY <2>1, <2>2, CallMaps
  <2> QED
    BY <2>3 DEF AsSets!AndNot, AsSets!Below
<1>10. ASSUME NEW d \in Reg, NEW lo \in Uint, NEW hi \in Uint, InitRange(d, lo, hi)
       PROVE  AsSets!Range(d, lo, hi)
  <2>1. /\ lo <= hi /\ ~RangeOverflows(lo, hi)
        /\ Call(<<"range", d, lo, hi>>, d, ebitmap_init_range(lo, hi))
    BY <1>10 DEF InitRange
  <2>2. Bits(ebitmap_init_range(lo, hi)) = {b \in Uint : lo <= b /\ b <= hi}
    BY <2>1, RangeOK
  <2>3. AsSets!Call(<<"range", d, lo, hi>>, d, {b \in Uint : lo <= b /\ b <= hi})
    BY <2>1, <2>2, CallMaps
  <2> QED
    BY <2>3 DEF AsSets!Range
<1>11. ASSUME NEW d \in Reg, Call(<<"failed", d>>, d, EmptyBitmap) PROVE AsSets!Fail(d)
  <2>1. AsSets!Call(<<"failed", d>>, d, {})
    BY <1>11, EmptyOK, CallMaps
  <2> QED
    BY <2>1 DEF AsSets!Fail
<1>12. ASSUME NEW d \in Reg, Destroy(d) PROVE AsSets!Destroy(d)
  <2>1. AsSets!Call(<<"destroy", d>>, d, {})
    BY <1>12, EmptyOK, CallMaps DEF Destroy
  <2> QED
    BY <2>1 DEF AsSets!Destroy
<1>13. ASSUME NEW d \in Reg, NEW a \in Reg \ {d}, Cpy(d, a) \/ SaveAndLoad(d, a)
       PROVE  AsSets!Copy(d, a)
  <2>1. Call(<<"copy", d, a>>, d, bm[a]) /\ Bits(bm[a]) = set[a]
    BY <1>1, <1>13, WrittenIsRead DEF Cpy, SaveAndLoad
  <2>2. AsSets!Call(<<"copy", d, a>>, d, set[a])
    BY <2>1, CallMaps
  <2> QED
    BY <2>2 DEF AsSets!Copy
<1>14. Done => AsSets!Done
  <2> SUFFICES ASSUME Done PROVE AsSets!Done
    OBVIOUS
  <2>1. set' = set
    BY DEF Done, Bits
  <2> QED
    BY <2>1 DEF Done, AsSets!Done, AsSets!Idle, Idle
<1>15. UNCHANGED vars => UNCHANGED <<set, op>>
  BY DEF vars, Bits
<1>16. MaxBits \subseteq Uint
  BY EbitmapAssumption DEF MaxBits, Uint
<1> HIDE DEF set
<1>17. CASE Done
  BY <1>14, <1>17 DEF AsSets!Next
<1>18. CASE UNCHANGED vars
  BY <1>15, <1>18 DEF set
<1>19. ASSUME NEW d \in Reg,
              \/ \E bit \in Uint, value \in BOOLEAN : SetBit(d, bit, value)
              \/ \E bit \in Uint : SetBitFails(d, bit)
       PROVE  AsSets!Next
  BY <1>2, <1>3, <1>19 DEF AsSets!Next
<1>20. ASSUME NEW d \in Reg,
              \/ \E a, b \in Reg : Or(d, a, b) \/ And(d, a, b) \/ Xor(d, a, b)
              \/ \E a \in Reg : ebitmap_union(d, a)
       PROVE  AsSets!Next
  BY <1>4, <1>5, <1>6, <1>7, <1>20 DEF AsSets!Next
<1>21. ASSUME NEW d \in Reg,
              \/ \E a \in Reg, n \in MaxBits : Not(d, a, n)
              \/ \E a, b \in Reg, n \in MaxBits : AndNot(d, a, b, n)
       PROVE  AsSets!Next
  BY <1>8, <1>9, <1>16, <1>21 DEF AsSets!Next
<1>22. ASSUME NEW d \in Reg,
              \/ \E lo, hi \in Uint : InitRange(d, lo, hi) \/ InitRangeFails(d, lo, hi)
              \/ ConstructorFails(d)
       PROVE  AsSets!Next
  BY <1>10, <1>11, <1>22 DEF AsSets!Next, InitRangeFails, ConstructorFails
<1>23. ASSUME NEW d \in Reg,
              \/ \E a \in Reg \ {d} : Cpy(d, a) \/ SaveAndLoad(d, a)
              \/ Destroy(d)
       PROVE  AsSets!Next
  BY <1>12, <1>13, <1>23 DEF AsSets!Next
<1> QED
  BY <1>17, <1>18, <1>19, <1>20, <1>21, <1>22, <1>23, Zenon DEF Next

(* Every call changes the sets the bitmaps stand for as the set operation  *)
(* of the same name does: or is union, andnot is difference cut at maxbit, *)
(* a range is the bits between its ends, what is written is what is read;  *)
(* a failed call changes nothing or empties its destination (ebitmap.c).   *)
THEOREM SetsImplemented == Spec => ImplementsSets
<1> QED
  BY RepresentationHolds, SetsInit, SetsStep, PTL DEF Spec, ImplementsSets, AsSets!Spec

-----------------------------------------------------------------------------
(***************************************************************************)
(* The queries.                                                            *)
(***************************************************************************)
\* A loop whose turns stay in X and advance until they are over.
Advances(n, X, turn, over, far) ==
    /\ far \in [X -> Nat]
    /\ \A w \in X : w \in over => turn[w] = w
    /\ \A w \in X : w \notin over => turn[w] \in X /\ far[turn[w]] > far[w]
    /\ \A w \in X : far[w] >= n => w \in over

LEMMA LoopEnds ==
  ASSUME NEW n \in Nat, NEW X, NEW start \in X, NEW turn, NEW over, NEW far,
         Advances(n, X, turn, over, far)
  PROVE  Loop(n, start, turn) \in X /\ Loop(n, start, turn) \in over
<1> USE DEF Advances
<1> DEFINE V == [k \in 0 .. n |-> {w \in X : w \in over \/ far[w] >= k}]
<1>1. start \in V[0]
  OBVIOUS
<1>2. ASSUME NEW k \in 1 .. n, NEW w \in V[k - 1] PROVE turn[w] \in V[k]
  <2>1. k - 1 \in 0 .. n /\ k \in 0 .. n
    OBVIOUS
  <2>2. w \in X /\ (w \in over \/ far[w] >= k - 1)
    BY <2>1
  <2>3. CASE w \in over
    BY <2>1, <2>2, <2>3
  <2>4. CASE w \notin over
    <3>1. turn[w] \in X /\ far[turn[w]] > far[w] /\ far[w] \in Nat /\ far[turn[w]] \in Nat
      BY <2>2, <2>4
    <3>2. far[turn[w]] >= k
      BY <2>2, <2>4, <3>1
    <3> QED
      BY <2>1, <3>1, <3>2
  <2> QED
    BY <2>3, <2>4
<1> DEFINE l == Loop(n, start, turn)
<1>3. l \in V[n]
  <2> HIDE DEF V
  <2> QED
    BY <1>1, <1>2, LoopInvariant
<1> HIDE DEF l
<1>4. l \in X /\ (l \in over \/ far[l] >= n)
  BY <1>3
<1> QED
  BY <1>4 DEF l

\* One list holds a start bit the other has: the other has it, no earlier.
Holds(n1, n2) == \A s, o : On(n2, Len(n2), s, o) => On(n1, Len(n1), s, o)
AgreeTo(k, n1, n2) == \A x \in 1 .. k : x <= Len(n2) /\ n1[x] = n2[x]

LEMMA SameStart ==
  ASSUME NEW n1, NEW n2, ListOK(n1), ListOK(n2), Holds(n2, n1),
         NEW k \in 1 .. Len(n1), AgreeTo(k - 1, n1, n2)
  PROVE  \E x \in k .. Len(n2) : n2[x].startbit = n1[k].startbit
<1>1. Len(n1) \in Nat /\ Len(n2) \in Nat
  BY DEF ListOK
<1>2. PICK o : o \in n1[k].map
  BY NodeFacts
<1>3. On(n1, Len(n1), n1[k].startbit, o)
  BY <1>2 DEF On
<1>4. PICK x \in 1 .. Len(n2) : n2[x].startbit = n1[k].startbit
  BY <1>3 DEF On, Holds
<1>5. ~(x < k)
  <2> SUFFICES ASSUME x < k PROVE FALSE
    OBVIOUS
  <2>1. x \in 1 .. k - 1 /\ x \in 1 .. Len(n1)
    BY <1>1
  <2>2. n1[x].startbit < n1[k].startbit /\ n1[x] = n2[x]
    BY <2>1, Increasing DEF AgreeTo
  <2>3. n1[k].startbit \in Nat
    BY NodeFacts
  <2> QED
    BY <1>4, <2>2, <2>3
<1> QED
  BY <1>1, <1>4, <1>5

LEMMA Prefix ==
  ASSUME NEW n1, NEW n2, ListOK(n1), ListOK(n2),
         \A s, o : On(n1, Len(n1), s, o) <=> On(n2, Len(n2), s, o)
  PROVE  Len(n1) <= Len(n2) /\ \A x \in 1 .. Len(n1) : n1[x] = n2[x]
<1>1. Len(n1) \in Nat /\ Len(n2) \in Nat
  BY DEF ListOK
<1> DEFINE S == {k \in 0 .. Len(n1) : k <= Len(n2) /\ \A x \in 1 .. k : n1[x] = n2[x]}
<1>2. 0 \in S
  BY <1>1
<1>3. ASSUME NEW k \in 1 .. Len(n1), k - 1 \in S PROVE k \in S
  <2>1. k - 1 <= Len(n2) /\ \A x \in 1 .. k - 1 : n1[x] = n2[x]
    BY <1>3
  <2>2. PICK x \in k .. Len(n2) : n2[x].startbit = n1[k].startbit
    <3>1. AgreeTo(k - 1, n1, n2) /\ Holds(n2, n1)
      BY <1>1, <2>1 DEF AgreeTo, Holds
    <3> QED
      BY <3>1, SameStart
  <2>3. k \in 1 .. Len(n2) /\ x \in 1 .. Len(n2)
    BY <1>1, <2>2
  <2>4. PICK y \in k .. Len(n1) : n1[y].startbit = n2[k].startbit
    <3>1. AgreeTo(k - 1, n2, n1) /\ Holds(n1, n2)
      BY <1>1, <2>1 DEF AgreeTo, Holds
    <3> QED
      BY <2>3, <3>1, SameStart
  <2>5. y \in 1 .. Len(n1)
    BY <1>1, <2>4
  <2>6. /\ n1[k].startbit \in Nat /\ n2[k].startbit \in Nat /\ n1[y].startbit \in Nat
        /\ n2[x].startbit \in Nat /\ n1[k] \in Nodes /\ n2[k] \in Nodes
    BY <2>3, <2>5, NodeFacts
  <2>7. k < x => n2[k].startbit < n2[x].startbit
    BY <2>3, Increasing
  <2>8. k < y => n1[k].startbit < n1[y].startbit
    BY <2>5, Increasing
  <2>9. n1[k].startbit = n2[k].startbit
    <3>1. n2[k].startbit <= n1[k].startbit
      <4>1. k < x \/ k = x
        BY <1>1, <2>2
      <4> QED
        BY <2>2, <2>6, <2>7, <4>1
    <3>2. n1[k].startbit <= n2[k].startbit
      <4>1. k < y \/ k = y
        BY <1>1, <2>4
      <4> QED
        BY <2>4, <2>6, <2>8, <4>1
    <3> QED
      BY <2>6, <3>1, <3>2
  <2>10. n1[k].map = n2[k].map
    <3>1. \A o : o \in n1[k].map <=> On(n1, Len(n1), n1[k].startbit, o)
      BY OnAt
    <3>2. \A o : o \in n2[k].map <=> On(n2, Len(n2), n2[k].startbit, o)
      BY <2>3, OnAt
    <3> QED
      BY <2>9, <3>1, <3>2
  <2>11. n1[k] = n2[k]
    BY <2>6, <2>9, <2>10 DEF Nodes
  <2>12. \A z \in 1 .. k : z \in 1 .. k - 1 \/ z = k
    OBVIOUS
  <2> QED
    BY <1>1, <2>1, <2>3, <2>11, <2>12
<1>4. S = 0 .. Len(n1)
  <2> HIDE DEF S
  <2>1. S \in SUBSET (0 .. Len(n1))
    BY DEF S
  <2> QED
    BY <1>1, <1>2, <1>3, <2>1, Induct
<1>5. Len(n1) \in S
  BY <1>1, <1>4
<1> QED
  BY <1>5

\* The representation is canonical: the same bits are the same list.
LEMMA Canonical ==
  ASSUME NEW n1, NEW n2, ListOK(n1), ListOK(n2),
         \A s, o : On(n1, Len(n1), s, o) <=> On(n2, Len(n2), s, o)
  PROVE  n1 = n2
<1>1. n1 \in Seq(Nodes) /\ n2 \in Seq(Nodes) /\ Len(n1) \in Nat /\ Len(n2) \in Nat
  BY DEF ListOK
<1>2. Len(n1) <= Len(n2) /\ \A x \in 1 .. Len(n1) : n1[x] = n2[x]
  BY Prefix
<1>3. Len(n2) <= Len(n1)
  BY Prefix
<1>4. Len(n1) = Len(n2)
  BY <1>1, <1>2, <1>3
<1> QED
  BY <1>1, <1>2, <1>4, SeqEqual

\* The bits of two lists compared as what the lists hold.
LEMMA BitsCompare ==
  ASSUME NEW e, NEW f, ListOK(e.node), ListOK(f.node)
  PROVE  /\ Bits(f) \subseteq Bits(e) <=>
              \A s, o : On(f.node, Len(f.node), s, o) => On(e.node, Len(e.node), s, o)
         /\ Bits(e) \cap Bits(f) # {} <=>
              \E s, o : On(e.node, Len(e.node), s, o) /\ On(f.node, Len(f.node), s, o)
<1> DEFINE n == e.node
           m == f.node
<1>1. /\ Bits(e) \subseteq Uint
      /\ \A s \in Starts, o \in Offset : s + o \in Bits(e) <=> On(n, Len(n), s, o)
  BY BitsOn
<1>2. /\ Bits(f) \subseteq Uint
      /\ \A s \in Starts, o \in Offset : s + o \in Bits(f) <=> On(m, Len(m), s, o)
  BY BitsOn
<1>3. \A s, o : On(n, Len(n), s, o) \/ On(m, Len(m), s, o) => s \in Starts /\ o \in Offset
  <2>1. Len(n) \in 0 .. Len(n) /\ Len(m) \in 0 .. Len(m)
    BY DEF ListOK
  <2> QED
    BY <2>1, OnTypes
<1>4. \A b \in Uint : \E s \in Starts, o \in Offset : b = s + o
  <2>1. \A b \in Uint : b \in Nat
    BY EbitmapAssumption DEF Uint
  <2> QED
    BY <2>1, SplitBit
<1> HIDE DEF n, m
<1> SUFFICES /\ Bits(f) \subseteq Bits(e) <=> \A s, o : On(m, Len(m), s, o) => On(n, Len(n), s, o)
             /\ Bits(e) \cap Bits(f) # {} <=> \E s, o : On(n, Len(n), s, o) /\ On(m, Len(m), s, o)
  BY DEF n, m
<1>5. Bits(f) \subseteq Bits(e) => \A s, o : On(m, Len(m), s, o) => On(n, Len(n), s, o)
  BY <1>1, <1>2, <1>3
<1>6. (\A s, o : On(m, Len(m), s, o) => On(n, Len(n), s, o)) => Bits(f) \subseteq Bits(e)
  <2> SUFFICES ASSUME \A s, o : On(m, Len(m), s, o) => On(n, Len(n), s, o), NEW b \in Bits(f)
               PROVE  b \in Bits(e)
    OBVIOUS
  <2>1. PICK s \in Starts, o \in Offset : b = s + o
    BY <1>2, <1>4
  <2> QED
    BY <1>1, <1>2, <2>1
<1>7. Bits(e) \cap Bits(f) # {} => \E s, o : On(n, Len(n), s, o) /\ On(m, Len(m), s, o)
  <2> SUFFICES ASSUME NEW b \in Bits(e), b \in Bits(f)
               PROVE  \E s, o : On(n, Len(n), s, o) /\ On(m, Len(m), s, o)
    OBVIOUS
  <2>1. PICK s \in Starts, o \in Offset : b = s + o
    BY <1>2, <1>4
  <2> QED
    BY <1>1, <1>2, <2>1
<1>8. ASSUME NEW s, NEW o, On(n, Len(n), s, o), On(m, Len(m), s, o) PROVE Bits(e) \cap Bits(f) # {}
  <2>1. s + o \in Bits(e) /\ s + o \in Bits(f)
    BY <1>1, <1>2, <1>3, <1>8
  <2> QED
    BY <2>1
<1> QED
  BY <1>5, <1>6, <1>7, <1>8

\* ebitmap_cmp is equality of the sets.
LEMMA CmpIs ==
  ASSUME NEW e \in Bitmap, NEW f \in Bitmap, RepOK(e), RepOK(f)
  PROVE  ebitmap_cmp(e, f) <=> Bits(e) = Bits(f)
<1>1. /\ ListOK(e.node) /\ e.highbit = High(e.node) /\ e = [node |-> e.node, highbit |-> e.highbit]
      /\ ListOK(f.node) /\ f.highbit = High(f.node) /\ f = [node |-> f.node, highbit |-> f.highbit]
  BY BitmapIs
<1>2. ASSUME Bits(e) = Bits(f) PROVE ebitmap_cmp(e, f)
  <2>1. \A s, o : On(f.node, Len(f.node), s, o) <=> On(e.node, Len(e.node), s, o)
    BY <1>1, <1>2, BitsCompare
  <2>2. e.node = f.node
    BY <1>1, <2>1, Canonical
  <2> QED
    BY <1>1, <2>2 DEF ebitmap_cmp
<1>3. ebitmap_cmp(e, f) => Bits(e) = Bits(f)
  BY DEF ebitmap_cmp, Bits
<1> QED
  BY <1>2, <1>3

(* ebitmap_contains: what is behind the second pointer is behind the       *)
(* first, and the first has not passed the node of the second.             *)
Behind(n1, n2, w) ==
    /\ w \in Cursors /\ w.i \in 1 .. Len(n1) + 1 /\ w.j \in 1 .. Len(n2) + 1
    /\ \A s, o : On(n2, w.j - 1, s, o) => On(n1, w.i - 1, s, o)
    /\ More(n2, w.j) => \A k \in 1 .. w.i - 1 : n1[k].startbit < n2[w.j].startbit

Held(n1, n2, w) ==
    /\ More(n1, w.i) /\ More(n2, w.j)
    /\ \/ n1[w.i].startbit < n2[w.j].startbit
       \/ n1[w.i].startbit = n2[w.j].startbit /\ n2[w.j].map \subseteq n1[w.i].map

LEMMA ContainsTurnOK ==
  ASSUME NEW n1, NEW n2, ListOK(n1), ListOK(n2), NEW w, Behind(n1, n2, w)
  PROVE  /\ ~Held(n1, n2, w) => ContainsTurn(n1, n2, w) = w
         /\ Held(n1, n2, w) => /\ Behind(n1, n2, ContainsTurn(n1, n2, w))
                               /\ ContainsTurn(n1, n2, w).i = w.i + 1
<1>1. ~Held(n1, n2, w) => ContainsTurn(n1, n2, w) = w
  BY DEF Held, ContainsTurn
<1>2. ASSUME Held(n1, n2, w)
      PROVE  /\ Behind(n1, n2, ContainsTurn(n1, n2, w)) /\ ContainsTurn(n1, n2, w).i = w.i + 1
  <2> DEFINE i == w.i
             j == w.j
             a == n1[i]
             b == n2[j]
             v == ContainsTurn(n1, n2, w)
  <2>1. /\ v = [i |-> i + 1, j |-> IF a.startbit = b.startbit THEN j + 1 ELSE j]
        /\ v.i = i + 1 /\ v.j = IF a.startbit = b.startbit THEN j + 1 ELSE j
    BY <1>2 DEF Held, ContainsTurn
  <2>2. /\ Len(n1) \in Nat /\ Len(n2) \in Nat /\ i \in 1 .. Len(n1) /\ j \in 1 .. Len(n2)
        /\ \A s, o : On(n2, j - 1, s, o) => On(n1, i - 1, s, o)
        /\ \A k \in 1 .. i - 1 : n1[k].startbit < b.startbit
        /\ a.startbit < b.startbit \/ (a.startbit = b.startbit /\ b.map \subseteq a.map)
    BY <1>2 DEF Held, Behind, More, ListOK
  <2> HIDE DEF i, j, v
  <2>3. v \in Cursors /\ v.i \in 1 .. Len(n1) + 1 /\ v.j \in 1 .. Len(n2) + 1
    BY <2>1, <2>2 DEF Cursors
  <2>4. a.startbit \in Nat /\ b.startbit \in Nat
    BY <2>2, NodeFacts
  <2>5. \A s, o : On(n1, i, s, o) <=> On(n1, i - 1, s, o) \/ (s = a.startbit /\ o \in a.map)
    BY <2>2, OnNext
  <2>6. \A s, o : On(n2, j, s, o) <=> On(n2, j - 1, s, o) \/ (s = b.startbit /\ o \in b.map)
    BY <2>2, OnNext
  <2>7. v.i - 1 = i /\ (a.startbit = b.startbit => v.j - 1 = j)
    BY <2>1, <2>2
  <2>8. \A s, o : On(n2, v.j - 1, s, o) => On(n1, v.i - 1, s, o)
    <3>1. CASE a.startbit = b.startbit
      <4> HIDE DEF a, b
      <4> QED
        BY <2>2, <2>4, <2>5, <2>6, <2>7, <3>1
    <3>2. CASE a.startbit # b.startbit
      <4>1. v.j = j
        BY <2>1, <3>2
      <4> HIDE DEF a, b
      <4> QED
        BY <2>2, <2>5, <2>7, <4>1
    <3> QED
      BY <3>1, <3>2
  <2>9. ASSUME More(n2, v.j), NEW k \in 1 .. v.i - 1 PROVE n1[k].startbit < n2[v.j].startbit
    <3>1. k \in 1 .. i - 1 \/ k = i
      BY <2>2, <2>7, <2>9
    <3>2. k \in 1 .. Len(n1)
      BY <2>2, <3>1
    <3>3. n1[k].startbit \in Nat
      BY <3>2, NodeFacts
    <3>4. CASE a.startbit = b.startbit
      <4>1. v.j = j + 1 /\ v.j \in 1 .. Len(n2)
        BY <2>1, <2>2, <2>3, <2>9, <3>4 DEF More
      <4>2. b.startbit < n2[v.j].startbit /\ n2[v.j].startbit \in Nat
        BY <2>2, <4>1, Increasing, NodeFacts
      <4>3. n1[k].startbit <= b.startbit
        BY <2>2, <2>4, <3>1, <3>3, <3>4
      <4> QED
        BY <2>4, <3>3, <4>2, <4>3
    <3>5. CASE a.startbit # b.startbit
      <4>1. v.j = j /\ a.startbit < b.startbit
        BY <2>1, <2>2, <3>5
      <4> QED
        BY <2>2, <3>1, <4>1
    <3> QED
      BY <3>4, <3>5
  <2>10. Behind(n1, n2, v)
    BY <2>3, <2>8, <2>9 DEF Behind
  <2> QED
    BY <2>1, <2>10 DEF v, i
<1> QED
  BY <1>1, <1>2

LEMMA ContainsNodesIs ==
  ASSUME NEW n1, NEW n2, ListOK(n1), ListOK(n2)
  PROVE  ContainsNodes(n1, n2) <=>
            \A s, o : On(n2, Len(n2), s, o) => On(n1, Len(n1), s, o)
<1> DEFINE X == {w \in Cursors : Behind(n1, n2, w)}
           over == {w \in Cursors : ~Held(n1, n2, w)}
           turn == [w \in Cursors |-> ContainsTurn(n1, n2, w)]
           start == [i |-> 1, j |-> 1]
           far == [w \in X |-> w.i - 1]
           l == Loop(Len(n1), start, turn)
<1>1. Len(n1) \in Nat /\ Len(n2) \in Nat
  BY DEF ListOK
<1>2. start \in X
  <2>1. start \in Cursors /\ start.i = 1 /\ start.j = 1
    BY DEF Cursors
  <2>2. \A s, o : ~On(n2, 0, s, o)
    BY DEF On
  <2> HIDE DEF start
  <2> QED
    BY <1>1, <2>1, <2>2 DEF Behind
<1>3. ASSUME NEW w \in X PROVE /\ w \in Cursors /\ Behind(n1, n2, w) /\ w.i \in 1 .. Len(n1) + 1
                               /\ turn[w] = ContainsTurn(n1, n2, w)
  BY DEF Behind
<1>4. far \in [X -> Nat]
  <2>1. \A w \in X : w.i - 1 \in Nat
    BY <1>1, <1>3
  <2> QED
    BY <2>1
<1>5. \A w \in X : w \in over => turn[w] = w
  BY <1>3, ContainsTurnOK
<1>6. ASSUME NEW w \in X, w \notin over PROVE turn[w] \in X /\ far[turn[w]] > far[w]
  <2>1. Held(n1, n2, w) /\ Behind(n1, n2, w) /\ turn[w] = ContainsTurn(n1, n2, w) /\ w.i \in Nat
    BY <1>1, <1>3, <1>6
  <2>2. Behind(n1, n2, turn[w]) /\ turn[w].i = w.i + 1
    BY <2>1, ContainsTurnOK
  <2>3. turn[w] \in X
    BY <2>2 DEF Behind
  <2> QED
    BY <2>1, <2>2, <2>3
<1>7. \A w \in X : far[w] >= Len(n1) => w \in over
  <2> SUFFICES ASSUME NEW w \in X, far[w] >= Len(n1) PROVE w \in over
    OBVIOUS
  <2>1. w.i \in 1 .. Len(n1) + 1 /\ w.i - 1 >= Len(n1) /\ w \in Cursors
    BY <1>3
  <2> QED
    BY <1>1, <2>1 DEF Held, More
<1>8. l \in X /\ l \in over
  <2> HIDE DEF X, over, turn, start, far
  <2>1. Advances(Len(n1), X, turn, over, far)
    BY <1>4, <1>5, <1>6, <1>7 DEF Advances
  <2> QED
    BY <1>1, <1>2, <2>1, LoopEnds
<1>9. ContainsNodes(n1, n2) <=> ~More(n2, l.j)
  BY DEF ContainsNodes
<1> HIDE DEF l
<1>10. /\ l.i \in 1 .. Len(n1) + 1 /\ l.j \in 1 .. Len(n2) + 1 /\ ~Held(n1, n2, l)
       /\ \A s, o : On(n2, l.j - 1, s, o) => On(n1, l.i - 1, s, o)
       /\ More(n2, l.j) => \A k \in 1 .. l.i - 1 : n1[k].startbit < n2[l.j].startbit
  BY <1>8 DEF Behind
<1>11. CASE ~More(n2, l.j)
  <2>1. l.j - 1 = Len(n2)
    BY <1>1, <1>10, <1>11 DEF More
  <2>2. \A s, o : On(n1, l.i - 1, s, o) => On(n1, Len(n1), s, o)
    BY <1>1, <1>10 DEF On
  <2> QED
    BY <1>9, <1>10, <1>11, <2>1, <2>2
<1>12. CASE More(n2, l.j)
  <2> DEFINE b == n2[l.j]
  <2>1. l.j \in 1 .. Len(n2)
    BY <1>1, <1>10, <1>12 DEF More
  <2>2. b.startbit \in Nat /\ b.map # {}
    BY <2>1, NodeFacts
  <2>3. \A o : On(n2, Len(n2), b.startbit, o) <=> o \in b.map
    BY <2>1, OnAt
  <2>4. \E o \in b.map : ~On(n1, Len(n1), b.startbit, o)
    <3>1. CASE More(n1, l.i) /\ n1[l.i].startbit = b.startbit
      <4>1. l.i \in 1 .. Len(n1)
        BY <1>1, <1>10, <3>1 DEF More
      <4>2. PICK o \in b.map : o \notin n1[l.i].map
        BY <1>10, <1>12, <3>1 DEF Held
      <4>3. ~On(n1, Len(n1), b.startbit, o)
        BY <3>1, <4>1, <4>2, OnAt
      <4> QED
        BY <4>3
    <3>2. CASE ~(More(n1, l.i) /\ n1[l.i].startbit = b.startbit)
      <4>1. ASSUME NEW k \in 1 .. Len(n1) PROVE n1[k].startbit # b.startbit
        <5>1. n1[k].startbit \in Nat
          BY NodeFacts
        <5>2. CASE k < l.i
          <6>1. k \in 1 .. l.i - 1
            BY <1>1, <1>10, <5>2
          <6> QED
            BY <1>10, <1>12, <2>2, <5>1, <6>1
        <5>3. CASE k >= l.i
          <6>1. l.i \in 1 .. Len(n1) /\ More(n1, l.i)
            BY <1>1, <1>10, <5>3 DEF More
          <6>2. n1[l.i].startbit \in Nat /\ ~(n1[l.i].startbit < b.startbit)
            BY <1>10, <1>12, <6>1, NodeFacts DEF Held
          <6>3. n1[l.i].startbit > b.startbit
            BY <2>2, <3>2, <6>1, <6>2
          <6>4. l.i < k => n1[l.i].startbit < n1[k].startbit
            BY <6>1, Increasing
          <6>5. l.i = k \/ l.i < k
            BY <5>3, <6>1
          <6> QED
            BY <2>2, <5>1, <6>2, <6>3, <6>4, <6>5
        <5> QED
          BY <1>10, <5>2, <5>3
      <4>2. \A o : ~On(n1, Len(n1), b.startbit, o)
        BY <4>1 DEF On
      <4> QED
        BY <2>2, <4>2
    <3> QED
      BY <3>1, <3>2
  <2> HIDE DEF b
  <2> QED
    BY <1>9, <1>12, <2>3, <2>4
<1> QED
  BY <1>11, <1>12

LEMMA ContainsIs ==
  ASSUME NEW e \in Bitmap, NEW f \in Bitmap, RepOK(e), RepOK(f)
  PROVE  ebitmap_contains(e, f) <=> Bits(f) \subseteq Bits(e)
<1> DEFINE n == e.node
           m == f.node
<1>1. ListOK(n) /\ ListOK(m) /\ e.highbit = High(n) /\ f.highbit = High(m)
  BY BitmapIs
<1>2. Bits(f) \subseteq Bits(e) <=> \A s, o : On(m, Len(m), s, o) => On(n, Len(n), s, o)
  BY <1>1, BitsCompare
<1>3. ebitmap_contains(e, f) <=> High(n) >= High(m) /\ ContainsNodes(n, m)
  BY <1>1 DEF ebitmap_contains
<1> HIDE DEF n, m
<1>4. ContainsNodes(n, m) <=> \A s, o : On(m, Len(m), s, o) => On(n, Len(n), s, o)
  BY <1>1, ContainsNodesIs
<1>5. (\A s, o : On(m, Len(m), s, o) => On(n, Len(n), s, o)) => High(n) >= High(m)
  <2> SUFFICES ASSUME \A s, o : On(m, Len(m), s, o) => On(n, Len(n), s, o) PROVE High(n) >= High(m)
    OBVIOUS
  <2>1. /\ High(n) \in Nat /\ High(m) \in Nat
        /\ \A s, o : On(n, Len(n), s, o) => s \in Nat /\ s + MapSize <= High(n)
        /\ High(m) # 0 => \E s \in Starts, o \in Offset : s + MapSize = High(m) /\ On(m, Len(m), s, o)
    BY <1>1, HighIs
  <2> QED
    BY <2>1
<1> QED
  BY <1>2, <1>3, <1>4, <1>5

(* ebitmap_match_any: the loop of ebitmap_and that stops at the first node *)
(* it would link.                                                          *)
LEMMA MatchNodesIs ==
  ASSUME NEW n1, NEW n2, ListOK(n1), ListOK(n2)
  PROVE  MatchNodes(n1, n2) <=> \E s, o : On(n1, Len(n1), s, o) /\ On(n2, Len(n2), s, o)
<1> DEFINE At(w) == Linked(w, <<>>)
           Both(w) == More(n1, w.i) /\ More(n2, w.j)
           Apart(w) == Meet(n1, n2, w).map1 \cap Meet(n1, n2, w).map2 = {}
           X == {w \in Cursors : MergeInv("and", n1, n2, At(w))}
           over == {w \in Cursors : ~(Both(w) /\ Apart(w))}
           turn == [w \in Cursors |-> MatchTurn(n1, n2, w)]
           start == [i |-> 1, j |-> 1]
           far == [w \in X |-> w.i + w.j - 2]
           N == Len(n1) + Len(n2)
           l == Loop(N, start, turn)
<1>1. Len(n1) \in Nat /\ Len(n2) \in Nat /\ N \in Nat /\ "and" \in Kinds
  BY DEF ListOK, Kinds
<1>2. start \in X
  <2>1. At(start) = MergeStart /\ start \in Cursors
    BY DEF Linked, MergeStart, Cursors
  <2>2. MergeInv("and", n1, n2, MergeStart)
    <3>1. MergeStart \in Merge /\ MergeStart.i = 1 /\ MergeStart.j = 1 /\ MergeStart.out = <<>>
      BY DEF MergeStart, Merge
    <3>2. ListOK(<<>>) /\ Len(<<>>) = 0
      BY DEF ListOK
    <3>3. Abreast(n1, n2, 1, 1)
      BY <1>1 DEF Abreast
    <3>4. \A n, s, o : ~On(n, 0, s, o)
      BY DEF On
    <3>5. \A s, o : On(<<>>, 0, s, o) <=> Joined("and", On(n1, 0, s, o), On(n2, 0, s, o))
      BY <3>4 DEF Joined
    <3> QED
      BY <3>1, <3>2, <3>3, <3>5 DEF MergeInv
  <2> HIDE DEF start, At
  <2> QED
    BY <2>1, <2>2
<1>3. ASSUME NEW w \in X
      PROVE  /\ w \in Cursors /\ w = [i |-> w.i, j |-> w.j] /\ w.i \in 1 .. Len(n1) + 1 /\ w.j \in 1 .. Len(n2) + 1
             /\ turn[w] = MatchTurn(n1, n2, w) /\ MergeInv("and", n1, n2, At(w))
             /\ At(w).i = w.i /\ At(w).j = w.j /\ At(w).out = <<>> /\ Meet(n1, n2, At(w)) = Meet(n1, n2, w)
  <2>1. w \in Cursors /\ MergeInv("and", n1, n2, At(w)) /\ turn[w] = MatchTurn(n1, n2, w)
    OBVIOUS
  <2>2. At(w).i = w.i /\ At(w).j = w.j /\ At(w).out = <<>>
    BY DEF Linked
  <2>3. Meet(n1, n2, At(w)) = Meet(n1, n2, w)
    <3> HIDE DEF At
    <3> QED
      BY <2>2 DEF Meet
  <2>4. w = [i |-> w.i, j |-> w.j]
    BY <2>1 DEF Cursors
  <2> QED
    BY <2>1, <2>2, <2>3, <2>4 DEF MergeInv, Abreast
<1>4. far \in [X -> Nat]
  <2>1. \A w \in X : w.i + w.j - 2 \in Nat
    BY <1>1, <1>3
  <2> QED
    BY <2>1
<1>5. \A w \in X : w \in over => turn[w] = w
  <2> SUFFICES ASSUME NEW w \in X, w \in over PROVE turn[w] = w
    OBVIOUS
  <2>1. ~(Both(w) /\ Apart(w)) /\ turn[w] = MatchTurn(n1, n2, w)
    BY <1>3
  <2> QED
    BY <2>1 DEF MatchTurn
<1>6. ASSUME NEW w \in X, w \notin over PROVE turn[w] \in X /\ far[turn[w]] > far[w]
  <2> DEFINE t == Meet(n1, n2, w)
             v == Linked(t, <<>>)
  <2>1. Both(w) /\ Apart(w)
    BY <1>3, <1>6
  <2>2. turn[w] = [i |-> t.i, j |-> t.j]
    BY <1>3, <2>1 DEF MatchTurn
  <2>3. <<>> = At(w).out \o Kept(t.startbit, JoinedMaps("and", t.map1, t.map2))
    <3>1. JoinedMaps("and", t.map1, t.map2) = {}
      BY <2>1 DEF JoinedMaps
    <3>2. Kept(t.startbit, {}) = <<>>
      BY DEF Kept
    <3>3. At(w).out = <<>> /\ <<>> \o <<>> = <<>>
      BY <1>3
    <3> HIDE DEF At, t, X, over
    <3> QED
      BY <3>1, <3>2, <3>3
  <2>4. MergeInv("and", n1, n2, v) /\ v.i + v.j > w.i + w.j
    <3>1. MergeInv("and", n1, n2, At(w)) /\ t = Meet(n1, n2, At(w)) /\ At(w).i = w.i /\ At(w).j = w.j
      BY <1>3
    <3>2. More(n1, At(w).i) \/ More(n2, At(w).j)
      BY <2>1, <3>1
    <3> HIDE DEF t, At, X, over, Both, Apart
    <3> QED
      BY <1>1, <2>3, <3>1, <3>2, MergeTurn
  <2>5. At(turn[w]) = v /\ turn[w].i = v.i /\ turn[w].j = v.j
    BY <2>2 DEF Linked
  <2> HIDE DEF v, t
  <2>6. v.i \in Nat /\ v.j \in Nat
    BY <2>4 DEF MergeInv, Merge
  <2>7. turn[w] \in Cursors
    BY <2>2, <2>5, <2>6 DEF Cursors
  <2>8. turn[w] \in X
    <3> HIDE DEF turn, At
    <3> QED
      BY <2>4, <2>5, <2>7
  <2>9. w.i \in Nat /\ w.j \in Nat
    BY <1>1, <1>3
  <2> HIDE DEF X, turn
  <2>10. far[turn[w]] = v.i + v.j - 2 /\ far[w] = w.i + w.j - 2
    BY <2>5, <2>8
  <2> HIDE DEF far
  <2> QED
    BY <2>4, <2>6, <2>8, <2>9, <2>10
<1>7. ASSUME NEW w \in X, far[w] >= N PROVE w \in over
  <2>1. w \in Cursors /\ w.i \in 1 .. Len(n1) + 1 /\ w.j \in 1 .. Len(n2) + 1 /\ w.i + w.j - 2 >= N
    BY <1>3, <1>7
  <2>2. ~Both(w)
    BY <1>1, <2>1 DEF More
  <2> QED
    BY <2>1, <2>2
<1>8. l \in X /\ l \in over
  <2> HIDE DEF X, over, turn, start, far, N
  <2>1. Advances(N, X, turn, over, far)
    BY <1>4, <1>5, <1>6, <1>7 DEF Advances
  <2> QED
    BY <1>1, <1>2, <2>1, LoopEnds
<1>9. MatchNodes(n1, n2) <=> Both(l)
  BY DEF MatchNodes
<1> HIDE DEF l
<1>10. CASE Both(l)
  <2> DEFINE t == Meet(n1, n2, l)
  <2>1. MeetOK(n1, n2, At(l), t)
    <3>1. MergeInv("and", n1, n2, At(l)) /\ t = Meet(n1, n2, At(l)) /\ At(l).i = l.i /\ At(l).j = l.j
      BY <1>3, <1>8
    <3>2. Abreast(n1, n2, At(l).i, At(l).j) /\ (More(n1, At(l).i) \/ More(n2, At(l).j))
      BY <1>10, <3>1 DEF MergeInv
    <3> HIDE DEF t, At, X, over, Both, Apart
    <3> QED
      BY <3>1, <3>2, Meets
  <2>2. ~Apart(l)
    BY <1>8, <1>10
  <2>3. PICK o : o \in t.map1 /\ o \in t.map2
    BY <2>2
  <2> HIDE DEF t
  <2>4. On(n1, t.i - 1, t.startbit, o) /\ On(n2, t.j - 1, t.startbit, o)
    BY <2>1, <2>3 DEF MeetOK
  <2>5. t.i \in 1 .. Len(n1) + 1 /\ t.j \in 1 .. Len(n2) + 1
    BY <2>1 DEF MeetOK, Abreast
  <2>6. On(n1, Len(n1), t.startbit, o) /\ On(n2, Len(n2), t.startbit, o)
    <3>1. t.i - 1 \in Nat /\ t.i - 1 <= Len(n1) /\ t.j - 1 \in Nat /\ t.j - 1 <= Len(n2)
      BY <1>1, <2>5
    <3> QED
      BY <1>1, <2>4, <3>1, OnGrows
  <2> QED
    BY <1>9, <1>10, <2>6
<1>11. CASE ~Both(l)
  <2>1. MergeInv("and", n1, n2, At(l)) /\ At(l).i = l.i /\ At(l).j = l.j /\ At(l).out = <<>>
    BY <1>3, <1>8
  <2>2. Stop("and", n1, n2, At(l))
    BY <1>11, <2>1 DEF Stop
  <2>3. Merged("and", n1, n2, At(l).out)
    <3> HIDE DEF At, X, over, Both
    <3> QED
      BY <1>1, <2>1, <2>2, MergeEnds
  <2>4. \A s, o : ~(On(n1, Len(n1), s, o) /\ On(n2, Len(n2), s, o))
    <3>1. \A s, o : On(<<>>, 0, s, o) <=> Joined("and", On(n1, Len(n1), s, o), On(n2, Len(n2), s, o))
      BY <2>1, <2>3 DEF Merged
    <3>2. \A s, o : ~On(<<>>, 0, s, o)
      BY DEF On
    <3> QED
      BY <3>1, <3>2 DEF Joined
  <2> QED
    BY <1>9, <1>11, <2>4
<1> QED
  BY <1>10, <1>11

LEMMA MatchIs ==
  ASSUME NEW e \in Bitmap, NEW f \in Bitmap, RepOK(e), RepOK(f)
  PROVE  ebitmap_match_any(e, f) <=> Bits(e) \cap Bits(f) # {}
<1>1. ListOK(e.node) /\ ListOK(f.node)
  BY BitmapIs
<1>2. Bits(e) \cap Bits(f) # {} <=>
         \E s, o : On(e.node, Len(e.node), s, o) /\ On(f.node, Len(f.node), s, o)
  BY <1>1, BitsCompare
<1>3. MatchNodes(e.node, f.node) <=>
         \E s, o : On(e.node, Len(e.node), s, o) /\ On(f.node, Len(f.node), s, o)
  BY <1>1, MatchNodesIs
<1> QED
  BY <1>2, <1>3, Zenon DEF ebitmap_match_any

\* A nonempty set of small numbers has a greatest member, and it is Max.
LEMMA Greatest ==
  ASSUME NEW m \in Nat, NEW S \in SUBSET (0 .. m), S # {}
  PROVE  \E x \in S : \A y \in S : x >= y
<1> DEFINE Has(k) == \A A \in SUBSET (0 .. k) : A # {} => \E x \in A : \A y \in A : x >= y
           T == {k \in 0 .. m : Has(k)}
<1>1. 0 \in T
  <2>1. ASSUME NEW A \in SUBSET (0 .. 0), A # {} PROVE \E x \in A : \A y \in A : x >= y
    <3>1. PICK x : x \in A
      BY <2>1
    <3>2. x = 0 /\ \A y \in A : y = 0
      BY <3>1
    <3> QED
      BY <3>1, <3>2
  <2> QED
    BY <2>1
<1>2. ASSUME NEW k \in 1 .. m, k - 1 \in T PROVE k \in T
  <2> SUFFICES ASSUME NEW A \in SUBSET (0 .. k), A # {} PROVE \E x \in A : \A y \in A : x >= y
    OBVIOUS
  <2>1. CASE k \in A
    BY <2>1
  <2>2. CASE k \notin A
    <3>1. A \in SUBSET (0 .. k - 1)
      BY <2>2
    <3> QED
      BY <1>2, <3>1
  <2> QED
    BY <2>1, <2>2
<1>3. T = 0 .. m
  <2> HIDE DEF T
  <2>1. T \in SUBSET (0 .. m)
    BY DEF T
  <2> QED
    BY <1>1, <1>2, <2>1, Induct
<1>4. m \in T
  <2> HIDE DEF T
  <2> QED
    BY <1>3
<1> QED
  BY <1>4

LEMMA MaxIs ==
  ASSUME NEW S \in SUBSET Nat, NEW x \in S, \A y \in S : x >= y
  PROVE  Max(S) = x
<1>1. Max(S) \in S /\ \A y \in S : Max(S) >= y
  BY DEF Max
<1>2. PICK z : z = Max(S)
  OBVIOUS
<1>3. z \in Nat /\ x \in Nat /\ z >= x /\ x >= z
  BY <1>1, <1>2
<1> QED
  BY <1>2, <1>3

\* ebitmap_highest_set_bit looks only at the last node.
LEMMA HighestIs ==
  ASSUME NEW e \in Bitmap, RepOK(e), Bits(e) # {}
  PROVE  ebitmap_highest_set_bit(e) = Max(Bits(e))
<1> DEFINE n == e.node
           k == Len(n)
<1>1. ListOK(n) /\ Len(n) \in Nat /\ n \in Seq(Nodes) /\ MapSize \in Nat \ {0}
  BY BitmapIs, EbitmapAssumption DEF ListOK
<1>2. /\ Bits(e) \subseteq Uint
      /\ \A s \in Starts, o \in Offset : s + o \in Bits(e) <=> On(n, Len(n), s, o)
  BY <1>1, BitsOn
<1>3. \A b \in Bits(e) : \E s \in Starts, o \in Offset : b = s + o /\ On(n, Len(n), s, o)
  <2> SUFFICES ASSUME NEW b \in Bits(e)
               PROVE  \E s \in Starts, o \in Offset : b = s + o /\ On(n, Len(n), s, o)
    OBVIOUS
  <2>1. b \in Nat
    BY <1>2, EbitmapAssumption DEF Uint
  <2>2. StartOf(b) \in Starts /\ b - StartOf(b) \in Offset /\ b = StartOf(b) + (b - StartOf(b))
    BY <2>1, SplitBit
  <2> HIDE DEF n
  <2> QED
    BY <1>2, <2>2
<1>4. n # <<>> /\ k \in 1 .. Len(n)
  <2>1. PICK b : b \in Bits(e)
    OBVIOUS
  <2>2. PICK s \in Starts, o \in Offset : On(n, Len(n), s, o)
    BY <1>3, <2>1
  <2>3. PICK x \in 1 .. Len(n) : TRUE
    BY <2>2 DEF On
  <2> QED
    BY <1>1, <2>3
<1>5. ebitmap_highest_set_bit(e) = n[k].startbit + Max(n[k].map)
  BY <1>4 DEF ebitmap_highest_set_bit, Last
<1> HIDE DEF n, k
<1>6. /\ n[k].startbit \in Starts /\ n[k].startbit \in Nat /\ n[k].map # {}
      /\ n[k].map \subseteq Offset /\ n[k].map \in SUBSET (0 .. MapSize - 1)
  BY <1>1, <1>4, NodeFacts DEF Offset
<1>7. PICK o \in n[k].map : \A y \in n[k].map : o >= y
  <2>1. MapSize - 1 \in Nat
    BY <1>1
  <2> QED
    BY <1>6, <2>1, Greatest
<1>8. Max(n[k].map) = o /\ o \in Offset /\ o \in Nat
  <2>1. n[k].map \in SUBSET Nat
    BY <1>1, <1>6
  <2> QED
    BY <1>6, <1>7, <2>1, MaxIs
<1> DEFINE b == n[k].startbit + o
<1>9. b \in Bits(e)
  <2>1. On(n, Len(n), n[k].startbit, o)
    BY <1>4, <1>7 DEF On
  <2> QED
    BY <1>2, <1>6, <1>8, <2>1
<1>10. ASSUME NEW c \in Bits(e) PROVE b >= c
  <2>1. PICK s \in Starts, p \in Offset : c = s + p /\ On(n, Len(n), s, p)
    BY <1>3
  <2>2. PICK x \in 1 .. Len(n) : n[x].startbit = s /\ p \in n[x].map
    BY <2>1 DEF On
  <2>3. s \in Nat /\ p \in Nat /\ p < MapSize
    BY <1>1 DEF Starts, Offset
  <2>4. CASE x = k
    BY <1>6, <1>7, <1>8, <2>1, <2>2, <2>3, <2>4
  <2>5. CASE x # k
    <3>1. x < k
      BY <1>1, <2>5 DEF k
    <3>2. s < n[k].startbit
      BY <1>1, <1>4, <2>2, <3>1, Increasing
    <3>3. s + MapSize <= n[k].startbit
      BY <1>6, <3>2, StartsApart
    <3> QED
      BY <1>1, <1>6, <1>8, <2>1, <2>3, <3>3
  <2> QED
    BY <2>4, <2>5
<1>11. Bits(e) \in SUBSET Nat
  BY <1>2, EbitmapAssumption DEF Uint
<1> HIDE DEF b
<1>12. Max(Bits(e)) = b
  BY <1>9, <1>10, <1>11, MaxIs
<1> QED
  BY <1>5, <1>8, <1>12 DEF b

\* ebitmap_cardinality: the nodes counted so far.
UpTo(n, k) == UNION {{n[i].startbit + o : o \in n[i].map} : i \in 1 .. k}

LEMMA CountNode ==
  ASSUME NEW n, ListOK(n), NEW k \in 1 .. Len(n)
  PROVE  /\ Cardinality(UpTo(n, k - 1)) \in Nat /\ Cardinality(n[k].map) \in Nat
         /\ Cardinality(UpTo(n, k)) = Cardinality(UpTo(n, k - 1)) + Cardinality(n[k].map)
<1>1. MapSize \in Nat \ {0} /\ Limit \in Nat /\ Len(n) \in Nat
  BY EbitmapAssumption DEF ListOK
<1> DEFINE s == n[k].startbit
           m == n[k].map
           T == {s + o : o \in m}
           A == UpTo(n, k - 1)
<1>2. s \in Starts /\ s \in Nat /\ m \subseteq Offset
  BY NodeFacts
<1>3. IsFiniteSet(m)
  <2>1. IsFiniteSet(Offset)
    BY <1>1, FS_Interval DEF Offset
  <2> QED
    BY <1>2, <2>1, FS_Subset
<1>4. IsFiniteSet(T) /\ Cardinality(T) = Cardinality(m)
  <2> DEFINE f == [o \in m |-> s + o]
  <2>1. f \in [m -> T]
    OBVIOUS
  <2>2. \A o, p \in m : o \in Nat /\ p \in Nat
    BY <1>1, <1>2 DEF Offset
  <2>3. \A o, p \in m : f[o] = f[p] => o = p
    BY <1>2, <2>2
  <2>4. \A t \in T : \E o \in m : f[o] = t
    OBVIOUS
  <2> HIDE DEF f, T, m, s
  <2>5. f \in Injection(m, T)
    BY <2>1, <2>3 DEF Injection, IsInjective
  <2>6. f \in Surjection(m, T)
    BY <2>1, <2>4 DEF Surjection
  <2>7. ExistsBijection(m, T)
    BY <2>5, <2>6 DEF ExistsBijection, Bijection
  <2> QED
    BY <1>3, <2>7, FS_Bijection
<1>5. \A x \in 1 .. k - 1 : x \in 1 .. Len(n) /\ n[x].startbit \in Nat /\ n[x].startbit + MapSize <= s
  <2> SUFFICES ASSUME NEW x \in 1 .. k - 1
               PROVE  x \in 1 .. Len(n) /\ n[x].startbit \in Nat /\ n[x].startbit + MapSize <= s
    OBVIOUS
  <2>1. x \in 1 .. Len(n) /\ x < k
    BY <1>1
  <2>2. n[x].startbit < s
    BY <2>1, Increasing
  <2>3. n[x].startbit \in Starts /\ n[x].startbit \in Nat
    BY <2>1, NodeFacts
  <2> QED
    BY <1>2, <2>1, <2>2, <2>3, StartsApart
<1>6. \A b : b \in A <=> \E x \in 1 .. k - 1 : \E o \in n[x].map : b = n[x].startbit + o
  BY DEF UpTo
<1>7. ASSUME NEW b \in A PROVE b \in Nat /\ b < s
  <2>1. PICK x \in 1 .. k - 1 : \E o \in n[x].map : b = n[x].startbit + o
    BY <1>6
  <2>2. PICK o \in n[x].map : b = n[x].startbit + o
    BY <2>1
  <2>3. n[x].map \subseteq Offset
    BY <1>5, NodeFacts
  <2>4. o \in Nat /\ o < MapSize
    BY <1>1, <2>2, <2>3 DEF Offset
  <2> QED
    BY <1>1, <1>2, <1>5, <2>2, <2>4, SMTT(30)
<1>8. IsFiniteSet(A)
  <2> HIDE DEF A
  <2>1. A \in SUBSET Nat /\ \A b \in A : b <= s
    BY <1>2, <1>7
  <2> QED
    BY <1>2, <2>1, FS_BoundedSetOfNaturals
<1>9. A \cap T = {}
  <2> SUFFICES ASSUME NEW b \in A, b \in T PROVE FALSE
    OBVIOUS
  <2>1. PICK o \in m : b = s + o
    OBVIOUS
  <2>2. o \in Nat
    BY <1>1, <1>2 DEF Offset
  <2> QED
    BY <1>2, <1>7, <2>1, <2>2
<1>10. UpTo(n, k) = A \cup T
  <2>1. \A x : x \in 1 .. k <=> x \in 1 .. k - 1 \/ x = k
    OBVIOUS
  <2> QED
    BY <2>1 DEF UpTo
<1> HIDE DEF A, T, m
<1>11. Cardinality(A) \in Nat /\ Cardinality(m) \in Nat
  BY <1>3, <1>8, FS_CardinalityType
<1>12. Cardinality(A \cup T) = Cardinality(A) + Cardinality(T) - Cardinality(A \cap T)
  BY <1>4, <1>8, FS_Union
<1>13. Cardinality(A \cap T) = 0
  BY <1>9, FS_EmptySet
<1> QED
  BY <1>4, <1>10, <1>11, <1>12, <1>13 DEF A, m

LEMMA CardinalityIs ==
  ASSUME NEW e \in Bitmap, RepOK(e)
  PROVE  ebitmap_cardinality(e) = Cardinality(Bits(e))
<1> DEFINE n == e.node
           N == Len(n)
           turn == [w \in Nat \X Nat |-> <<w[1] + 1, w[2] + Cardinality(n[w[1]].map)>>]
           V == [k \in 0 .. N |-> {<<k + 1, Cardinality(UpTo(n, k))>>}]
           l == Loop(N, <<1, 0>>, turn)
<1>1. ListOK(n) /\ N \in Nat /\ DOMAIN n = 1 .. N
  BY BitmapIs DEF ListOK
<1>2. <<1, 0>> \in V[0]
  <2>1. UpTo(n, 0) = {}
    BY DEF UpTo
  <2>2. Cardinality(UpTo(n, 0)) = 0
    BY <2>1, FS_EmptySet
  <2> QED
    BY <1>1, <2>2
<1>3. ASSUME NEW k \in 1 .. N, NEW w \in V[k - 1] PROVE turn[w] \in V[k]
  <2>1. k - 1 \in 0 .. N /\ k \in 0 .. N /\ k \in Nat
    BY <1>1
  <2>2. w = <<k, Cardinality(UpTo(n, k - 1))>>
    BY <2>1
  <2>3. /\ Cardinality(UpTo(n, k - 1)) \in Nat
        /\ Cardinality(UpTo(n, k)) = Cardinality(UpTo(n, k - 1)) + Cardinality(n[k].map)
    BY <1>1, CountNode
  <2>4. w \in Nat \X Nat /\ w[1] = k /\ w[2] = Cardinality(UpTo(n, k - 1))
    BY <2>1, <2>2, <2>3
  <2>5. turn[w] = <<k + 1, Cardinality(UpTo(n, k))>>
    BY <2>3, <2>4
  <2> QED
    BY <2>1, <2>5
<1>4. l \in V[N]
  <2> HIDE DEF V, N, turn
  <2> QED
    BY <1>1, <1>2, <1>3, LoopInvariant
<1> HIDE DEF l
<1>5. l = <<N + 1, Cardinality(UpTo(n, N))>>
  BY <1>1, <1>4
<1>6. UpTo(n, N) = Bits(e)
  BY <1>1 DEF UpTo, Bits
<1>7. ebitmap_cardinality(e) = l[2]
  BY DEF ebitmap_cardinality, l
<1> QED
  BY <1>5, <1>6, <1>7

LEMMA DistanceIs ==
  ASSUME NEW e \in Bitmap, NEW f \in Bitmap, RepOK(e), RepOK(f)
  PROVE  ebitmap_hamming_distance(e, f) = Cardinality(SymDiff(Bits(e), Bits(f)))
<1>1. CASE ebitmap_cmp(e, f)
  <2>1. Bits(e) = Bits(f)
    BY <1>1, CmpIs
  <2>2. SymDiff(Bits(e), Bits(f)) = {}
    BY <2>1 DEF SymDiff
  <2> QED
    BY <1>1, <2>2, FS_EmptySet DEF ebitmap_hamming_distance
<1>2. CASE ~ebitmap_cmp(e, f)
  BY <1>2, XorOK, CardinalityIs DEF ebitmap_hamming_distance
<1> QED
  BY <1>1, <1>2

(* ebitmap_for_each_positive_bit: the cursor is in its node, or just past  *)
(* the last one, and has visited the bits below it.                        *)
Sorted(q) == \A x \in 1 .. Len(q) - 1 : q[x] < q[x + 1]

VisitInv(n, B, w) ==
    /\ w \in Visit /\ w.i \in 1 .. Len(n)
    /\ n[w.i].startbit <= w.bit /\ w.bit <= n[w.i].startbit + MapSize
    /\ w.bit = n[w.i].startbit + MapSize => w.i = Len(n)
    /\ Sorted(w.out)
    /\ \A b : (\E x \in 1 .. Len(w.out) : w.out[x] = b) <=> b \in B /\ b < w.bit

\* Where the bits are, seen from the nodes.
LEMMA BitsInNodes ==
  ASSUME NEW e, ListOK(e.node), NEW n, n = e.node
  PROVE  /\ \A b \in Bits(e) : /\ b \in Nat
                               /\ \E x \in 1 .. Len(n) : n[x].startbit <= b /\ b < n[x].startbit + MapSize
         /\ \A x \in 1 .. Len(n) : \A b \in Nat :
               n[x].startbit <= b /\ b < n[x].startbit + MapSize =>
                  (b \in Bits(e) <=> b - n[x].startbit \in n[x].map)
<1>0. ListOK(n) /\ MapSize \in Nat \ {0}
  BY EbitmapAssumption
<1>1. /\ Bits(e) \subseteq Uint
      /\ \A s \in Starts, o \in Offset : s + o \in Bits(e) <=> On(n, Len(n), s, o)
  BY BitsOn
<1>2. ASSUME NEW b \in Bits(e)
      PROVE  b \in Nat /\ \E x \in 1 .. Len(n) : n[x].startbit <= b /\ b < n[x].startbit + MapSize
  <2>1. b \in Nat
    BY <1>1, EbitmapAssumption DEF Uint
  <2>2. StartOf(b) \in Starts /\ b - StartOf(b) \in Offset /\ b = StartOf(b) + (b - StartOf(b))
    BY <2>1, SplitBit
  <2>3. On(n, Len(n), StartOf(b), b - StartOf(b))
    BY <1>1, <2>2
  <2>4. PICK x \in 1 .. Len(n) : n[x].startbit = StartOf(b)
    BY <2>3 DEF On
  <2>5. n[x].startbit <= b /\ b < n[x].startbit + MapSize
    BY <1>0, <2>1, <2>2, <2>4 DEF Starts, Offset
  <2> QED
    BY <2>1, <2>5
<1>3. ASSUME NEW x \in 1 .. Len(n), NEW b \in Nat,
             n[x].startbit <= b, b < n[x].startbit + MapSize
      PROVE  b \in Bits(e) <=> b - n[x].startbit \in n[x].map
  <2> DEFINE s == n[x].startbit
             o == b - s
  <2>1. s \in Starts /\ s \in Nat
    BY <1>0, NodeFacts
  <2> HIDE DEF s
  <2>2. o \in Offset /\ s + o = b
    BY <1>0, <1>3, <2>1 DEF Offset, s
  <2>3. b \in Bits(e) <=> On(n, Len(n), s, o)
    BY <1>1, <2>1, <2>2
  <2>4. On(n, Len(n), s, o) <=> o \in n[x].map
    BY <1>0, OnAt DEF s
  <2> QED
    BY <2>3, <2>4 DEF s
<1> QED
  BY <1>2, <1>3

LEMMA VisitTurnOK ==
  ASSUME NEW e, ListOK(e.node), NEW n, n = e.node, NEW w, VisitInv(n, Bits(e), w), w.bit < High(n)
  PROVE  /\ VisitInv(n, Bits(e), VisitTurn(n, High(n), w))
         /\ VisitTurn(n, High(n), w).bit > w.bit
<1> DEFINE i == w.i
           bit == w.bit
           out == w.out
           s == n[i].startbit
           B == Bits(e)
           more == bit = s + MapSize - 1 /\ More(n, i + 1)
           new == out \o (IF bit - s \in n[i].map THEN <<bit>> ELSE <<>>)
           v == VisitTurn(n, High(n), w)
<1>1. /\ v = [i   |-> IF more THEN i + 1 ELSE i,
              bit |-> IF more THEN n[i + 1].startbit ELSE bit + 1,
              out |-> new]
      /\ v.i = IF more THEN i + 1 ELSE i
      /\ v.bit = IF more THEN n[i + 1].startbit ELSE bit + 1
      /\ v.out = new
  BY DEF VisitTurn
<1>2. /\ ListOK(n) /\ n \in Seq(Nodes) /\ Len(n) \in Nat /\ MapSize \in Nat \ {0}
      /\ i \in 1 .. Len(n) /\ bit \in Nat /\ out \in Seq(Nat) /\ Len(out) \in Nat
      /\ s <= bit /\ bit <= s + MapSize /\ (bit = s + MapSize => i = Len(n))
      /\ Sorted(out)
      /\ \A b : (\E x \in 1 .. Len(out) : out[x] = b) <=> b \in B /\ b < bit
  <2>1. ListOK(n) /\ n \in Seq(Nodes) /\ Len(n) \in Nat /\ MapSize \in Nat \ {0}
    <3>1. ListOK(n) /\ n \in Seq(Nodes)
      BY DEF ListOK
    <3> HIDE DEF i, bit, out, s, B, new, v
    <3> QED
      BY <3>1, EbitmapAssumption, SMTT(30)
  <2>2. bit \in Nat /\ out \in Seq(Nat) /\ Len(out) \in Nat
    BY DEF VisitInv, Visit
  <2>3. /\ i \in 1 .. Len(n) /\ s <= bit /\ bit <= s + MapSize /\ (bit = s + MapSize => i = Len(n))
        /\ Sorted(out)
        /\ \A b : (\E x \in 1 .. Len(out) : out[x] = b) <=> b \in B /\ b < bit
    BY Zenon DEF VisitInv
  <2> QED
    BY <2>1, <2>2, <2>3, Zenon
<1>3. /\ \A b \in B : /\ b \in Nat
                      /\ \E x \in 1 .. Len(n) : n[x].startbit <= b /\ b < n[x].startbit + MapSize
      /\ \A x \in 1 .. Len(n) : \A b \in Nat :
            n[x].startbit <= b /\ b < n[x].startbit + MapSize =>
               (b \in B <=> b - n[x].startbit \in n[x].map)
  BY BitsInNodes
<1>4. bit < High(n) /\ s \in Nat /\ s \in Starts
  BY <1>2, NodeFacts
<1> HIDE DEF i, bit, out, s, B, new, v
<1>5. bit < s + MapSize
  <2> SUFFICES ASSUME bit = s + MapSize PROVE FALSE
    BY <1>2, <1>4
  <2>1. i = Len(n) /\ n # <<>>
    BY <1>2
  <2>2. High(n) = s + MapSize
    BY <2>1 DEF High, Last, s
  <2> QED
    BY <1>2, <1>4, <2>2
<1>6. bit \in B <=> bit - s \in n[i].map
  BY <1>2, <1>3, <1>5 DEF s
<1>7. /\ new \in Seq(Nat) /\ Sorted(new)
      /\ \A b : (\E x \in 1 .. Len(new) : new[x] = b) <=> b \in B /\ b < bit + 1
  <2>1. CASE bit \notin B
    <3>1. new = out
      BY <1>2, <1>6, <2>1 DEF new
    <3>2. \A b \in B : b < bit <=> b < bit + 1
      BY <1>2, <1>3, <2>1
    <3> QED
      BY <1>2, <3>1, <3>2
  <2>2. CASE bit \in B
    <3>1. new = out \o <<bit>>
      BY <1>6, <2>2 DEF new
    <3>2. /\ new \in Seq(Nat) /\ Len(new) = Len(out) + 1 /\ new[Len(out) + 1] = bit
          /\ \A x \in 1 .. Len(out) : new[x] = out[x]
      BY <1>2, <3>1
    <3>3. \A x : x \in 1 .. Len(new) <=> x \in 1 .. Len(out) \/ x = Len(out) + 1
      BY <1>2, <3>2
    <3>4. ASSUME NEW x \in 1 .. Len(new) - 1 PROVE new[x] < new[x + 1]
      <4>1. x \in 1 .. Len(out)
        BY <1>2, <3>2
      <4>2. CASE x = Len(out)
        <5>1. out[x] < bit
          BY <1>2, <4>1
        <5> QED
          BY <3>2, <4>1, <4>2, <5>1
      <4>3. CASE x # Len(out)
        <5>1. x \in 1 .. Len(out) - 1 /\ x + 1 \in 1 .. Len(out)
          BY <1>2, <4>1, <4>3
        <5>2. out[x] < out[x + 1]
          BY <1>2, <5>1 DEF Sorted
        <5> QED
          BY <3>2, <4>1, <5>1, <5>2
      <4> QED
        BY <4>2, <4>3
    <3>5. \A b : (\E x \in 1 .. Len(new) : new[x] = b) <=> (b \in B /\ b < bit) \/ b = bit
      BY <1>2, <3>2, <3>3
    <3>6. \A b \in B : b < bit + 1 <=> b < bit \/ b = bit
      BY <1>2, <1>3
    <3>7. bit < bit + 1
      BY <1>2
    <3>8. \A b : (\E x \in 1 .. Len(new) : new[x] = b) <=> b \in B /\ b < bit + 1
      BY <2>2, <3>5, <3>6, <3>7
    <3> QED
      BY <3>2, <3>4, <3>8 DEF Sorted
  <2> QED
    BY <2>1, <2>2
<1>8. CASE more
  <2>1. i + 1 \in 1 .. Len(n) /\ bit + 1 = s + MapSize
    BY <1>2, <1>4, <1>8 DEF More
  <2> DEFINE t == n[i + 1].startbit
  <2>2. t \in Nat /\ t \in Starts /\ s < t
    <3>1. i < i + 1
      BY <1>2
    <3> QED
      BY <1>2, <2>1, <3>1, NodeFacts, Increasing DEF s
  <2>3. s + MapSize <= t
    BY <1>4, <2>2, StartsApart
  <2>4. \A b \in B : b < t <=> b < bit + 1
    <3> SUFFICES ASSUME NEW b \in B, b < t PROVE b < s + MapSize
      BY <1>2, <1>3, <1>4, <2>1, <2>2, <2>3, SMTT(30)
    <3>1. PICK x \in 1 .. Len(n) : n[x].startbit <= b /\ b < n[x].startbit + MapSize
      BY <1>3
    <3>2. n[x].startbit \in Nat /\ n[x].startbit \in Starts /\ b \in Nat
      BY <1>2, <1>3, NodeFacts
    <3>3. ~(i + 1 < x) /\ x # i + 1
      <4>1. i + 1 < x => t < n[x].startbit
        BY <1>2, <2>1, Increasing
      <4> QED
        BY <2>2, <3>1, <3>2, <4>1
    <3>4. x < i \/ x = i
      BY <1>2, <3>3
    <3>5. x < i => n[x].startbit < s
      BY <1>2, Increasing DEF s
    <3>6. n[x].startbit <= s
      BY <1>4, <3>2, <3>4, <3>5 DEF s
    <3> HIDE DEF t
    <3> QED
      BY <1>2, <1>4, <3>1, <3>2, <3>6, SMTT(30)
  <2>5. \A b : (\E x \in 1 .. Len(new) : new[x] = b) <=> b \in B /\ b < t
    <3> HIDE DEF t
    <3> QED
      BY <1>7, <2>4
  <2>6. v.i = i + 1 /\ v.bit = t /\ v.out = new /\ v = [i |-> i + 1, bit |-> t, out |-> new]
    BY <1>1, <1>8
  <2>7. n[v.i].startbit = t
    BY <2>6
  <2> HIDE DEF t
  <2>8. v \in Visit /\ v.i \in 1 .. Len(n)
    BY <1>7, <2>1, <2>2, <2>6 DEF Visit
  <2>9. t <= v.bit /\ v.bit <= t + MapSize /\ v.bit # t + MapSize
    BY <1>2, <2>2, <2>6
  <2>10. VisitInv(n, B, v)
    BY <1>7, <2>5, <2>6, <2>7, <2>8, <2>9 DEF VisitInv
  <2>11. v.bit > bit
    BY <1>2, <1>4, <2>1, <2>2, <2>3, <2>6
  <2> QED
    BY <2>10, <2>11 DEF B, v, bit
<1>9. CASE ~more
  <2>1. v.i = i /\ v.bit = bit + 1 /\ v.out = new /\ v = [i |-> i, bit |-> bit + 1, out |-> new]
    BY <1>1, <1>9
  <2>2. v \in Visit /\ v.i \in 1 .. Len(n) /\ n[v.i].startbit = s
    BY <1>2, <1>7, <2>1 DEF Visit, s
  <2>3. s <= v.bit /\ v.bit <= s + MapSize /\ v.bit > bit
    BY <1>2, <1>4, <1>5, <2>1
  <2>4. v.bit = s + MapSize => v.i = Len(n)
    <3> SUFFICES ASSUME v.bit = s + MapSize PROVE v.i = Len(n)
      OBVIOUS
    <3>1. ~More(n, i + 1)
      BY <1>2, <1>4, <1>9, <2>1
    <3> QED
      BY <1>2, <2>1, <3>1 DEF More
  <2>5. VisitInv(n, B, v)
    BY <1>7, <2>1, <2>2, <2>3, <2>4 DEF VisitInv
  <2> QED
    BY <2>3, <2>5 DEF B, v, bit
<1> QED
  BY <1>8, <1>9

LEMMA VisitIs ==
  ASSUME NEW e \in Bitmap, RepOK(e), NEW q, q = ebitmap_for_each_positive_bit(e)
  PROVE  ToSet(q) = Bits(e) /\ Sorted(q)
<1> DEFINE n == e.node
           B == Bits(e)
<1>1. ListOK(n) /\ e.highbit = High(n) /\ n \in Seq(Nodes) /\ Len(n) \in Nat
  BY BitmapIs DEF ListOK
<1>2. ebitmap_length(e) = High(n)
  BY <1>1 DEF ebitmap_length, High
<1> DEFINE start == [i |-> 1, bit |-> ebitmap_start(e), out |-> <<>>]
           turn == [w \in Visit |-> VisitTurn(n, High(n), w)]
           l == Loop(High(n), start, turn)
<1>3. q = l.out
  BY <1>2 DEF ebitmap_for_each_positive_bit
<1>4. SUFFICES ASSUME l.out \in Seq(Nat), Sorted(l.out),
                      \A b : (\E x \in 1 .. Len(l.out) : l.out[x] = b) <=> b \in B
               PROVE  ToSet(l.out) = B /\ Sorted(l.out)
  <2>1. CASE n = <<>>
    <3>1. High(n) = 0 /\ ebitmap_start(e) = 0
      BY <2>1 DEF High, ebitmap_start
    <3>2. start \in Visit /\ start.out = <<>>
      BY <3>1 DEF Visit
    <3>3. l = start
      <4> DEFINE V == [k \in 0 .. 0 |-> {start}]
      <4>1. start \in V[0] /\ \A k \in 1 .. 0 : \A w \in V[k - 1] : turn[w] \in V[k]
        OBVIOUS
      <4> HIDE DEF V, start, turn
      <4>2. l \in V[0]
        BY <3>1, <4>1, LoopInvariant
      <4> QED
        BY <4>2 DEF V
    <3>4. B = {}
      BY <2>1 DEF Bits
    <3>5. l.out \in Seq(Nat) /\ Sorted(l.out) /\ Len(l.out) = 0
      <4>1. Sorted(<<>>) /\ <<>> \in Seq(Nat) /\ Len(<<>>) = 0
        BY DEF Sorted
      <4> HIDE DEF l, start
      <4> QED
        BY <3>2, <3>3, <4>1
    <3> HIDE DEF l, B, n
    <3>6. \A b : (\E x \in 1 .. Len(l.out) : l.out[x] = b) <=> b \in B
      BY <3>4, <3>5
    <3> QED
      BY <1>3, <1>4, <3>5, <3>6 DEF B
  <2>2. CASE n # <<>>
    <3> DEFINE X == {w \in Visit : VisitInv(n, B, w)}
               over == {w \in Visit : ~(w.bit < High(n))}
               far == [w \in X |-> w.bit]
    <3>1. 1 \in 1 .. Len(n) /\ ebitmap_start(e) = n[1].startbit
      BY <1>1, <2>2 DEF ebitmap_start
    <3>2. n[1].startbit \in Nat /\ MapSize \in Nat \ {0} /\ High(n) \in Nat
      BY <1>1, <3>1, NodeFacts, HighIs, EbitmapAssumption
    <3>3. \A b \in B : b \in Nat /\ \E x \in 1 .. Len(n) : n[x].startbit <= b /\ b < n[x].startbit + MapSize
      BY <1>1, BitsInNodes
    <3>4. \A x \in 1 .. Len(n) : /\ n[x].startbit \in Nat /\ n[1].startbit <= n[x].startbit
                                 /\ n[x].startbit + MapSize <= High(n)
      <4> SUFFICES ASSUME NEW x \in 1 .. Len(n)
                   PROVE  /\ n[x].startbit \in Nat /\ n[1].startbit <= n[x].startbit
                          /\ n[x].startbit + MapSize <= High(n)
        OBVIOUS
      <4>1. 1 < x => n[1].startbit < n[x].startbit
        BY <1>1, <3>1, Increasing
      <4>2. x = 1 \/ 1 < x
        BY <1>1
      <4>3. n[x].startbit \in Nat /\ n[x].startbit + MapSize <= High(n)
        BY <1>1, NodeFacts, HighIs
      <4> QED
        BY <3>2, <4>1, <4>2, <4>3
    <3>5. \A b \in B : b \in Nat /\ n[1].startbit <= b /\ b < High(n)
      <4> SUFFICES ASSUME NEW b \in B PROVE b \in Nat /\ n[1].startbit <= b /\ b < High(n)
        OBVIOUS
      <4>1. PICK x \in 1 .. Len(n) : n[x].startbit <= b /\ b < n[x].startbit + MapSize
        BY <3>3
      <4>2. b \in Nat
        BY <3>3
      <4> HIDE DEF B, n
      <4> QED
        BY <3>2, <3>4, <4>1, <4>2
    <3>6. start \in X
      <4>1. start.i = 1 /\ start.bit = n[1].startbit /\ start.out = <<>> /\ start \in Visit
        BY <3>1, <3>2 DEF Visit
      <4>2. Sorted(<<>>) /\ Len(<<>>) = 0
        BY DEF Sorted
      <4> HIDE DEF start, B, n
      <4>3. \A b : (\E x \in 1 .. 0 : <<>>[x] = b) <=> b \in B /\ b < n[1].startbit
        BY <3>2, <3>5
      <4>4. n[1].startbit <= start.bit /\ start.bit <= n[1].startbit + MapSize /\ start.bit # n[1].startbit + MapSize
        BY <3>2, <4>1
      <4>5. VisitInv(n, B, start)
        BY <3>1, <4>1, <4>2, <4>3, <4>4 DEF VisitInv
      <4> QED
        BY <4>1, <4>5
    <3>7. \A w \in X : w \in Visit /\ VisitInv(n, B, w) /\ w.bit \in Nat
      BY DEF Visit
    <3>8. far \in [X -> Nat]
      BY <3>7
    <3>9. ASSUME NEW w \in X, w \in over PROVE turn[w] = w
      <4>1. turn[w] = VisitTurn(n, High(n), w) /\ ~(w.bit < High(n))
        BY <3>7, <3>9
      <4> QED
        BY <4>1 DEF VisitTurn
    <3>10. ASSUME NEW w \in X, w \notin over PROVE turn[w] \in X /\ far[turn[w]] > far[w]
      <4>1. turn[w] = VisitTurn(n, High(n), w) /\ w.bit < High(n) /\ VisitInv(n, B, w)
        BY <3>7, <3>10
      <4>2. VisitInv(n, B, turn[w]) /\ turn[w].bit > w.bit
        <5> HIDE DEF turn, X, over
        <5> QED
          BY <1>1, <4>1, VisitTurnOK
      <4>3. turn[w] \in X
        BY <4>2 DEF VisitInv
      <4> QED
        BY <4>2, <4>3
    <3>11. ASSUME NEW w \in X, far[w] >= High(n) PROVE w \in over
      BY <3>2, <3>7, <3>11
    <3>12. l \in X /\ l \in over
      <4> HIDE DEF X, over, far, turn, start, n, B
      <4>1. Advances(High(n), X, turn, over, far)
        BY <3>8, <3>9, <3>10, <3>11 DEF Advances
      <4> QED
        BY <3>2, <3>6, <4>1, LoopEnds
    <3> HIDE DEF l, B, n
    <3>13. VisitInv(n, B, l) /\ ~(l.bit < High(n)) /\ l.bit \in Nat /\ l.out \in Seq(Nat)
      BY <3>7, <3>12 DEF Visit
    <3>14. \A b \in B : b < l.bit
      BY <3>2, <3>5, <3>13
    <3>15. Sorted(l.out) /\ \A b : (\E x \in 1 .. Len(l.out) : l.out[x] = b) <=> b \in B /\ b < l.bit
      BY <3>13 DEF VisitInv
    <3>16. \A b : (\E x \in 1 .. Len(l.out) : l.out[x] = b) <=> b \in B
      BY <3>14, <3>15
    <3> QED
      BY <1>3, <1>4, <3>13, <3>15, <3>16 DEF B
  <2> QED
    BY <2>1, <2>2
<1> HIDE DEF l, B
<1>5. DOMAIN l.out = 1 .. Len(l.out)
  BY <1>4
<1> QED
  BY <1>4, <1>5 DEF ToSet

-----------------------------------------------------------------------------
\* What the queries answer about sound bitmaps.
LEMMA QueriesOK == RepInvariant => QueriesAgree
<1> SUFFICES ASSUME RepInvariant, NEW r \in Reg, NEW q \in Reg
             PROVE  LET e == bm[r]  f == bm[q]  visited == ebitmap_for_each_positive_bit(e) IN
                    /\ ToSet(visited) = Bits(e)
                    /\ \A i \in 1 .. Len(visited) - 1 : visited[i] < visited[i + 1]
                    /\ \A bit \in Uint : ebitmap_get_bit(e, bit) <=> bit \in Bits(e)
                    /\ ebitmap_cmp(e, f) <=> Bits(e) = Bits(f)
                    /\ ebitmap_contains(e, f) <=> Bits(f) \subseteq Bits(e)
                    /\ ebitmap_match_any(e, f) <=> Bits(e) \cap Bits(f) # {}
                    /\ ebitmap_cardinality(e) = Cardinality(Bits(e))
                    /\ ebitmap_hamming_distance(e, f) = Cardinality(SymDiff(Bits(e), Bits(f)))
                    /\ Bits(e) # {} => ebitmap_highest_set_bit(e) = Max(Bits(e))
  BY Zenon DEF QueriesAgree
<1>1. PICK e : e = bm[r]
  OBVIOUS
<1>2. PICK f : f = bm[q]
  OBVIOUS
<1>3. e \in Bitmap /\ RepOK(e) /\ f \in Bitmap /\ RepOK(f)
  BY <1>1, <1>2 DEF RepInvariant
<1>4. PICK visited : visited = ebitmap_for_each_positive_bit(e)
  OBVIOUS
<1>5. ToSet(visited) = Bits(e) /\ \A i \in 1 .. Len(visited) - 1 : visited[i] < visited[i + 1]
  BY <1>3, <1>4, VisitIs DEF Sorted
<1>6. \A bit \in Uint : ebitmap_get_bit(e, bit) <=> bit \in Bits(e)
  BY <1>3, GetBitIs
<1>7. /\ ebitmap_cmp(e, f) <=> Bits(e) = Bits(f)
      /\ ebitmap_contains(e, f) <=> Bits(f) \subseteq Bits(e)
      /\ ebitmap_match_any(e, f) <=> Bits(e) \cap Bits(f) # {}
  BY <1>3, CmpIs, ContainsIs, MatchIs
<1>8. /\ ebitmap_cardinality(e) = Cardinality(Bits(e))
      /\ ebitmap_hamming_distance(e, f) = Cardinality(SymDiff(Bits(e), Bits(f)))
      /\ Bits(e) # {} => ebitmap_highest_set_bit(e) = Max(Bits(e))
  BY <1>3, CardinalityIs, DistanceIs, HighestIs
<1> QED
  BY <1>1, <1>2, <1>4, <1>5, <1>6, <1>7, <1>8, Zenon

(* The queries answer as the sets would: membership, equality, inclusion,  *)
(* a common member, size, distance and greatest member; and the iteration  *)
(* visits the bits of the set, each once, in increasing order (ebitmap.c,  *)
(* ebitmap.h).                                                             *)
THEOREM QueriesAnswer == Spec => []QueriesAgree
<1> QED
  BY RepresentationHolds, QueriesOK, PTL

=============================================================================
