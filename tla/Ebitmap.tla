------------------------------- MODULE Ebitmap -------------------------------
(***************************************************************************)
(* The extensible bitmap of libsepol (ebitmap.c, ebitmap_write of          *)
(* write.c): a linked list of nodes, each a start bit and a map of MapSize *)
(* bits, kept in increasing order of start bit, and the cached "highbit".  *)
(* The list is a sequence of records; a node's map is the set of bit       *)
(* offsets that are on.  Bit numbers are uint32_t: sums wrap at Limit.     *)
(*                                                                         *)
(* The state is a few caller-owned ebitmap_t variables and the name of the *)
(* function called last.  malloc may fail wherever the code checks it, so  *)
(* every constructor has its -ENOMEM outcome.                              *)
(***************************************************************************)
EXTENDS Naturals, Sequences, FiniteSets, SequencesExt

CONSTANTS Reg,        \* the ebitmap_t variables of the caller
          MapSize,    \* bits of a node's map (64 in the code)
          Limit       \* first value that does not fit the type (2^32 in the code)

ASSUME EbitmapAssumption ==
    /\ MapSize \in Nat \ {0}
    /\ Limit \in Nat
    /\ Limit > 2 * MapSize
    /\ Limit % MapSize = 0

VARIABLES bm,         \* bm[r]: the ebitmap_t r
          op          \* the call that just returned, or Idle

vars == <<bm, op>>

Idle == <<"idle">>

Uint == 0 .. Limit - 1
Offset == 0 .. MapSize - 1
U32(n) == n % Limit
StartOf(bit) == bit - (bit % MapSize)             \* bit & ~(MAPSIZE - 1)

Node(s, m) == [startbit |-> s, map |-> m]
EmptyBitmap == [node |-> <<>>, highbit |-> 0]     \* ebitmap_init

Nodes == [startbit : Uint, map : SUBSET Offset]
Bitmap == [node : Seq(Nodes), highbit : Uint]

(* The set of bits a bitmap stands for: the meaning of the list.           *)
Bits(e) == UNION {{e.node[i].startbit + o : o \in e.node[i].map} : i \in DOMAIN e.node}

-----------------------------------------------------------------------------
(* Constructors: the node lists the loops build.                           *)

(* What a loop leaves: turn applied n times to the variables it starts     *)
(* with.  A turn past the end of the loop changes nothing, so n is any     *)
(* bound on the number of turns.                                           *)
Loop(n, start, turn) ==
    LET after[k \in 0 .. n] == IF k = 0 THEN start ELSE turn[after[k - 1]]
    IN  after[n]

(* The pointers n1 and n2 of the loops over two lists are indices i and j, *)
(* past the end for NULL; out is what the loop has linked to prev.         *)
Merge == [i : Nat, j : Nat, out : Seq(Nodes)]
MergeStart == [i |-> 1, j |-> 1, out |-> <<>>]
More(nodes, i) == i <= Len(nodes)

(* A turn looks at the smaller of the two start bits: what each list holds *)
(* there (nothing, when its next node starts later) and the pointers after *)
(* the lists with a node there have been advanced.                         *)
Meet(n1, n2, w) ==
    LET at1 == More(n1, w.i) /\ (More(n2, w.j) => n1[w.i].startbit <= n2[w.j].startbit)
        at2 == More(n2, w.j) /\ (More(n1, w.i) => n2[w.j].startbit <= n1[w.i].startbit)
    IN  [startbit |-> IF at1 THEN n1[w.i].startbit ELSE n2[w.j].startbit,
         map1     |-> IF at1 THEN n1[w.i].map ELSE {},
         map2     |-> IF at2 THEN n2[w.j].map ELSE {},
         i        |-> IF at1 THEN w.i + 1 ELSE w.i,
         j        |-> IF at2 THEN w.j + 1 ELSE w.j]

Linked(t, out) == [i |-> t.i, j |-> t.j, out |-> out]

Kept(s, m) == IF m = {} THEN <<>> ELSE <<Node(s, m)>>

OrTurn(n1, n2, w) ==
    LET t == Meet(n1, n2, w)
    IN  IF More(n1, w.i) \/ More(n2, w.j)
        THEN Linked(t, w.out \o <<Node(t.startbit, t.map1 \cup t.map2)>>)
        ELSE w

OrNodes(n1, n2) ==
    Loop(Len(n1) + Len(n2), MergeStart, [w \in Merge |-> OrTurn(n1, n2, w)]).out

ebitmap_or(e1, e2) ==
    [node    |-> OrNodes(e1.node, e2.node),
     highbit |-> IF e1.highbit > e2.highbit THEN e1.highbit ELSE e2.highbit]

(* and, xor and not all end with: if (new) dst->highbit = new->startbit +  *)
(* MAPSIZE, with new the last node that was allocated.                     *)
Finished(nodes) ==
    [node    |-> nodes,
     highbit |-> IF nodes = <<>> THEN 0 ELSE U32(Last(nodes).startbit + MapSize)]

AndTurn(n1, n2, w) ==
    LET t == Meet(n1, n2, w)
    IN  IF More(n1, w.i) /\ More(n2, w.j)
        THEN Linked(t, w.out \o Kept(t.startbit, t.map1 \cap t.map2))
        ELSE w

AndNodes(n1, n2) ==
    Loop(Len(n1) + Len(n2), MergeStart, [w \in Merge |-> AndTurn(n1, n2, w)]).out

ebitmap_and(e1, e2) == Finished(AndNodes(e1.node, e2.node))

XorTurn(n1, n2, w) ==
    LET t == Meet(n1, n2, w)
    IN  IF More(n1, w.i) \/ More(n2, w.j)
        THEN Linked(t, w.out \o Kept(t.startbit, SymDiff(t.map1, t.map2)))
        ELSE w

XorNodes(n1, n2) ==
    Loop(Len(n1) + Len(n2), MergeStart, [w \in Merge |-> XorTurn(n1, n2, w)]).out

ebitmap_xor(e1, e2) == Finished(XorNodes(e1.node, e2.node))

(* The loop of ebitmap_not walks every start bit below maxbit and steps    *)
(* the list when a node has that start bit; the last map is cut at maxbit. *)
NotTurn(n, maxbit, w) ==
    LET hit == More(n, w.i) /\ n[w.i].startbit = w.cur
        map == Offset \ (IF hit THEN n[w.i].map ELSE {})
    IN  IF w.cur < maxbit
        THEN [i   |-> IF hit THEN w.i + 1 ELSE w.i,
              cur |-> w.cur + MapSize,
              out |-> w.out \o Kept(w.cur, {o \in map : w.cur + o < maxbit})]
        ELSE w

Sweep == [i : Nat, cur : Nat, out : Seq(Nodes)]

NotNodes(n, maxbit) ==
    Loop(maxbit, [i |-> 1, cur |-> 0, out |-> <<>>], [w \in Sweep |-> NotTurn(n, maxbit, w)]).out

ebitmap_not(e, maxbit) == Finished(NotNodes(e.node, maxbit))

(* Mutant: the operands of the difference exchanged.                       *)
ebitmap_andnot_Swapped(e1, e2, maxbit) == ebitmap_and(e2, ebitmap_not(e1, maxbit))

ebitmap_andnot(e1, e2, maxbit) == ebitmap_and(e1, ebitmap_not(e2, maxbit))

(* minbit <= maxbit, neither in the last node.                             *)
ebitmap_init_range(minbit, maxbit) ==
    LET first == StartOf(minbit)
        count == ((StartOf(maxbit) - first) \div MapSize) + 1
    IN  [node    |-> [i \in 1 .. count |->
                        LET s == first + (i - 1) * MapSize
                        IN  Node(s, {o \in Offset : minbit <= s + o /\ s + o <= maxbit})],
         highbit |-> U32(StartOf(maxbit) + MapSize)]

RangeOverflows(minbit, maxbit) ==
    U32(StartOf(minbit) + MapSize) = 0 \/ U32(StartOf(maxbit) + MapSize) = 0

-----------------------------------------------------------------------------
(* ebitmap_set_bit and ebitmap_get_bit: one walk along the list, which     *)
(* stops at the first node that ends after the bit (startbit + MAPSIZE is  *)
(* computed in 64 bits there and does not wrap).                           *)

StopAt(nodes, bit) ==
    CHOOSE i \in 1 .. Len(nodes) + 1 :
        /\ \/ i = Len(nodes) + 1
           \/ nodes[i].startbit > bit
           \/ nodes[i].startbit + MapSize > bit
        /\ \A j \in 1 .. i - 1 : nodes[j].startbit + MapSize <= bit /\ nodes[j].startbit <= bit

Hits(nodes, i, bit) == i <= Len(nodes) /\ nodes[i].startbit <= bit

(* Mutant: highbit kept when the last node goes.                           *)
WithoutNode_StaleHighbit(e, i) == [node |-> RemoveAt(e.node, i), highbit |-> e.highbit]

(* Clearing the last bit of a node unlinks it, and highbit follows when    *)
(* the node was the last one.                                              *)
WithoutNode(e, i) ==
    [node    |-> RemoveAt(e.node, i),
     highbit |-> IF i < Len(e.node) THEN e.highbit
                 ELSE IF i > 1 THEN U32(e.node[i - 1].startbit + MapSize) ELSE 0]

WithNode(e, i, bit) ==
    [node    |-> InsertAt(e.node, i, Node(StartOf(bit), {bit - StartOf(bit)})),
     highbit |-> IF i > Len(e.node) THEN U32(StartOf(bit) + MapSize) ELSE e.highbit]

ebitmap_set_bit(e, bit, value) ==
    LET i   == StopAt(e.node, bit)
        off == bit - e.node[i].startbit
        map == IF value THEN e.node[i].map \cup {off} ELSE e.node[i].map \ {off}
    IN  IF Hits(e.node, i, bit)
        THEN IF map = {} THEN WithoutNode(e, i) ELSE [e EXCEPT !.node[i].map = map]
        ELSE IF value THEN WithNode(e, i, bit) ELSE e

SetBitOverflows(bit) == U32(StartOf(bit) + MapSize) = 0

(* Mutant: the early return taken one bit too soon.                        *)
ebitmap_get_bit_ShortHighbit(e, bit) ==
    LET i == StopAt(e.node, bit)
    IN  /\ e.highbit > bit + 1
        /\ Hits(e.node, i, bit)
        /\ bit - e.node[i].startbit \in e.node[i].map

ebitmap_get_bit(e, bit) ==
    LET i == StopAt(e.node, bit)
    IN  /\ e.highbit >= bit
        /\ Hits(e.node, i, bit)
        /\ bit - e.node[i].startbit \in e.node[i].map

-----------------------------------------------------------------------------
(* Queries on two bitmaps.                                                 *)

ebitmap_cmp(e1, e2) == e1.highbit = e2.highbit /\ e1.node = e2.node

Cursors == [i : Nat, j : Nat]

(* The loop goes on while the first list has a node that starts no later   *)
(* than the next node of the second, and holds it if they start together.  *)
ContainsTurn(n1, n2, w) ==
    LET a == n1[w.i]
        b == n2[w.j]
    IN  IF /\ More(n1, w.i) /\ More(n2, w.j)
           /\ a.startbit < b.startbit \/ (a.startbit = b.startbit /\ b.map \subseteq a.map)
        THEN [i |-> w.i + 1, j |-> IF a.startbit = b.startbit THEN w.j + 1 ELSE w.j]
        ELSE w

ContainsNodes(n1, n2) ==
    ~More(n2, Loop(Len(n1), [i |-> 1, j |-> 1], [w \in Cursors |-> ContainsTurn(n1, n2, w)]).j)

ebitmap_contains(e1, e2) == e1.highbit >= e2.highbit /\ ContainsNodes(e1.node, e2.node)

(* The loop stops where both lists have a node with a bit in common.       *)
MatchTurn(n1, n2, w) ==
    LET t == Meet(n1, n2, w)
    IN  IF More(n1, w.i) /\ More(n2, w.j) /\ t.map1 \cap t.map2 = {}
        THEN [i |-> t.i, j |-> t.j]
        ELSE w

MatchNodes(n1, n2) ==
    LET last == Loop(Len(n1) + Len(n2), [i |-> 1, j |-> 1], [w \in Cursors |-> MatchTurn(n1, n2, w)])
    IN  More(n1, last.i) /\ More(n2, last.j)

ebitmap_match_any(e1, e2) == MatchNodes(e1.node, e2.node)

ebitmap_cardinality(e) ==
    LET turn == [w \in Nat \X Nat |-> <<w[1] + 1, w[2] + Cardinality(e.node[w[1]].map)>>]
    IN  Loop(Len(e.node), <<1, 0>>, turn)[2]

ebitmap_hamming_distance(e1, e2) ==
    IF ebitmap_cmp(e1, e2) THEN 0 ELSE ebitmap_cardinality(ebitmap_xor(e1, e2))

ebitmap_highest_set_bit(e) ==
    IF e.node = <<>> THEN 0 ELSE Last(e.node).startbit + Max(Last(e.node).map)

(* ebitmap_for_each_positive_bit: the bits in the order the macro visits   *)
(* them.  The cursor is the rest of the list and the current bit.          *)
ebitmap_length(e) == IF e.node = <<>> THEN 0 ELSE e.highbit

Visit == [i : Nat, bit : Nat, out : Seq(Nat)]

VisitTurn(n, length, w) ==
    LET here == n[w.i]
        next == w.bit = here.startbit + MapSize - 1 /\ More(n, w.i + 1)
    IN  IF w.bit < length
        THEN [i   |-> IF next THEN w.i + 1 ELSE w.i,
              bit |-> IF next THEN n[w.i + 1].startbit ELSE w.bit + 1,
              out |-> w.out \o (IF w.bit - here.startbit \in here.map THEN <<w.bit>> ELSE <<>>)]
        ELSE w

ebitmap_start(e) == IF e.node = <<>> THEN 0 ELSE Head(e.node).startbit

ebitmap_for_each_positive_bit(e) ==
    LET length == ebitmap_length(e)
    IN  Loop(length, [i |-> 1, bit |-> ebitmap_start(e), out |-> <<>>],
             [w \in Visit |-> VisitTurn(e.node, length, w)]).out

-----------------------------------------------------------------------------
(* The image of a bitmap in a policy file, and reading one back.  A file   *)
(* may hold anything: ebitmap_read checks the image node by node.          *)

ebitmap_write(e) ==
    [mapsize |-> MapSize, highbit |-> e.highbit, count |-> Len(e.node), node |-> e.node]

(* Mutant: the order of the start bits not checked.                        *)
NodeImageOK_AnyOrder(img, i) ==
    LET n == img.node[i]
    IN  /\ i <= Len(img.node)
        /\ n.startbit % MapSize = 0
        /\ n.startbit <= img.highbit - MapSize
        /\ n.map # {}

NodeImageOK(img, i) ==
    LET n == img.node[i]
    IN  /\ i <= Len(img.node)                              \* not truncated
        /\ n.startbit % MapSize = 0
        /\ n.startbit <= img.highbit - MapSize
        /\ n.map # {}
        /\ i > 1 => n.startbit > img.node[i - 1].startbit

ImageOK(img) ==
    /\ img.mapsize = MapSize
    /\ \/ img.highbit = 0
       \/ /\ img.highbit % MapSize = 0
          /\ img.count > 0
          /\ \A i \in 1 .. img.count : NodeImageOK(img, i)
          /\ img.node[img.count].startbit + MapSize = img.highbit

ebitmap_read(img) ==
    IF ~ImageOK(img) \/ img.highbit = 0 THEN EmptyBitmap
    ELSE [node |-> SubSeq(img.node, 1, img.count), highbit |-> img.highbit]

-----------------------------------------------------------------------------
(* The calls.  Every constructor first empties its destination, so a       *)
(* malloc that fails leaves it empty (the code destroys what it built).    *)
(* A destination that is also an operand stands for the callers' idiom:    *)
(* build into a temporary, destroy the operand, move the temporary there   *)
(* (ebitmap_union is that idiom for ebitmap_or).                           *)

Init == bm = [r \in Reg |-> EmptyBitmap] /\ op = Idle

Call(call, d, e) ==
    /\ op = Idle
    /\ op' = call
    /\ bm' = [bm EXCEPT ![d] = e]

(* The caller has looked at the result. *)
Done == op # Idle /\ op' = Idle /\ UNCHANGED bm

SetBit(d, bit, value) ==
    /\ ~SetBitOverflows(bit)
    /\ Call(<<IF value THEN "set" ELSE "clear", d, bit>>, d, ebitmap_set_bit(bm[d], bit, value))

(* -EINVAL for a bit in the last node of the range, -ENOMEM otherwise.     *)
SetBitFails(d, bit) ==
    /\ SetBitOverflows(bit) \/ ~Hits(bm[d].node, StopAt(bm[d].node, bit), bit)
    /\ Call(<<"failed", d>>, d, bm[d])

Or(d, a, b)  == Call(<<"or", d, a, b>>, d, ebitmap_or(bm[a], bm[b]))
And(d, a, b) == Call(<<"and", d, a, b>>, d, ebitmap_and(bm[a], bm[b]))
Xor(d, a, b) == Call(<<"xor", d, a, b>>, d, ebitmap_xor(bm[a], bm[b]))

ebitmap_union(d, a) == Or(d, d, a)

(* maxbit is a symbol count.  Above Limit - MapSize the loop counter of    *)
(* ebitmap_not would wrap to 0 and the loop would not end.                 *)
Not(d, a, maxbit) == Call(<<"not", d, a, maxbit>>, d, ebitmap_not(bm[a], maxbit))

AndNot(d, a, b, maxbit) == Call(<<"andnot", d, a, b, maxbit>>, d, ebitmap_andnot(bm[a], bm[b], maxbit))

InitRange(d, minbit, maxbit) ==
    /\ minbit <= maxbit
    /\ ~RangeOverflows(minbit, maxbit)
    /\ Call(<<"range", d, minbit, maxbit>>, d, ebitmap_init_range(minbit, maxbit))

(* ebitmap_init_range itself leaves what it built when malloc fails; its    *)
(* three callers destroy the bitmap (cil_post.c:1222, 1252, 1324).         *)
InitRangeFails(d, minbit, maxbit) ==
    /\ minbit > maxbit \/ RangeOverflows(minbit, maxbit)
    /\ Call(<<"failed", d>>, d, EmptyBitmap)

ConstructorFails(d) == Call(<<"failed", d>>, d, EmptyBitmap)

Cpy(d, a)  == Call(<<"copy", d, a>>, d, bm[a])
Destroy(d) == Call(<<"destroy", d>>, d, EmptyBitmap)

(* A bitmap written to a policy file and read back from it.                *)
SaveAndLoad(d, a) == Call(<<"copy", d, a>>, d, ebitmap_read(ebitmap_write(bm[a])))

MaxBits == 0 .. Limit - MapSize

Next ==
    \/ Done
    \/ \E d \in Reg :
        \/ \E bit \in Uint, value \in BOOLEAN : SetBit(d, bit, value)
        \/ \E bit \in Uint : SetBitFails(d, bit)
        \/ \E a, b \in Reg : Or(d, a, b) \/ And(d, a, b) \/ Xor(d, a, b)
        \/ \E a \in Reg : ebitmap_union(d, a)
        \/ \E a \in Reg, n \in MaxBits : Not(d, a, n)
        \/ \E a, b \in Reg, n \in MaxBits : AndNot(d, a, b, n)
        \/ \E lo, hi \in Uint : InitRange(d, lo, hi) \/ InitRangeFails(d, lo, hi)
        \/ ConstructorFails(d)
        \/ \E a \in Reg \ {d} : Cpy(d, a) \/ SaveAndLoad(d, a)
        \/ Destroy(d)

Spec == Init /\ [][Next]_vars

-----------------------------------------------------------------------------
(* The representation: increasing, aligned start bits, no empty map, and   *)
(* highbit one past the last node (0 for the empty list).  Every loop of   *)
(* ebitmap.c relies on it and every operation has to restore it.           *)
RepOK(e) ==
    /\ \A i \in DOMAIN e.node :
          /\ e.node[i].startbit % MapSize = 0
          /\ e.node[i].startbit + MapSize < Limit
          /\ e.node[i].map \subseteq Offset
          /\ e.node[i].map # {}
          /\ i > 1 => e.node[i - 1].startbit < e.node[i].startbit
    /\ e.highbit = IF e.node = <<>> THEN 0 ELSE Last(e.node).startbit + MapSize

RepInvariant == bm \in [Reg -> Bitmap] /\ \A r \in Reg : RepOK(bm[r])

(* The queries of ebitmap.c answer as the set of bits would: get_bit is    *)
(* membership, cmp is equality (so the representation is canonical),       *)
(* contains is inclusion, match_any is a common member, and the distance,  *)
(* cardinality and highest bit are those of the sets.  The iteration       *)
(* visits exactly the bits that are on, each once, in increasing order:    *)
(* the cursor never falls between two nodes and never stops before highbit.*)
QueriesAgree ==
    op = Idle => \A r, q \in Reg :
        LET e == bm[r]  f == bm[q]  visited == ebitmap_for_each_positive_bit(e) IN
        /\ ToSet(visited) = Bits(e)
        /\ \A i \in 1 .. Len(visited) - 1 : visited[i] < visited[i + 1]
        /\ \A bit \in Uint : ebitmap_get_bit(e, bit) <=> bit \in Bits(e)
        /\ ebitmap_cmp(e, f) <=> Bits(e) = Bits(f)
        /\ ebitmap_contains(e, f) <=> Bits(f) \subseteq Bits(e)
        /\ ebitmap_match_any(e, f) <=> Bits(e) \cap Bits(f) # {}
        /\ ebitmap_cardinality(e) = Cardinality(Bits(e))
        /\ ebitmap_hamming_distance(e, f) = Cardinality(SymDiff(Bits(e), Bits(f)))
        /\ Bits(e) # {} => ebitmap_highest_set_bit(e) = Max(Bits(e))

(* The list is an implementation of the sets of BitSet.                    *)
AsSets == INSTANCE BitSet WITH Bit <- Uint, set <- [r \in Reg |-> Bits(bm[r])]

(* Every call changes the sets the bitmaps stand for as the set operation  *)
(* of the same name does, and a failed call changes nothing or leaves the  *)
(* destination empty.                                                      *)
ImplementsSets == AsSets!Spec

(* Whatever a policy file holds where a bitmap is expected, ebitmap_read   *)
(* either refuses it or builds a bitmap every other function can use.      *)
(* The images combine any highbit with the nodes of a bitmap and one node  *)
(* put before it, after it, or cut off.                                    *)
ReadChecksImage ==
    op = Idle => \A r \in Reg, h \in Uint, s \in Uint, m \in {{}, {0}}, count \in 0 .. 3 :
        LET n == bm[r].node
        IN  \A nodes \in {n, <<Node(s, m)>> \o n, Append(n, Node(s, m))} :
                RepOK(ebitmap_read([mapsize |-> MapSize, highbit |-> h, count |-> count, node |-> nodes]))
=============================================================================
