----------------------------- MODULE Link_proofs -----------------------------
(***************************************************************************)
(* Linking keeps exactly the right optional blocks and expands the role    *)
(* attributes to the roles they stand for, for every base, every sequence  *)
(* of modules and every order of blocks and attributes.                    *)
(***************************************************************************)
EXTENDS Link, TLAPS, SequenceTheorems

(* More enabled declarations satisfy more requirements (is_id_enabled asks
   only for membership). *)
LEMMA Monotone ==
  ASSUME NEW d, NEW S, NEW T, S \subseteq T, is_decl_requires_met(d, S)
  PROVE  is_decl_requires_met(d, T)
BY DEF is_decl_requires_met, is_id_enabled

(* A step that leaves the symbols, scopes and declarations alone leaves the
   requirements alone. *)
LEMMA SameRequirements ==
  ASSUME UNCHANGED copied
  PROVE  \A d, S : is_decl_requires_met(d, S)' <=> is_decl_requires_met(d, S)
BY DEF copied, is_decl_requires_met, is_id_enabled, Present

(* Distinct blocks have distinct first branches, and no first branch is an
   else branch. *)
LEMMA MainsDistinct ==
  ASSUME UniqueDecls
  PROVE  /\ \A b, c \in DOMAIN global : Main(b) = Main(c) => b = c
         /\ \A b \in DOMAIN global : Main(b) \in Nat \ {0}
         /\ \A b, c \in DOMAIN global : Len(global[b].branch_list) > 1 => Else(b) # Main(c)
<1>0. \A b \in DOMAIN global : global[b] \in BlockType
  BY DEF UniqueDecls
<1>1. \A b \in DOMAIN global : 1 \in DOMAIN global[b].branch_list
                               /\ global[b].branch_list \in Seq(Nat \ {0})
  <2>1. \A b \in DOMAIN global : global[b].branch_list \in Seq(Nat \ {0})
    BY <1>0 DEF BlockType
  <2>2. \A b \in DOMAIN global : Len(global[b].branch_list) \in 1 .. 2
    BY DEF UniqueDecls
  <2> QED
    BY <2>1, <2>2
<1>2. \A b \in DOMAIN global : Len(global[b].branch_list) > 1 => 2 \in DOMAIN global[b].branch_list
  BY <1>1 DEF UniqueDecls
<1>3. \A b \in DOMAIN global : Main(b) \in Nat \ {0}
  BY <1>1 DEF Main
<1>4. \A b, c \in DOMAIN global : Main(b) = Main(c) => b = c
  BY <1>1 DEF UniqueDecls, Main
<1>5. \A b, c \in DOMAIN global : Len(global[b].branch_list) > 1 => Else(b) # Main(c)
  <2> SUFFICES ASSUME NEW b \in DOMAIN global, NEW c \in DOMAIN global,
                      Len(global[b].branch_list) > 1, Else(b) = Main(c)
               PROVE  FALSE
    OBVIOUS
  <2>1. 2 \in DOMAIN global[b].branch_list /\ 1 \in DOMAIN global[c].branch_list
    BY <1>1, <1>2
  <2>2. global[b].branch_list[2] = global[c].branch_list[1]
    BY DEF Main, Else
  <2>3. b = c /\ 2 = 1
    BY <2>1, <2>2 DEF UniqueDecls
  <2> QED
    BY <2>3
<1> QED
  BY <1>3, <1>4, <1>5

(* A declaration of a policy is the one its id names. *)
LEMMA SourceDecls ==
  ASSUME NEW p, WellFormedPolicy(p)
  PROVE  /\ \A i \in DeclIdsOf(p.blocks) : i \in Nat \ {0} /\ DeclsOf(p.blocks)[i] \in DeclType
         /\ \A b \in DOMAIN p.blocks : \A d \in DOMAIN p.blocks[b].branch_list :
               /\ p.blocks[b].branch_list[d] \in DeclType
               /\ p.blocks[b].branch_list[d].id \in DeclIdsOf(p.blocks)
               /\ DeclsOf(p.blocks)[p.blocks[b].branch_list[d].id] = p.blocks[b].branch_list[d]
<1> DEFINE L(b) == p.blocks[b].branch_list
           All == UNION {ToSet(L(b)) : b \in DOMAIN p.blocks}
<1>1. /\ p.blocks \in Seq(SourceBlock)
      /\ \A b \in DOMAIN p.blocks : \A d \in DOMAIN L(b) :
           \A c \in DOMAIN p.blocks : \A e \in DOMAIN L(c) :
              L(b)[d].id = L(c)[e].id => b = c /\ d = e
  BY DEF WellFormedPolicy
<1>2. \A b \in DOMAIN p.blocks : p.blocks[b] \in SourceBlock
  BY <1>1
<1>3. \A b \in DOMAIN p.blocks : L(b) \in Seq(DeclType)
  BY <1>2 DEF SourceBlock
<1>4. \A b \in DOMAIN p.blocks : \A d \in DOMAIN L(b) : L(b)[d] \in DeclType
  BY <1>3
<1>5. \A b \in DOMAIN p.blocks : \A d \in DOMAIN L(b) : L(b)[d].id \in DeclIdsOf(p.blocks)
  BY DEF DeclIdsOf
<1>6. \A b \in DOMAIN p.blocks : \A d \in DOMAIN L(b) : DeclsOf(p.blocks)[L(b)[d].id] = L(b)[d]
  <2> TAKE b \in DOMAIN p.blocks
  <2> TAKE d \in DOMAIN L(b)
  <2>1. DeclsOf(p.blocks)[L(b)[d].id] = CHOOSE x \in All : x.id = L(b)[d].id
    BY <1>5 DEF DeclsOf
  <2>2. L(b)[d] \in All
    BY DEF ToSet
  <2>3. \A x \in All : x.id = L(b)[d].id => x = L(b)[d]
    <3> SUFFICES ASSUME NEW c \in DOMAIN p.blocks, NEW x \in ToSet(L(c)), x.id = L(b)[d].id
                 PROVE  x = L(b)[d]
      OBVIOUS
    <3>1. PICK e \in DOMAIN L(c) : x = L(c)[e]
      BY DEF ToSet
    <3>2. c = b /\ e = d
      BY <1>1, <3>1
    <3> QED
      BY <3>1, <3>2
  <2> HIDE DEF All
  <2> QED
    BY <2>1, <2>2, <2>3
<1>7. \A i \in DeclIdsOf(p.blocks) : \E b \in DOMAIN p.blocks : \E d \in DOMAIN L(b) : i = L(b)[d].id
  BY DEF DeclIdsOf
<1>8. \A x \in DeclType : x.id \in Nat \ {0}
  BY DEF DeclType
<1> HIDE DEF L
<1>9. \A i \in DeclIdsOf(p.blocks) : i \in Nat \ {0} /\ DeclsOf(p.blocks)[i] \in DeclType
  BY <1>4, <1>6, <1>7, <1>8
<1> QED
  BY <1>4, <1>5, <1>6, <1>9 DEF L

(* prepare_base: next_decl_id is above the ids of the base. *)
LEMMA BaseIds ==
  Init => next_decl_id \in Nat \ {0} /\ \A i \in DeclIdsOf(Base.blocks) : i \in Nat \ {0} /\ i < next_decl_id
<1> SUFFICES ASSUME Init
             PROVE  next_decl_id \in Nat \ {0}
                    /\ \A i \in DeclIdsOf(Base.blocks) : i \in Nat \ {0} /\ i < next_decl_id
  OBVIOUS
<1> DEFINE I == DeclIdsOf(Base.blocks)
           x0 == CHOOSE x \in I : \A i \in I : i <= x
<1>1. I \subseteq Nat \ {0}
  BY BaseAssumption, SourceDecls
<1>2. PICK m \in I : \A i \in I : i <= m
  BY BaseAssumption
<1>3. next_decl_id = 1 + x0
  BY DEF Init
<1>4. x0 \in I /\ \A i \in I : i <= x0
  BY <1>2
<1> HIDE DEF x0, I
<1>5. x0 \in Nat
  BY <1>1, <1>4
<1>6. next_decl_id \in Nat \ {0} /\ \A i \in I : i < next_decl_id
  BY <1>1, <1>3, <1>4, <1>5
<1> QED
  BY <1>1, <1>6 DEF I

(* The base starts with unique declaration ids below next_decl_id
   (prepare_base). *)
LEMMA InitUnique == Init => UniqueDecls
<1> SUFFICES ASSUME Init PROVE UniqueDecls
  OBVIOUS
<1> DEFINE I == DeclIdsOf(Base.blocks)
           L(b) == Base.blocks[b].branch_list
<1>1. /\ Base.blocks \in Seq(SourceBlock)
      /\ \A b \in DOMAIN Base.blocks : Len(L(b)) \in 1 .. 2
      /\ \A b \in DOMAIN Base.blocks : \A d \in DOMAIN L(b) :
           \A c \in DOMAIN Base.blocks : \A e \in DOMAIN L(c) :
              L(b)[d].id = L(c)[e].id => b = c /\ d = e
  BY BaseAssumption DEF WellFormedPolicy
<1>2. \A b \in DOMAIN Base.blocks : Base.blocks[b] \in SourceBlock
  BY <1>1
<1>3. \A b \in DOMAIN Base.blocks : L(b) \in Seq(DeclType) /\ Base.blocks[b].optional \in BOOLEAN
  BY <1>2 DEF SourceBlock
<1>4. \A b \in DOMAIN Base.blocks : \A d \in DOMAIN L(b) : L(b)[d] \in DeclType
  BY <1>3
<1>5. \A b \in DOMAIN Base.blocks : \A d \in DOMAIN L(b) : L(b)[d].id \in Nat \ {0}
  BY <1>4 DEF DeclType
<1>7. next_decl_id \in Nat \ {0} /\ \A i \in I : i < next_decl_id
  BY BaseIds
<1> DEFINE B(b) == BlockOf(Base.blocks[b])
<1>8. \A b \in DOMAIN Base.blocks :
        /\ B(b).optional = Base.blocks[b].optional
        /\ B(b).enabled = 0
        /\ B(b).branch_list = [d \in DOMAIN L(b) |-> L(b)[d].id]
        /\ B(b) = [optional |-> Base.blocks[b].optional, enabled |-> 0,
                   branch_list |-> [d \in DOMAIN L(b) |-> L(b)[d].id]]
  BY DEF BlockOf
<1>9. \A b \in DOMAIN Base.blocks : B(b).branch_list \in Seq(Nat \ {0}) /\ Len(B(b).branch_list) = Len(L(b))
                                    /\ DOMAIN B(b).branch_list = DOMAIN L(b)
  <2> TAKE b \in DOMAIN Base.blocks
  <2> DEFINE n == Len(L(b))
             s == [d \in 1 .. n |-> L(b)[d].id]
  <2>1. n \in Nat /\ DOMAIN L(b) = 1 .. n
    BY <1>3
  <2>2. \A d \in 1 .. n : L(b)[d].id \in Nat \ {0}
    BY <1>5, <2>1
  <2>3. B(b).branch_list = s
    BY <1>8, <2>1
  <2> HIDE DEF B, L
  <2>4. s \in Seq(Nat \ {0}) /\ Len(s) = n /\ DOMAIN s = 1 .. n
    BY <2>1, <2>2
  <2> QED
    BY <2>1, <2>3, <2>4
<1>10. \A b \in DOMAIN Base.blocks : B(b) \in BlockType
  <2> TAKE b \in DOMAIN Base.blocks
  <2>1. B(b).branch_list \in Seq(Nat \ {0}) /\ Base.blocks[b].optional \in BOOLEAN
    BY <1>3, <1>9
  <2>2. B(b) = [optional |-> Base.blocks[b].optional, enabled |-> 0, branch_list |-> B(b).branch_list]
    BY <1>8
  <2> HIDE DEF B
  <2> QED
    BY <2>1, <2>2 DEF BlockType
<1>11. global = [b \in DOMAIN Base.blocks |-> B(b)] /\ DOMAIN global = DOMAIN Base.blocks
  BY DEF Init
<1>12. global \in Seq(BlockType)
  <2>1. DOMAIN Base.blocks = 1 .. Len(Base.blocks) /\ Len(Base.blocks) \in Nat
    BY <1>1
  <2> HIDE DEF B
  <2> QED
    BY <1>10, <1>11, <2>1
<1>13. \A b \in DOMAIN global : /\ global[b].branch_list = [d \in DOMAIN L(b) |-> L(b)[d].id]
                                /\ DOMAIN global[b].branch_list = DOMAIN L(b)
                                /\ Len(global[b].branch_list) = Len(L(b))
  BY <1>8, <1>9, <1>11
<1>14. \A b \in DOMAIN global : \A d \in DOMAIN L(b) : L(b)[d].id \in I
  BY <1>11 DEF DeclIdsOf
<1>15. \A b \in DOMAIN global : \A d \in DOMAIN L(b) : global[b].branch_list[d] = L(b)[d].id
  BY <1>13
<1> HIDE DEF L, B, I
<1>16. \A b \in DOMAIN global : Len(global[b].branch_list) \in 1 .. 2
  BY <1>1, <1>11, <1>13
<1>17. \A b \in DOMAIN global : \A d \in DOMAIN global[b].branch_list :
         global[b].branch_list[d] < next_decl_id
  BY <1>7, <1>13, <1>14, <1>15
<1>18. \A b \in DOMAIN global : \A d \in DOMAIN global[b].branch_list :
         \A c \in DOMAIN global : \A e \in DOMAIN global[c].branch_list :
            global[b].branch_list[d] = global[c].branch_list[e] => b = c /\ d = e
  <2> TAKE b \in DOMAIN global
  <2> TAKE d \in DOMAIN global[b].branch_list
  <2> TAKE c \in DOMAIN global
  <2> TAKE e \in DOMAIN global[c].branch_list
  <2>1. d \in DOMAIN L(b) /\ e \in DOMAIN L(c)
    BY <1>13
  <2>2. global[b].branch_list[d] = L(b)[d].id /\ global[c].branch_list[e] = L(c)[e].id
    BY <2>1, <1>15
  <2>3. L(b)[d].id = L(c)[e].id => b = c /\ d = e
    BY <2>1, <1>1, <1>11
  <2> QED
    BY <2>2, <2>3
<1> QED
  BY <1>7, <1>12, <1>16, <1>17, <1>18 DEF UniqueDecls

-----------------------------------------------------------------------------
(* Enabling changes only the enabled field of blocks. *)
SameBranches == /\ next_decl_id' = next_decl_id
                /\ global' \in Seq(BlockType)
                /\ DOMAIN global' = DOMAIN global
                /\ \A b \in DOMAIN global : global'[b].branch_list = global[b].branch_list

LEMMA UniqueKept == UniqueDecls /\ SameBranches => UniqueDecls'
<1> SUFFICES ASSUME UniqueDecls, SameBranches PROVE UniqueDecls'
  OBVIOUS
<1>1. \A b \in DOMAIN global' : b \in DOMAIN global /\ global'[b].branch_list = global[b].branch_list
  BY DEF SameBranches
<1>2. next_decl_id' \in Nat \ {0} /\ global' \in Seq(BlockType)
  BY DEF UniqueDecls, SameBranches
<1>3. \A b \in DOMAIN global' : Len(global'[b].branch_list) \in 1 .. 2
  BY <1>1 DEF UniqueDecls
<1>4. \A b \in DOMAIN global' : \A d \in DOMAIN global'[b].branch_list :
        global'[b].branch_list[d] < next_decl_id'
  BY <1>1 DEF UniqueDecls, SameBranches
<1>5. \A b \in DOMAIN global' : \A d \in DOMAIN global'[b].branch_list :
        \A c \in DOMAIN global' : \A e \in DOMAIN global'[c].branch_list :
           global'[b].branch_list[d] = global'[c].branch_list[e] => b = c /\ d = e
  BY <1>1 DEF UniqueDecls
<1> QED
  BY <1>2, <1>3, <1>4, <1>5 DEF UniqueDecls

LEMMA SameMains ==
  ASSUME SameBranches
  PROVE  /\ \A b \in DOMAIN global : Main(b)' = Main(b)
         /\ Mains' = Mains
<1>1. \A b \in DOMAIN global : Main(b)' = Main(b)
  BY DEF SameBranches, Main
<1>2. Mains' = Mains
  BY <1>1 DEF SameBranches, Mains
<1> QED
  BY <1>1, <1>2

(* Setting enabled fields to declaration ids keeps the branches. *)
LEMMA EnabledOnly ==
  ASSUME UniqueDecls, next_decl_id' = next_decl_id,
         NEW h, global' = [b \in DOMAIN global |-> h[b]],
         \A b \in DOMAIN global :
            h[b] = global[b] \/ \E e \in Nat : h[b] = [global[b] EXCEPT !.enabled = e]
  PROVE  SameBranches /\ \A b \in DOMAIN global : global'[b].optional = global[b].optional
<1>1. \A b \in DOMAIN global : global[b] \in BlockType
  BY DEF UniqueDecls
<1>2. \A b \in DOMAIN global : global'[b] = h[b]
  OBVIOUS
<1>3. \A b \in DOMAIN global : /\ h[b] \in BlockType
                              /\ h[b].branch_list = global[b].branch_list
                              /\ h[b].optional = global[b].optional
  BY <1>1 DEF BlockType
<1>4. DOMAIN global' = DOMAIN global /\ DOMAIN global = 1 .. Len(global) /\ Len(global) \in Nat
  BY DEF UniqueDecls
<1>5. global' \in Seq(BlockType)
  <2> DEFINE n == Len(global)
             f == [b \in 1 .. n |-> h[b]]
  <2>1. global' = f
    BY <1>4
  <2>2. \A b \in 1 .. n : h[b] \in BlockType
    BY <1>3, <1>4
  <2>3. n \in Nat
    BY <1>4
  <2> HIDE DEF n
  <2>4. f \in Seq(BlockType)
    BY <2>2, <2>3
  <2> QED
    BY <2>1, <2>4
<1> QED
  BY <1>2, <1>3, <1>4, <1>5 DEF SameBranches

(* copy_avrule_block: the declarations of a copied block get fresh ids. *)
LEMMA CopyUnique ==
  ASSUME UniqueDecls, copy_avrule_block, WellFormedPolicy(Module), at.block \in Nat \ {0}
  PROVE  UniqueDecls'
<1> DEFINE block == Module.blocks[at.block]
           count == Len(block.branch_list)
           N(d) == Mapped(next_decl_id, d)
           ids == [d \in 1 .. count |-> N(d)]
           nb == [optional |-> block.optional, enabled |-> 0, branch_list |-> ids]
           n == Len(global)
<1>1. block \in SourceBlock /\ count \in 1 .. 2
  <2>1. at.block \in DOMAIN Module.blocks
    <3>1. at.block <= Len(Module.blocks)
      BY Zenon DEF copy_avrule_block
    <3>2. Module.blocks \in Seq(SourceBlock)
      BY DEF WellFormedPolicy
    <3> QED
      BY <3>1, <3>2
  <2> QED
    BY <2>1 DEF WellFormedPolicy
<1>2. block.optional \in BOOLEAN
  BY <1>1 DEF SourceBlock
<1>3. global' = Append(global, nb) /\ next_decl_id' = next_decl_id + count
  BY DEF copy_avrule_block
<1>4. next_decl_id \in Nat \ {0} /\ global \in Seq(BlockType) /\ n \in Nat /\ DOMAIN global = 1 .. n
  BY DEF UniqueDecls
<1> HIDE DEF block, count, n
<1>5. \A d \in 1 .. count : N(d) \in Nat \ {0} /\ N(d) >= next_decl_id /\ N(d) < next_decl_id + count
                             /\ N(d) = next_decl_id + d - 1
  BY <1>1, <1>4 DEF Mapped
<1> HIDE DEF N
<1>6. ids \in Seq(Nat \ {0}) /\ Len(ids) = count /\ DOMAIN ids = 1 .. count
      /\ \A d \in 1 .. count : ids[d] = N(d)
  BY <1>1, <1>5
<1> HIDE DEF ids
<1>7. nb \in BlockType /\ nb.branch_list = ids
  BY <1>2, <1>6 DEF BlockType
<1> HIDE DEF nb
<1>8. /\ global' \in Seq(BlockType)
      /\ DOMAIN global' = 1 .. n + 1
      /\ \A b \in 1 .. n : global'[b] = global[b]
      /\ global'[n + 1] = nb
  BY <1>3, <1>4, <1>7 DEF n
<1>9. \A b \in DOMAIN global' : (b \in DOMAIN global /\ global'[b] = global[b]) \/ (b = n + 1 /\ global'[b] = nb)
  BY <1>4, <1>8
<1>10. next_decl_id' \in Nat \ {0} /\ next_decl_id' > next_decl_id
  BY <1>1, <1>3, <1>4
<1>11. \A b \in DOMAIN global' : Len(global'[b].branch_list) \in 1 .. 2
  BY <1>1, <1>6, <1>7, <1>9 DEF UniqueDecls
<1>12. \A b \in DOMAIN global : \A d \in DOMAIN global[b].branch_list :
          global[b].branch_list[d] \in Nat /\ global[b].branch_list[d] < next_decl_id
  <2>1. \A b \in DOMAIN global : global[b] \in BlockType
    BY <1>4
  <2>2. \A b \in DOMAIN global : global[b].branch_list \in Seq(Nat \ {0})
    BY <2>1 DEF BlockType
  <2> QED
    BY <2>2 DEF UniqueDecls
<1>13. \A d \in DOMAIN nb.branch_list : /\ nb.branch_list[d] \in Nat
                                        /\ nb.branch_list[d] >= next_decl_id
                                        /\ nb.branch_list[d] < next_decl_id'
  BY <1>3, <1>5, <1>6, <1>7
<1>14. \A b \in DOMAIN global' : \A d \in DOMAIN global'[b].branch_list :
          global'[b].branch_list[d] < next_decl_id'
  BY <1>4, <1>9, <1>10, <1>12, <1>13
<1>15. ASSUME NEW b \in DOMAIN global', NEW d \in DOMAIN global'[b].branch_list,
              NEW c \in DOMAIN global', NEW e \in DOMAIN global'[c].branch_list,
              global'[b].branch_list[d] = global'[c].branch_list[e]
       PROVE  b = c /\ d = e
  <2>1. CASE b \in DOMAIN global /\ c \in DOMAIN global /\ global'[b] = global[b] /\ global'[c] = global[c]
    BY <1>15, <2>1 DEF UniqueDecls
  <2>2. CASE b = n + 1 /\ global'[b] = nb /\ c = n + 1 /\ global'[c] = nb
    <3>1. d \in 1 .. count /\ e \in 1 .. count /\ ids[d] = ids[e]
      BY <1>15, <2>2, <1>6, <1>7
    <3>2. next_decl_id + d - 1 = next_decl_id + e - 1
      BY <3>1, <1>5, <1>6
    <3> QED
      BY <2>2, <3>1, <3>2, <1>4, <1>1
  <2>3. CASE b = n + 1 /\ global'[b] = nb /\ c \in DOMAIN global /\ global'[c] = global[c]
    BY <1>15, <2>3, <1>4, <1>12, <1>13
  <2>4. CASE c = n + 1 /\ global'[c] = nb /\ b \in DOMAIN global /\ global'[b] = global[b]
    BY <1>15, <2>4, <1>4, <1>12, <1>13
  <2> QED
    BY <1>9, <2>1, <2>2, <2>3, <2>4
<1> QED
  BY <1>8, <1>10, <1>11, <1>14, <1>15 DEF UniqueDecls

-----------------------------------------------------------------------------
(* While modules are copied nothing is enabled. *)
LEMMA CopyStep == IndInv /\ Copy => IndInv'
<1> SUFFICES ASSUME IndInv, Copy PROVE IndInv'
  OBVIOUS
<1>0. /\ mods \in Loads
      /\ at \in [module : Nat \ {0}, block : Nat \ {0}]
      /\ status \in {"identifiers", "blocks", "scopes"} => on = {}
      /\ status \in {"blocks", "scopes"} => at.module <= Len(mods)
      /\ UniqueDecls
  BY DEF IndInv
<1>1. SUFFICES /\ mods' = mods /\ on' = on
               /\ at' \in [module : Nat \ {0}, block : Nat \ {0}]
               /\ status \in {"identifiers", "blocks", "scopes"}
               /\ status' \in {"identifiers", "blocks", "scopes", "failed"}
               /\ status' \in {"blocks", "scopes"} => at'.module <= Len(mods)
               /\ UniqueDecls'
  BY <1>0 DEF IndInv, Settled, EnabledIsGreatest, RefusalJustified, OneBranch
<1>2. CASE copy_identifiers
  BY <1>0, <1>2 DEF copy_identifiers, Identifiers, UniqueDecls
<1>3. CASE IdentifiersRefused
  BY <1>0, <1>3 DEF IdentifiersRefused, Identifiers, Fail, copied, UniqueDecls
<1>4. CASE copy_avrule_block
  <2>0. status = "blocks"
    BY <1>4, Zenon DEF copy_avrule_block
  <2>1. at.module \in DOMAIN mods
    BY <1>0, <2>0, LoadsAssumption
  <2>2. WellFormedPolicy(Module)
    BY <1>0, <2>1, LoadsAssumption DEF Module
  <2>3. UniqueDecls'
    BY <1>0, <1>4, <2>2, CopyUnique
  <2>4. at' = [at EXCEPT !.block = @ + 1] /\ mods' = mods /\ on' = on /\ status' = status
        /\ status = "blocks"
    BY <1>4 DEF copy_avrule_block
  <2> QED
    BY <1>0, <2>3, <2>4
<1>5. CASE BlocksCopied
  BY <1>0, <1>5 DEF BlocksCopied, copied, UniqueDecls
<1>6. CASE scope_copy
  BY <1>0, <1>6 DEF scope_copy, UniqueDecls
<1>7. CASE ScopesRefused
  BY <1>0, <1>7 DEF ScopesRefused, Fail, copied, UniqueDecls
<1> QED
  BY <1>2, <1>3, <1>4, <1>5, <1>6, <1>7 DEF Copy

(* What a step of enable_avrules leaves alone. *)
LEMMA SameConsistent ==
  ASSUME UNCHANGED copied
  PROVE  \A S : Consistent(S)' <=> Consistent(S)
BY SameRequirements DEF Consistent

(* A block that does not have its requirements is in no consistent set:
   nothing the linker could keep would satisfy it (DisableBlock,
   RequirementMissing). *)
LEMMA UnmetIsLost ==
  ASSUME UniqueDecls, Flagged, KeepsConsistent, Unmet, at.block \in DOMAIN global,
         NEW S \in SUBSET Mains, Consistent(S)
  PROVE  Main(at.block) \notin S
<1> SUFFICES ASSUME Main(at.block) \in S PROVE FALSE
  OBVIOUS
<1>1. S \subseteq on
  BY DEF KeepsConsistent
<1>2. is_decl_requires_met(Main(at.block), S)
  BY DEF Consistent
<1>3. is_decl_requires_met(Main(at.block), on)
  BY <1>1, <1>2, Monotone
<1> QED
  BY <1>3 DEF Unmet

(* DisableBlock and RequirementMissing clear one enabled field. *)
LEMMA ClearedOne ==
  ASSUME UniqueDecls, next_decl_id' = next_decl_id, at.block \in DOMAIN global,
         global' = [global EXCEPT ![at.block].enabled = 0]
  PROVE  /\ SameBranches
         /\ \A b \in DOMAIN global : global'[b].optional = global[b].optional
         /\ \A b \in DOMAIN global :
              global'[b].enabled = IF b = at.block THEN 0 ELSE global[b].enabled
<1> DEFINE G(b) == IF b = at.block THEN [global[b] EXCEPT !.enabled = 0] ELSE global[b]
           h == [b \in DOMAIN global |-> G(b)]
<1>1. \A b \in DOMAIN global : global[b] \in BlockType
  BY DEF UniqueDecls
<1>2. global' = h
  OBVIOUS
<1>3. \A b \in DOMAIN global : h[b] = G(b)
  OBVIOUS
<1>4. \A b \in DOMAIN global : h[b] = global[b] \/ h[b] = [global[b] EXCEPT !.enabled = 0]
  BY <1>3
<1>5. \A b \in DOMAIN global : h[b].enabled = IF b = at.block THEN 0 ELSE global[b].enabled
  BY <1>1, <1>3 DEF BlockType
<1>6. h = [b \in DOMAIN global |-> h[b]]
  OBVIOUS
<1> HIDE DEF h
<1>7. SameBranches /\ \A b \in DOMAIN global : global'[b].optional = global[b].optional
  <2>1. global' = [b \in DOMAIN global |-> h[b]]
    BY <1>2, <1>6
  <2>2. \A b \in DOMAIN global :
            h[b] = global[b] \/ \E e \in Nat : h[b] = [global[b] EXCEPT !.enabled = e]
    BY <1>4
  <2> HIDE DEF G
  <2> QED
    BY <2>1, <2>2, EnabledOnly, ZenonT(60)
<1> QED
  BY <1>2, <1>5, <1>7

(* Nothing enable_avrules does changes what Link calls copied; one lemma per
   step of it. *)
LEMMA StartStep == IndInv /\ StartEnabling => IndInv'
<1> SUFFICES ASSUME IndInv, StartEnabling PROVE IndInv'
  OBVIOUS
<1> DEFINE h == [b \in DOMAIN global |-> [global[b] EXCEPT !.enabled = Main(b)]]
<1>1. UniqueDecls /\ at \in [module : Nat \ {0}, block : Nat \ {0}] /\ mods \in Loads
  BY DEF IndInv
<1>2. /\ UNCHANGED copied
      /\ global' = h /\ status' = "enabling" /\ changed' = FALSE
      /\ at' = [at EXCEPT !.block = 1] /\ on' = Mains
  BY DEF StartEnabling, Mains
<1>3. \A b \in DOMAIN global : Main(b) \in Nat /\ global[b] \in BlockType
  BY <1>1, MainsDistinct DEF UniqueDecls
<1>4. \A b \in DOMAIN global : h[b] = [global[b] EXCEPT !.enabled = Main(b)] /\ h[b].enabled = Main(b)
  BY <1>3 DEF BlockType
<1>5. h = [b \in DOMAIN global |-> h[b]]
  OBVIOUS
<1> HIDE DEF h
<1>6. SameBranches
  <2>1. global' = [b \in DOMAIN global |-> h[b]]
    BY <1>2, <1>5
  <2>2. \A b \in DOMAIN global :
            h[b] = global[b] \/ \E e \in Nat : h[b] = [global[b] EXCEPT !.enabled = e]
    BY <1>3, <1>4
  <2>3. next_decl_id' = next_decl_id
    BY <1>2 DEF copied
  <2> QED
    BY <1>1, <2>1, <2>2, <2>3, EnabledOnly, Zenon
<1>7. UniqueDecls'
  BY <1>1, <1>6, UniqueKept
<1>8. Mains' = Mains /\ DOMAIN global' = DOMAIN global /\ \A b \in DOMAIN global : Main(b)' = Main(b)
  BY <1>6, SameMains DEF SameBranches
<1>9. Flagged'
  BY <1>2, <1>4, <1>8 DEF Flagged, Mains
<1>10. on' \subseteq Mains' /\ KeepsConsistent'
  BY <1>2, <1>8 DEF KeepsConsistent
<1>11. \A c \in DOMAIN global' : ~(c < at'.block)
  BY <1>1, <1>2, <1>8 DEF UniqueDecls
<1>12. Enabling'
  BY <1>9, <1>10, <1>11 DEF Enabling
<1>13. mods' \in Loads /\ at' \in [module : Nat \ {0}, block : Nat \ {0}]
  BY <1>1, <1>2 DEF copied
<1> QED
  BY <1>2, <1>7, <1>12, <1>13 DEF IndInv, Settled, EnabledIsGreatest, RefusalJustified, OneBranch

LEMMA KeepStep == IndInv /\ KeepBlock => IndInv'
<1> SUFFICES ASSUME IndInv, KeepBlock PROVE IndInv'
  OBVIOUS
<1>1. /\ UniqueDecls /\ at \in [module : Nat \ {0}, block : Nat \ {0}] /\ mods \in Loads
      /\ Enabling /\ status = "enabling"
  BY DEF IndInv, KeepBlock, AtBlock
<1>2. /\ UNCHANGED copied
      /\ global' = global /\ on' = on /\ status' = status /\ changed' = changed
      /\ at' = [at EXCEPT !.block = @ + 1] /\ ~Unmet /\ at.block <= Len(global)
  BY DEF KeepBlock, AtBlock, NextBlock
<1>3. at.block \in DOMAIN global
  BY <1>1, <1>2 DEF UniqueDecls
<1>4. UniqueDecls'
  BY <1>1, <1>2 DEF UniqueDecls, copied
<1>5. Mains' = Mains /\ \A b \in DOMAIN global : Main(b)' = Main(b)
  BY <1>2 DEF Mains, Main
<1>6. on' \subseteq Mains' /\ Flagged'
  BY <1>1, <1>2, <1>5 DEF Enabling, Flagged
<1>7. KeepsConsistent'
  BY <1>1, <1>2, <1>5, SameConsistent DEF Enabling, KeepsConsistent
<1>8. Passed(at.block)
  BY <1>1, <1>2, <1>3, MainsDistinct DEF Enabling, Flagged, Unmet, Passed
<1>9. ~changed' => \A c \in DOMAIN global' : c < at'.block => Passed(c)'
  <2> SUFFICES ASSUME ~changed, NEW c \in DOMAIN global, c < at.block + 1 PROVE Passed(c)'
    BY <1>1, <1>2
  <2>1. Passed(c)
    BY <1>1, <1>8 DEF Enabling, UniqueDecls
  <2>2. Main(c)' = Main(c)
    BY <1>5
  <2> QED
    BY <2>1, <2>2, <1>2, SameRequirements DEF Passed
<1>10. Enabling'
  BY <1>6, <1>7, <1>9 DEF Enabling
<1>11. mods' \in Loads /\ at' \in [module : Nat \ {0}, block : Nat \ {0}]
  BY <1>1, <1>2 DEF copied
<1> QED
  BY <1>1, <1>2, <1>4, <1>10, <1>11 DEF IndInv, Settled, EnabledIsGreatest, RefusalJustified, OneBranch

LEMMA DisableStep == IndInv /\ DisableBlock => IndInv'
<1> SUFFICES ASSUME IndInv, DisableBlock PROVE IndInv'
  OBVIOUS
<1>1. /\ UniqueDecls /\ at \in [module : Nat \ {0}, block : Nat \ {0}] /\ mods \in Loads
      /\ Enabling /\ status = "enabling"
  BY DEF IndInv, DisableBlock, AtBlock
<1>2. /\ UNCHANGED copied
      /\ global' = [global EXCEPT ![at.block].enabled = 0]
      /\ on' = on \ {Main(at.block)} /\ status' = status /\ changed' = TRUE
      /\ at' = [at EXCEPT !.block = @ + 1] /\ Unmet /\ at.block <= Len(global)
  BY DEF DisableBlock, AtBlock, NextBlock
<1>3. at.block \in DOMAIN global
  BY <1>1, <1>2 DEF UniqueDecls
<1>4. /\ SameBranches
      /\ \A b \in DOMAIN global :
            global'[b].enabled = IF b = at.block THEN 0 ELSE global[b].enabled
  <2>1. next_decl_id' = next_decl_id
    BY <1>2 DEF copied
  <2> QED
    BY <1>1, <1>2, <1>3, <2>1, ClearedOne
<1>5. UniqueDecls' /\ Mains' = Mains /\ DOMAIN global' = DOMAIN global
      /\ \A b \in DOMAIN global : Main(b)' = Main(b)
  BY <1>1, <1>4, UniqueKept, SameMains DEF SameBranches
<1>6. Flagged'
  <2> SUFFICES ASSUME NEW b \in DOMAIN global
               PROVE  global'[b].enabled = IF Main(b) \in on' THEN Main(b) ELSE 0
    BY <1>5 DEF Flagged
  <2>1. Main(b) = Main(at.block) => b = at.block
    BY <1>1, <1>3, MainsDistinct
  <2> QED
    BY <1>1, <1>2, <1>4, <2>1 DEF Enabling, Flagged
<1>7. KeepsConsistent'
  <2> SUFFICES ASSUME NEW S \in SUBSET Mains, Consistent(S) PROVE S \subseteq on'
    BY <1>2, <1>5, SameConsistent DEF KeepsConsistent
  <2>1. Main(at.block) \notin S
    BY <1>1, <1>2, <1>3, UnmetIsLost DEF Enabling
  <2> QED
    BY <1>1, <1>2, <2>1 DEF Enabling, KeepsConsistent
<1>8. Enabling'
  BY <1>1, <1>2, <1>5, <1>6, <1>7 DEF Enabling
<1>9. mods' \in Loads /\ at' \in [module : Nat \ {0}, block : Nat \ {0}]
  BY <1>1, <1>2 DEF copied
<1> QED
  BY <1>1, <1>2, <1>5, <1>8, <1>9 DEF IndInv, Settled, EnabledIsGreatest, RefusalJustified, OneBranch

LEMMA MissingStep == IndInv /\ RequirementMissing => IndInv'
<1> SUFFICES ASSUME IndInv, RequirementMissing PROVE IndInv'
  OBVIOUS
<1>1. /\ UniqueDecls /\ at \in [module : Nat \ {0}, block : Nat \ {0}] /\ mods \in Loads
      /\ Enabling
  BY DEF IndInv, RequirementMissing, AtBlock
<1>2. /\ UNCHANGED copied
      /\ global' = [global EXCEPT ![at.block].enabled = 0]
      /\ status' = "missing" /\ at' = at /\ Unmet /\ at.block <= Len(global)
      /\ ~global[at.block].optional
  BY DEF RequirementMissing, AtBlock
<1>3. at.block \in DOMAIN global
  BY <1>1, <1>2 DEF UniqueDecls
<1>4. SameBranches /\ \A b \in DOMAIN global : global'[b].optional = global[b].optional
  <2>1. next_decl_id' = next_decl_id
    BY <1>2 DEF copied
  <2> QED
    BY <1>1, <1>2, <1>3, <2>1, ClearedOne
<1>5. UniqueDecls' /\ Mains' = Mains /\ DOMAIN global' = DOMAIN global
      /\ \A b \in DOMAIN global : Main(b)' = Main(b)
  BY <1>1, <1>4, UniqueKept, SameMains DEF SameBranches
<1>6. RefusalJustified'
  <2> SUFFICES ASSUME NEW S \in SUBSET Mains, Consistent(S)
               PROVE  \E b \in DOMAIN global' : ~global'[b].optional /\ Main(b)' \notin S
    BY <1>2, <1>5, SameConsistent DEF RefusalJustified
  <2>1. Main(at.block) \notin S
    BY <1>1, <1>2, <1>3, UnmetIsLost DEF Enabling
  <2> QED
    BY <1>2, <1>3, <1>4, <1>5, <2>1
<1>7. mods' \in Loads /\ at' \in [module : Nat \ {0}, block : Nat \ {0}]
  BY <1>1, <1>2 DEF copied
<1> QED
  BY <1>2, <1>5, <1>6, <1>7 DEF IndInv, Settled, EnabledIsGreatest, OneBranch

LEMMA RoundStep == IndInv /\ NextRound => IndInv'
<1> SUFFICES ASSUME IndInv, NextRound PROVE IndInv'
  OBVIOUS
<1>1. /\ UniqueDecls /\ at \in [module : Nat \ {0}, block : Nat \ {0}] /\ mods \in Loads
      /\ Enabling /\ status = "enabling"
  BY DEF IndInv, NextRound
<1>2. /\ UNCHANGED copied
      /\ global' = global /\ on' = on /\ changed' = FALSE /\ at' = [at EXCEPT !.block = 1]
      /\ at.block > Len(global)
      /\ status' = IF changed THEN "enabling" ELSE "else"
  BY DEF NextRound
<1>3. UniqueDecls'
  BY <1>1, <1>2 DEF UniqueDecls, copied
<1>4. Mains' = Mains /\ DOMAIN global' = DOMAIN global /\ \A b \in DOMAIN global : Main(b)' = Main(b)
  BY <1>2 DEF Mains, Main
<1>5. on' \subseteq Mains' /\ Flagged'
  BY <1>1, <1>2, <1>4 DEF Enabling, Flagged
<1>6. KeepsConsistent'
  BY <1>1, <1>2, <1>4, SameConsistent DEF Enabling, KeepsConsistent
<1>7. \A c \in DOMAIN global' : ~(c < at'.block)
  BY <1>1, <1>2 DEF UniqueDecls
<1>8. Enabling'
  BY <1>5, <1>6, <1>7 DEF Enabling
<1>9. ~changed => EnabledIsGreatest'
  <2> SUFFICES ASSUME ~changed PROVE Consistent(on \cap Mains)' /\ KeepsConsistent'
    BY DEF EnabledIsGreatest, KeepsConsistent
  <2>1. \A c \in DOMAIN global : Passed(c)
    BY <1>1, <1>2 DEF Enabling, UniqueDecls
  <2>2. on \cap Mains = on /\ \A d \in on : is_decl_requires_met(d, on)
    BY <1>1, <2>1 DEF Enabling, Mains, Passed
  <2>3. Consistent(on \cap Mains)
    BY <2>2 DEF Consistent
  <2>4. (on \cap Mains)' = on \cap Mains
    BY <1>2, <1>4
  <2> QED
    BY <1>2, <1>6, <2>3, <2>4, SameConsistent
<1>10. mods' \in Loads /\ at' \in [module : Nat \ {0}, block : Nat \ {0}]
  BY <1>1, <1>2 DEF copied
<1>11. CASE changed
  BY <1>2, <1>3, <1>8, <1>10, <1>11 DEF IndInv, Settled, EnabledIsGreatest, RefusalJustified, OneBranch
<1>12. CASE ~changed
  BY <1>2, <1>3, <1>5, <1>9, <1>10, <1>12 DEF IndInv, RefusalJustified, OneBranch
<1> QED
  BY <1>11, <1>12

(* The else branches are no main branches: the greatest set stays what it is,
   and each block ends up with at most one branch in force. *)
LEMMA ElseStep == IndInv /\ EnableElse => IndInv'
<1> SUFFICES ASSUME IndInv, EnableElse PROVE IndInv'
  OBVIOUS
<1> DEFINE Taken == {c \in DOMAIN global : TakesElse(c)}
           G(b) == IF TakesElse(b) THEN [global[b] EXCEPT !.enabled = Else(b)] ELSE global[b]
           h == [b \in DOMAIN global |-> G(b)]
           List(b) == ToSet(global[b].branch_list)
<1>1. /\ UniqueDecls /\ at \in [module : Nat \ {0}, block : Nat \ {0}] /\ mods \in Loads
      /\ on \subseteq Mains /\ Flagged /\ EnabledIsGreatest /\ status = "else"
  BY DEF IndInv, EnableElse
<1>2. /\ UNCHANGED copied
      /\ global' = h /\ on' = on \cup {Else(b) : b \in Taken}
      /\ status' = "populate" /\ at' = at
  BY DEF EnableElse
<1>3. \A b \in DOMAIN global : /\ global[b] \in BlockType
                              /\ global[b].branch_list \in Seq(Nat \ {0})
                              /\ Len(global[b].branch_list) \in 1 .. 2
  <2>1. \A b \in DOMAIN global : global[b] \in BlockType
    BY <1>1 DEF UniqueDecls
  <2> QED
    BY <1>1, <2>1 DEF UniqueDecls, BlockType
<1>4. \A b \in Taken : 2 \in DOMAIN global[b].branch_list /\ Else(b) \in Nat \ {0}
  BY <1>3 DEF TakesElse, Else
<1>5. \A b \in DOMAIN global : h[b] = G(b) /\ h[b].enabled = IF TakesElse(b) THEN Else(b) ELSE global[b].enabled
  BY <1>3 DEF BlockType
<1>6. h = [b \in DOMAIN global |-> h[b]]
  OBVIOUS
<1>7. \A b \in DOMAIN global :
            h[b] = global[b] \/ \E e \in Nat : h[b] = [global[b] EXCEPT !.enabled = e]
  BY <1>4, <1>5
<1>8. SameBranches
  <2>1. next_decl_id' = next_decl_id
    BY <1>2 DEF copied
  <2> HIDE DEF h
  <2>2. global' = [b \in DOMAIN global |-> h[b]]
    BY <1>2, <1>6
  <2> QED
    BY <1>1, <1>7, <2>1, <2>2, EnabledOnly, Zenon
<1>9. UniqueDecls' /\ Mains' = Mains /\ DOMAIN global' = DOMAIN global
  BY <1>1, <1>8, UniqueKept, SameMains DEF SameBranches
<1>10. \A b \in Taken : Else(b) \notin Mains
  BY <1>1, MainsDistinct DEF Mains, TakesElse
<1>11. EnabledIsGreatest'
  <2>1. (on \cap Mains)' = on \cap Mains /\ on \subseteq on'
    BY <1>2, <1>9, <1>10
  <2>2. Consistent(on \cap Mains) /\ \A S \in SUBSET Mains : Consistent(S) => S \subseteq on
    BY <1>1 DEF EnabledIsGreatest, Settled
  <2>3. Consistent(on \cap Mains)'
    BY <1>2, <2>1, <2>2, SameConsistent
  <2>4. \A S \in SUBSET Mains' : Consistent(S)' => S \subseteq on'
    BY <1>2, <1>9, <2>1, <2>2, SameConsistent
  <2> QED
    BY <2>3, <2>4 DEF EnabledIsGreatest
<1>12. \A b \in DOMAIN global : global'[b].branch_list = global[b].branch_list
                               /\ global'[b].enabled = IF TakesElse(b) THEN Else(b) ELSE global[b].enabled
  BY <1>2, <1>5, <1>8 DEF SameBranches
<1> HIDE DEF h, G
<1>13. ASSUME NEW b \in DOMAIN global
       PROVE  /\ on' \cap List(b) = {global'[b].enabled} \ {0}
              /\ b > 1 /\ Len(global[b].branch_list) = 2 => global'[b].enabled # 0
  <2>1. /\ Main(b) \in List(b) /\ Main(b) \in Nat \ {0}
        /\ Len(global[b].branch_list) = 2 => Else(b) \in List(b) /\ Else(b) \in Nat \ {0}
        /\ \A x \in List(b) : x = Main(b) \/ (Len(global[b].branch_list) = 2 /\ x = Else(b))
    BY <1>3, SMTT(30) DEF ToSet, Main, Else
  <2>2. global[b].enabled = IF Main(b) \in on THEN Main(b) ELSE 0
    BY <1>1 DEF Flagged
  <2>3. \A c \in Taken : Else(c) # Main(b)
    BY <1>10 DEF Mains
  <2> DEFINE m == Main(b)
             o == Else(b)
             on1 == on'
  <2>4. Main(b) \in on' <=> Main(b) \in on
    BY <1>2, <2>3
  <2>5. Len(global[b].branch_list) = 2 => (Else(b) \in on' <=> b \in Taken)
    <3> SUFFICES ASSUME Len(global[b].branch_list) = 2 PROVE Else(b) \in on' <=> b \in Taken
      OBVIOUS
    <3>1. Else(b) \notin on
      <4>1. Len(global[b].branch_list) > 1
        OBVIOUS
      <4>2. \A c \in DOMAIN global : Else(b) # Main(c)
        BY <1>1, <4>1, MainsDistinct
      <4> QED
        BY <1>1, <4>2 DEF Mains
    <3>2. \A c \in Taken : Else(c) = Else(b) => c = b
      <4> TAKE c \in Taken
      <4>1. 2 \in DOMAIN global[c].branch_list /\ 2 \in DOMAIN global[b].branch_list
        BY <1>3, <1>4
      <4> QED
        BY <1>1, <4>1 DEF UniqueDecls, Else
    <3> QED
      BY <1>2, <3>1, <3>2
  <2>6. CASE TakesElse(b)
    <3>1. Len(global[b].branch_list) = 2 /\ global[b].enabled = 0 /\ b \in Taken
      <4>1. Len(global[b].branch_list) > 1 /\ global[b].enabled = 0
        BY <2>6 DEF TakesElse
      <4>2. Len(global[b].branch_list) \in 1 .. 2
        BY <1>3
      <4>3. b \in Taken
        BY <2>6
      <4>4. Len(global[b].branch_list) = 2
        <5> DEFINE n == Len(global[b].branch_list)
        <5>1. n \in 1 .. 2 /\ n > 1
          BY <4>1, <4>2
        <5> HIDE DEF n
        <5>2. n = 2
          BY <5>1
        <5> QED
          BY <5>2 DEF n
      <4> QED
        BY <4>1, <4>3, <4>4, Zenon
    <3>2. Main(b) \notin on' /\ Else(b) \in on' /\ global'[b].enabled = Else(b)
      <4>1. Main(b) \notin on
        BY <2>1, <2>2, <3>1
      <4>2. global'[b].enabled = Else(b)
        BY <1>12, <2>6
      <4>3. Else(b) \in on'
        BY <1>2, <3>1
      <4> QED
        BY <2>4, <4>1, <4>2, <4>3
    <3>3. \A x : x \in on1 \cap List(b) <=> x = o
      BY <2>1, <3>1, <3>2
    <3> QED
      BY <2>1, <3>1, <3>2, <3>3
  <2>7. CASE ~TakesElse(b)
    <3>1. /\ global'[b].enabled = global[b].enabled /\ b \notin Taken
          /\ b > 1 /\ Len(global[b].branch_list) = 2 => global[b].enabled # 0
      BY <1>12, <2>7, SMTT(30) DEF TakesElse
    <3>2. \A x \in on' \cap List(b) : x = Main(b)
      BY <2>1, <2>5, <3>1
    <3>3. on' \cap List(b) = IF m \in on THEN {m} ELSE {}
      BY <2>1, <2>4, <3>2
    <3>4. {global'[b].enabled} \ {0} = IF m \in on THEN {m} ELSE {}
      BY <2>1, <2>2, <3>1
    <3> QED
      BY <3>1, <3>3, <3>4
  <2> QED
    BY <2>6, <2>7
<1>14. OneBranch'
  BY <1>9, <1>12, <1>13 DEF OneBranch
<1>15. mods' \in Loads /\ at' \in [module : Nat \ {0}, block : Nat \ {0}]
  BY <1>1, <1>2 DEF copied
<1> QED
  BY <1>2, <1>9, <1>11, <1>14, <1>15 DEF IndInv, RefusalJustified

(* Role expansion and stuttering leave declarations and blocks alone. *)
LEMMA RolesStep ==
  ASSUME IndInv, UNCHANGED <<copied, global, on, at>>,
         \/ status \in {"populate", "roles"} /\ status' \in {"roles", "linked"}
         \/ UNCHANGED <<status, changed>>
  PROVE  IndInv'
<1>1. Mains' = Mains /\ DOMAIN global' = DOMAIN global /\ \A b \in DOMAIN global : Main(b)' = Main(b)
  BY DEF Mains, Main
<1>2. /\ mods' \in Loads
      /\ at' \in [module : Nat \ {0}, block : Nat \ {0}]
      /\ status' \in {"identifiers", "blocks", "scopes"} => on' = {}
      /\ status' \in {"blocks", "scopes"} => at'.module <= Len(mods')
      /\ UniqueDecls'
  BY DEF IndInv, copied, UniqueDecls
<1>3. status' = "else" => on' \subseteq Mains' /\ Flagged'
  BY <1>1 DEF IndInv, Flagged
<1>4. (on \cap Mains)' = on \cap Mains
  BY <1>1
<1>5. EnabledIsGreatest'
  <2> SUFFICES ASSUME Settled' PROVE Consistent(on \cap Mains)' /\ KeepsConsistent'
    BY DEF EnabledIsGreatest, KeepsConsistent
  <2>1. Consistent(on \cap Mains) /\ KeepsConsistent
    BY DEF IndInv, EnabledIsGreatest, Settled, KeepsConsistent
  <2>2. Consistent(on \cap Mains)'
    BY <1>4, <2>1, SameConsistent
  <2>3. KeepsConsistent'
    BY <1>1, <2>1, SameConsistent DEF KeepsConsistent
  <2> QED
    BY <2>2, <2>3
<1>6. RefusalJustified'
  <2> SUFFICES ASSUME status' = "missing" PROVE RefusalJustified'
    BY DEF RefusalJustified
  <2> QED
    BY <1>1, SameConsistent DEF IndInv, RefusalJustified
<1>7. OneBranch'
  BY DEF IndInv, OneBranch
<1>8. status' = "enabling" => Enabling'
  <2> SUFFICES ASSUME status' = "enabling" PROVE Enabling'
    OBVIOUS
  <2>1. Enabling /\ changed' = changed
    BY DEF IndInv
  <2>2. KeepsConsistent'
    BY <1>1, <2>1, SameConsistent DEF KeepsConsistent, Enabling
  <2>3. \A c \in DOMAIN global : Passed(c)' <=> Passed(c)
    BY <1>1, SameRequirements DEF Passed
  <2> QED
    BY <1>1, <2>1, <2>2, <2>3 DEF Enabling, Flagged
<1> QED
  BY <1>2, <1>3, <1>5, <1>6, <1>7, <1>8 DEF IndInv

LEMMA Initially == Init => IndInv
<1> SUFFICES ASSUME Init PROVE IndInv
  OBVIOUS
<1>1. UniqueDecls
  BY InitUnique
<1>2. mods \in Loads /\ on = {} /\ status = "identifiers" /\ at = [module |-> 1, block |-> 1]
  BY DEF Init
<1> QED
  BY <1>1, <1>2 DEF IndInv, Settled, EnabledIsGreatest, RefusalJustified, OneBranch

LEMMA Inductive == IndInv /\ [Next]_vars => IndInv'
<1> SUFFICES ASSUME IndInv, [Next]_vars PROVE IndInv'
  OBVIOUS
<1>1. CASE Copy
  BY <1>1, CopyStep
<1>2. CASE Enable
  BY <1>2, StartStep, KeepStep, DisableStep, MissingStep, RoundStep, ElseStep DEF Enable
<1>3. CASE ExpandRoles
  <2>1. UNCHANGED <<copied, global, on, at>>
    BY <1>3 DEF ExpandRoles, populate_roleattributes, NextAttribute, Escalate, AttributeDone, Finish
  <2>2. status \in {"populate", "roles"} /\ status' \in {"roles", "linked"}
    BY <1>3 DEF ExpandRoles, populate_roleattributes, NextAttribute, Escalate, AttributeDone, Finish
  <2> QED
    BY <2>1, <2>2, RolesStep
<1>4. CASE UNCHANGED vars
  BY <1>4, RolesStep DEF vars, copied
<1> QED
  BY <1>1, <1>2, <1>3, <1>4 DEF Next

LEMMA IndInvHolds == Spec => []IndInv
BY Initially, Inductive, PTL DEF Spec

(* enable_avrules keeps the greatest consistent set of blocks, whatever the
   base, the modules, the order of the blocks and the dependencies between
   them, circular ones included: the claim of its comment. *)
THEOREM GreatestEnabled == Spec => []EnabledIsGreatest
<1>1. IndInv => EnabledIsGreatest
  BY DEF IndInv
<1> QED
  BY <1>1, IndInvHolds, PTL

(* If link_modules refuses to link because of a missing requirement, no choice
   of optional blocks would have linked. *)
THEOREM RefusalsJustified == Spec => []RefusalJustified
<1>1. IndInv => RefusalJustified
  BY DEF IndInv
<1> QED
  BY <1>1, IndInvHolds, PTL

(* After the else handling each block has exactly the branch in force that its
   enabled field names, and a block with an else branch has one. *)
THEOREM OneBranchInForce == Spec => []OneBranch
<1>1. IndInv => OneBranch
  BY DEF IndInv
<1> QED
  BY <1>1, IndInvHolds, PTL

-----------------------------------------------------------------------------
(* The modules of a load are numbered from 1. *)
LEMMA LoadDomain ==
  ASSUME mods \in Loads
  PROVE  Len(mods) \in Nat /\ DOMAIN mods = 1 .. Len(mods)
BY LoadsAssumption

(* copy_identifiers: whoever agreed before still does, and the module whose
   identifiers are copied agrees. *)
LEMMA IdentifiersAgree ==
  ASSUME copy_identifiers, NEW m \in DOMAIN mods, Agrees(m) \/ m = at.module
  PROVE  Agrees(m)'
<1> SUFFICES ASSUME NEW id \in Ids
             PROVE  /\ mods[m].flavor[id] # NoFlavor /\ Kind[id] \in {"type", "role", "bool"} =>
                          mods[m].flavor[id] = flavor'[id]
                    /\ mods[m].bounds[id] # NoId => mods[m].bounds[id] = bounds'[id]
  BY DEF Agrees, copy_identifiers
<1>1. /\ flavor'[id] = IF flavor[id] # NoFlavor THEN flavor[id] ELSE Module.flavor[id]
      /\ bounds'[id] = IF Module.bounds[id] # NoId THEN Module.bounds[id] ELSE bounds[id]
      /\ Acceptable(id) /\ SameBounds(id)
  BY DEF copy_identifiers, Present
<1>2. CASE Agrees(m)
  <2>1. mods[m].bounds[id] # NoId => mods[m].bounds[id] = bounds'[id]
    BY <1>1, <1>2 DEF Agrees, SameBounds
  <2> QED
    BY <1>1, <1>2, <2>1 DEF Agrees
<1>3. CASE m = at.module
  <2>1. Module = mods[m]
    BY <1>3 DEF Module
  <2>2. mods[m].bounds[id] # NoId => mods[m].bounds[id] = bounds'[id]
    BY <1>1, <2>1
  <2>3. mods[m].flavor[id] # NoFlavor /\ Kind[id] \in {"type", "role", "bool"} /\ Present(id) =>
           flavor[id] = mods[m].flavor[id]
    BY <1>1, <2>1 DEF Acceptable
  <2> QED
    BY <1>1, <2>1, <2>2, <2>3 DEF Present
<1> QED
  BY <1>2, <1>3

LEMMA AgreeInitially == Init => AgreeInv
<1> SUFFICES ASSUME Init PROVE AgreeInv
  OBVIOUS
<1>1. mods \in Loads /\ status = "identifiers" /\ at = [module |-> 1, block |-> 1]
  BY DEF Init
<1>2. \A m \in DOMAIN mods : ~(m < at.module)
  BY <1>1, LoadDomain
<1> QED
  BY <1>1, <1>2 DEF AgreeInv

(* Only copy_identifiers touches what the modules have to agree on. *)
LEMMA AgreeKept ==
  ASSUME AgreeInv, UNCHANGED <<mods, flavor, bounds>>,
         at' \in [module : Nat \ {0}, block : Nat \ {0}],
         status' \notin {"identifiers", "blocks", "scopes", "failed"} => at'.module > Len(mods),
         \A m \in DOMAIN mods :
            m < at'.module \/ (m = at'.module /\ status' \in {"blocks", "scopes"}) =>
            m < at.module \/ (m = at.module /\ status \in {"blocks", "scopes"})
  PROVE  AgreeInv'
<1>1. \A m : Agrees(m)' <=> Agrees(m)
  BY DEF Agrees
<1>2. \A m \in DOMAIN mods :
          m < at'.module \/ (m = at'.module /\ status' \in {"blocks", "scopes"}) => Agrees(m)
  BY DEF AgreeInv
<1> QED
  BY <1>1, <1>2 DEF AgreeInv

LEMMA AgreeInductive == AgreeInv /\ [Next]_vars => AgreeInv'
<1> SUFFICES ASSUME AgreeInv, [Next]_vars PROVE AgreeInv'
  OBVIOUS
<1>1. /\ mods \in Loads /\ at \in [module : Nat \ {0}, block : Nat \ {0}]
      /\ Len(mods) \in Nat /\ DOMAIN mods = 1 .. Len(mods)
      /\ status \notin {"identifiers", "blocks", "scopes", "failed"} => at.module > Len(mods)
  BY LoadDomain DEF AgreeInv
<1>2. CASE copy_identifiers
  <2>1. mods' = mods /\ at' = at /\ status' = "blocks"
    BY <1>2 DEF copy_identifiers
  <2>2. \A m \in DOMAIN mods : m < at.module \/ m = at.module => Agrees(m)'
    BY <1>2, IdentifiersAgree DEF AgreeInv
  <2> QED
    BY <1>1, <2>1, <2>2 DEF AgreeInv
<1>3. CASE scope_copy
  <2>1. /\ mods' = mods /\ flavor' = flavor /\ bounds' = bounds /\ status = "scopes"
        /\ status' = "identifiers" /\ at' = [module |-> at.module + 1, block |-> 1]
    BY <1>3 DEF scope_copy, symbols
  <2> QED
    BY <1>1, <2>1, AgreeKept
<1>4. CASE copy_avrule_block
  <2>1. /\ mods' = mods /\ flavor' = flavor /\ bounds' = bounds
        /\ status' = status /\ at' = [at EXCEPT !.block = @ + 1]
    BY <1>4 DEF copy_avrule_block, symbols
  <2> QED
    BY <1>1, <2>1, AgreeKept
<1>5. CASE StartEnabling
  <2>1. /\ mods' = mods /\ flavor' = flavor /\ bounds' = bounds /\ at.module > Len(mods)
        /\ status' = "enabling" /\ at' = [at EXCEPT !.block = 1]
    BY <1>5 DEF StartEnabling, copied
  <2> QED
    BY <1>1, <2>1, AgreeKept
<1>6. CASE BlocksCopied
  <2>1. /\ mods' = mods /\ flavor' = flavor /\ bounds' = bounds /\ status = "blocks"
        /\ status' = "scopes" /\ at' = at
    BY <1>6 DEF BlocksCopied, copied
  <2> QED
    BY <1>1, <2>1, AgreeKept
<1>7. CASE IdentifiersRefused \/ ScopesRefused
  <2>1. /\ mods' = mods /\ flavor' = flavor /\ bounds' = bounds
        /\ status' = "failed" /\ at' = at
    BY <1>7 DEF IdentifiersRefused, ScopesRefused, Fail, copied
  <2> QED
    BY <1>1, <2>1, AgreeKept
<1>8. CASE KeepBlock \/ DisableBlock \/ RequirementMissing \/ NextRound \/ EnableElse
  <2>1. /\ mods' = mods /\ flavor' = flavor /\ bounds' = bounds
        /\ status \in {"enabling", "else"} /\ status' \in {"enabling", "else", "missing", "populate"}
        /\ at' \in {at, [at EXCEPT !.block = @ + 1], [at EXCEPT !.block = 1]}
    BY <1>8 DEF KeepBlock, DisableBlock, RequirementMissing, NextRound, EnableElse, AtBlock, NextBlock, copied
  <2>2. at'.module = at.module /\ at' \in [module : Nat \ {0}, block : Nat \ {0}]
    BY <1>1, <2>1
  <2> QED
    BY <1>1, <2>1, <2>2, AgreeKept
<1>9. CASE ExpandRoles
  <2>1. /\ mods' = mods /\ flavor' = flavor /\ bounds' = bounds /\ at' = at
        /\ status \in {"populate", "roles"} /\ status' \in {"roles", "linked"}
    BY <1>9 DEF ExpandRoles, populate_roleattributes, NextAttribute, Escalate, AttributeDone, Finish, copied
  <2> QED
    BY <1>1, <2>1, AgreeKept
<1>10. CASE UNCHANGED vars
  BY <1>1, <1>10, AgreeKept DEF vars
<1> QED
  BY <1>2, <1>3, <1>4, <1>5, <1>6, <1>7, <1>8, <1>9, <1>10 DEF Next, Copy, Enable

(* The base and every linked module agree on the flavor and the bounds of each
   symbol, for every sequence of modules: the copy and bounds callbacks compare
   a module with what the earlier ones left in the base, and nothing later
   undoes what they compared with. *)
THEOREM LinkedSymbolsAgree == Spec => []SymbolsAgree
<1>1. AgreeInv => SymbolsAgree
  <2> SUFFICES ASSUME AgreeInv, Settled, NEW m \in DOMAIN mods PROVE Agrees(m)
    BY DEF SymbolsAgree
  <2>1. at.module > Len(mods) /\ at.module \in Nat /\ m \in 1 .. Len(mods) /\ Len(mods) \in Nat
    BY LoadDomain DEF AgreeInv, Settled
  <2>2. m < at.module
    BY <2>1
  <2> QED
    BY <2>2 DEF AgreeInv
<1> QED
  BY <1>1, AgreeInitially, AgreeInductive, PTL DEF Spec

-----------------------------------------------------------------------------
(* The module being copied is one of the load. *)
LEMMA CurrentModule ==
  ASSUME IndInv, status \in {"blocks", "scopes"}
  PROVE  /\ WellFormedPolicy(Module)
         /\ Module \in Policies
         /\ \A id \in Ids : ScopeNamesDeclarer(Module, id)
<1>1. mods \in Loads /\ at.module \in DOMAIN mods
  BY LoadDomain DEF IndInv
<1>2. WellFormedPolicy(Module)
  BY <1>1, LoadsAssumption DEF Module
<1>3. Module \in ToSet(mods)
  BY <1>1 DEF Module, ToSet
<1>4. Module \in Policies
  BY <1>1, <1>3 DEF Policies
<1> QED
  BY <1>2, <1>4, ScopesAssumption

(* What DeclInv says beside IndInv. *)
DeclParts ==
    /\ \A i \in DOMAIN decls : i \in Nat \ {0} /\ i < next_decl_id /\ decls[i] \in DeclType
    /\ Mains \subseteq DOMAIN decls
    /\ scope \in [Ids -> ScopeType]
    /\ status = "identifiers" => at.block = 1
    /\ status = "scopes" => at.block > Len(Module.blocks)
    /\ ScopesNameDeclarers
    /\ MapLeadsToCopies

LEMMA DeclSplit == DeclInv <=> IndInv /\ DeclParts
BY DEF DeclInv, DeclParts

LEMMA DeclInitially == Init => DeclInv
<1> SUFFICES ASSUME Init PROVE DeclParts
  BY Initially, DeclSplit
<1>0. /\ scope = Base.scope /\ decls = DeclsOf(Base.blocks) /\ status = "identifiers" /\ at.block = 1
      /\ global = [b \in DOMAIN Base.blocks |-> BlockOf(Base.blocks[b])]
  BY DEF Init
<1>1. WellFormedPolicy(Base) /\ Base \in Policies
  BY BaseAssumption DEF Policies
<1>2. DOMAIN decls = DeclIdsOf(Base.blocks)
  BY <1>0 DEF DeclsOf
<1>3. \A i \in DOMAIN decls : i \in Nat \ {0} /\ i < next_decl_id /\ decls[i] \in DeclType
  BY <1>0, <1>1, <1>2, BaseIds, SourceDecls
<1>4. scope \in [Ids -> ScopeType]
  BY <1>0, <1>1 DEF WellFormedPolicy
<1>5. Mains \subseteq DOMAIN decls
  <2> SUFFICES ASSUME NEW b \in DOMAIN global PROVE Main(b) \in DOMAIN decls
    BY DEF Mains
  <2>1. b \in DOMAIN Base.blocks /\ global[b] = BlockOf(Base.blocks[b])
    BY <1>0
  <2>2. 1 \in DOMAIN Base.blocks[b].branch_list
    <3>1. Base.blocks \in Seq(SourceBlock) /\ Len(Base.blocks[b].branch_list) \in 1 .. 2
      BY <1>1, <2>1 DEF WellFormedPolicy
    <3>2. Base.blocks[b] \in SourceBlock
      BY <2>1, <3>1
    <3>3. Base.blocks[b].branch_list \in Seq(DeclType)
      BY <3>2 DEF SourceBlock
    <3> QED
      BY <3>1, <3>3
  <2>3. Main(b) = Base.blocks[b].branch_list[1].id
    BY <2>1, <2>2 DEF Main, BlockOf
  <2> QED
    BY <1>1, <1>2, <2>1, <2>2, <2>3, SourceDecls
<1>6. ScopesNameDeclarers
  <2> SUFFICES ASSUME NEW id \in Ids, scope[id].scope = "decl"
               PROVE  /\ scope[id].decl_ids # <<>>
                      /\ DeclaredBy(Last(scope[id].decl_ids), id)
                      /\ DeclaredOnly(id) => \A i \in DOMAIN scope[id].decl_ids :
                                                DeclaredBy(scope[id].decl_ids[i], id)
    BY DEF ScopesNameDeclarers
  <2>1. ScopeNamesDeclarer(Base, id)
    BY <1>1, ScopesAssumption
  <2>2. /\ \A x \in ToSet(scope[id].decl_ids) : x \in DOMAIN decls
        /\ scope[id].decl_ids # <<>>
        /\ id \in decls[Last(scope[id].decl_ids)].declared
    BY <1>0, <1>2, <2>1 DEF ScopeNamesDeclarer
  <2>3. scope[id].decl_ids \in Seq(Nat \ {0})
    BY <1>4 DEF ScopeType
  <2>4. Last(scope[id].decl_ids) \in ToSet(scope[id].decl_ids)
    <3> DEFINE q == scope[id].decl_ids
    <3>1. Len(q) \in DOMAIN q
      BY <2>2, <2>3
    <3> QED
      BY <3>1 DEF Last, ToSet
  <2>5. \A i \in DOMAIN scope[id].decl_ids : scope[id].decl_ids[i] \in DOMAIN decls
    BY <2>2 DEF ToSet
  <2>6. DeclaredOnly(id) => \A i \in DOMAIN scope[id].decl_ids :
                               id \in decls[scope[id].decl_ids[i]].declared
    BY <1>0, <1>1 DEF DeclaredOnly
  <2> QED
    BY <2>2, <2>4, <2>5, <2>6 DEF DeclaredBy
<1> QED
  BY <1>0, <1>3, <1>4, <1>5, <1>6 DEF DeclParts, MapLeadsToCopies

(* A step that copies nothing keeps the declarations, the scopes and the map. *)
LEMMA DeclKept ==
  ASSUME DeclParts, UNCHANGED <<copied>>, Mains' = Mains, at'.module = at.module,
         status' = "identifiers" => at'.block = 1,
         status' = "scopes" => at'.block > Len(Module.blocks),
         status' \in {"blocks", "scopes"} => status \in {"blocks", "scopes"} /\ at' = at
  PROVE  DeclParts'
<1>1. /\ decls' = decls /\ scope' = scope /\ avdecl_map' = avdecl_map /\ mods' = mods
      /\ next_decl_id' = next_decl_id /\ Module' = Module
  BY DEF copied, Module
<1>2. \A d, id : DeclaredBy(d, id)' <=> DeclaredBy(d, id)
  BY <1>1 DEF DeclaredBy
<1>3. ScopesNameDeclarers'
  BY <1>1, <1>2 DEF DeclParts, ScopesNameDeclarers
<1>4. MapLeadsToCopies'
  <2>1. CASE status' \in {"blocks", "scopes"}
    <3>1. at'.block = at.block /\ MapLeadsToCopies /\ status \in {"blocks", "scopes"}
      BY <2>1 DEF DeclParts
    <3> QED
      BY <1>1, <3>1 DEF MapLeadsToCopies
  <2>2. CASE status' \notin {"blocks", "scopes"}
    BY <2>2 DEF MapLeadsToCopies
  <2> QED
    BY <2>1, <2>2
<1> QED
  BY <1>1, <1>3, <1>4 DEF DeclParts

(* copy_avrule_block: the map is extended by the declarations of the block,
   and each leads to its copy. *)
LEMMA DeclBlock ==
  ASSUME IndInv, DeclParts, copy_avrule_block
  PROVE  DeclParts'
<1> DEFINE block == Module.blocks[at.block]
           list == block.branch_list
           count == Len(list)
           N(d) == Mapped(next_decl_id, d)
           Fresh == {N(d) : d \in 1 .. count}
           Ids0 == {list[d].id : d \in 1 .. count}
           Of(b) == {Module.blocks[b].branch_list[d].id : d \in DOMAIN Module.blocks[b].branch_list}
           Before(k) == UNION {Of(b) : b \in {c \in DOMAIN Module.blocks : c < k}}
<1>0. /\ at.block \in Nat \ {0} /\ at.block <= Len(Module.blocks) /\ status = "blocks"
      /\ next_decl_id \in Nat \ {0} /\ at \in [module : Nat \ {0}, block : Nat \ {0}]
  BY DEF IndInv, UniqueDecls, copy_avrule_block
<1>1. WellFormedPolicy(Module)
  BY <1>0, CurrentModule
<1>2. /\ at.block \in DOMAIN Module.blocks /\ count \in 1 .. 2 /\ DOMAIN list = 1 .. count
      /\ DOMAIN Module.blocks \subseteq Nat
  <2>1. Module.blocks \in Seq(SourceBlock)
    BY <1>1 DEF WellFormedPolicy
  <2>2. at.block \in DOMAIN Module.blocks /\ DOMAIN Module.blocks \subseteq Nat
    BY <1>0, <2>1
  <2>3. block \in SourceBlock /\ count \in 1 .. 2
    BY <1>1, <2>1, <2>2 DEF WellFormedPolicy
  <2>4. list \in Seq(DeclType)
    BY <2>3 DEF SourceBlock
  <2> QED
    BY <2>2, <2>3, <2>4
<1>3. /\ decls' = [i \in DOMAIN decls \cup Fresh |->
                      IF i \in DOMAIN decls THEN decls[i] ELSE list[i - next_decl_id + 1]]
      /\ avdecl_map' = [i \in DOMAIN avdecl_map \cup Ids0 |->
                           IF i \in DOMAIN avdecl_map THEN avdecl_map[i]
                           ELSE N(CHOOSE d \in 1 .. count : list[d].id = i)]
      /\ next_decl_id' = next_decl_id + count
      /\ scope' = scope /\ mods' = mods /\ status' = status
      /\ at' = [at EXCEPT !.block = @ + 1]
  BY DEF copy_avrule_block
<1>4. Module' = Module /\ at'.block = at.block + 1
  BY <1>0, <1>3 DEF Module
<1>5. \A d \in 1 .. count : /\ list[d] \in DeclType
                            /\ list[d].id \in DeclIdsOf(Module.blocks)
                            /\ DeclsOf(Module.blocks)[list[d].id] = list[d]
  BY <1>1, <1>2, SourceDecls
<1>6. \A d \in 1 .. count : N(d) \in Nat \ {0} /\ N(d) >= next_decl_id /\ N(d) < next_decl_id + count
                             /\ N(d) - next_decl_id + 1 = d
  BY <1>0, <1>2 DEF Mapped
<1> HIDE DEF block, list, count, N
<1>7. \A i \in DOMAIN decls : i \in Nat \ {0} /\ i < next_decl_id /\ decls[i] \in DeclType
  BY DEF DeclParts
<1>8. /\ DOMAIN decls' = DOMAIN decls \cup Fresh
      /\ \A i \in DOMAIN decls : decls'[i] = decls[i]
      /\ \A d \in 1 .. count : N(d) \in DOMAIN decls' /\ decls'[N(d)] = list[d]
  <2>1. DOMAIN decls' = DOMAIN decls \cup Fresh
    BY <1>3
  <2>2. \A i \in DOMAIN decls : decls'[i] = decls[i]
    BY <1>3
  <2>3. ASSUME NEW d \in 1 .. count PROVE N(d) \in DOMAIN decls' /\ decls'[N(d)] = list[d]
    <3>1. N(d) \in Fresh
      OBVIOUS
    <3>2. N(d) \notin DOMAIN decls
      <4>1. N(d) \in Nat /\ N(d) >= next_decl_id
        BY <1>6
      <4> QED
        BY <4>1, <1>0, <1>7
    <3>3. decls'[N(d)] = list[N(d) - next_decl_id + 1]
      BY <1>3, <3>1, <3>2
    <3> QED
      BY <1>6, <2>1, <3>1, <3>3
  <2> QED
    BY <2>1, <2>2, <2>3
<1>9. \A i \in DOMAIN decls' : i \in Nat \ {0} /\ i < next_decl_id' /\ decls'[i] \in DeclType
  <2> TAKE i \in DOMAIN decls'
  <2>1. CASE i \in DOMAIN decls
    <3>1. i \in Nat \ {0} /\ i < next_decl_id /\ decls'[i] \in DeclType
      BY <1>7, <1>8, <2>1
    <3>2. count \in Nat /\ next_decl_id \in Nat
      BY <1>0, <1>2
    <3> QED
      BY <1>3, <3>1, <3>2
  <2>2. CASE i \in Fresh
    <3>1. PICK d \in 1 .. count : i = N(d)
      BY <2>2
    <3> QED
      BY <1>3, <1>5, <1>6, <1>8, <3>1
  <2> QED
    BY <1>8, <2>1, <2>2
<1>10. Mains' \subseteq DOMAIN decls'
  <2> DEFINE nb == [optional |-> block.optional, enabled |-> 0, branch_list |-> [d \in 1 .. count |-> N(d)]]
  <2>1. global' = Append(global, nb)
    BY DEF copy_avrule_block, block, list, count, N
  <2>2. global \in Seq(BlockType)
    BY DEF IndInv, UniqueDecls
  <2>3. nb.branch_list[1] = N(1) /\ 1 \in 1 .. count
    BY <1>2
  <2> HIDE DEF nb
  <2>4. \A b \in DOMAIN global' : (b \in DOMAIN global /\ global'[b] = global[b]) \/ global'[b] = nb
    BY <2>1, <2>2
  <2>5. Mains \subseteq DOMAIN decls
    BY DEF DeclParts
  <2>6. \A b \in DOMAIN global' : Main(b)' \in Mains \/ Main(b)' = N(1)
    BY <2>3, <2>4 DEF Main, Mains
  <2>7. Mains' = {Main(b)' : b \in DOMAIN global'}
    BY DEF Mains
  <2> QED
    BY <1>8, <2>3, <2>5, <2>6, <2>7
<1>11. ScopesNameDeclarers'
  <2>1. \A d, id : DeclaredBy(d, id) => DeclaredBy(d, id)'
    BY <1>8 DEF DeclaredBy
  <2> QED
    BY <1>3, <2>1 DEF DeclParts, ScopesNameDeclarers
<1>12. DOMAIN avdecl_map' = Before(at.block + 1)
  <2>1. DOMAIN avdecl_map = Before(at.block)
    BY <1>0 DEF DeclParts, MapLeadsToCopies
  <2>2. \A c \in DOMAIN Module.blocks : c < at.block + 1 <=> c < at.block \/ c = at.block
    BY <1>0, <1>2
  <2>3. Ids0 = {Module.blocks[at.block].branch_list[d].id : d \in DOMAIN Module.blocks[at.block].branch_list}
    BY <1>2 DEF list, block
  <2>4. Before(at.block + 1) = Before(at.block) \cup Ids0
    <3>0. Ids0 = Of(at.block)
      BY <2>3
    <3> HIDE DEF Ids0, Of
    <3>1. \A k, x : x \in Before(k) <=> \E c \in DOMAIN Module.blocks : c < k /\ x \in Of(c)
      OBVIOUS
    <3> HIDE DEF Before
    <3>2. \A x : x \in Before(at.block + 1) <=> x \in Before(at.block) \/ x \in Of(at.block)
      BY <1>2, <2>2, <3>1
    <3> QED
      BY <3>0, <3>2
  <2>5. DOMAIN avdecl_map' = DOMAIN avdecl_map \cup Ids0
    BY <1>3
  <2> QED
    BY <2>1, <2>4, <2>5
<1>13. ASSUME NEW i \in DOMAIN avdecl_map'
       PROVE  avdecl_map'[i] \in DOMAIN decls' /\ decls'[avdecl_map'[i]] = DeclsOf(Module.blocks)[i]
  <2>1. CASE i \in DOMAIN avdecl_map
    <3>1. avdecl_map'[i] = avdecl_map[i]
      BY <1>3, <2>1
    <3>2. avdecl_map[i] \in DOMAIN decls /\ decls[avdecl_map[i]] = DeclsOf(Module.blocks)[i]
      BY <1>0, <2>1 DEF DeclParts, MapLeadsToCopies
    <3> QED
      BY <1>8, <3>1, <3>2
  <2>2. CASE i \notin DOMAIN avdecl_map
    <3> DEFINE d0 == CHOOSE d \in 1 .. count : list[d].id = i
    <3>1. i \in Ids0 /\ avdecl_map'[i] = N(d0)
      BY <1>3, <2>2
    <3>2. d0 \in 1 .. count /\ list[d0].id = i
      BY <3>1
    <3> HIDE DEF d0
    <3> QED
      BY <1>5, <1>8, <3>1, <3>2
  <2> QED
    BY <2>1, <2>2
<1>14. MapLeadsToCopies'
  <2>1. DOMAIN avdecl_map' = UNION {{Module'.blocks[b].branch_list[d].id :
                                         d \in DOMAIN Module'.blocks[b].branch_list}
                                    : b \in {c \in DOMAIN Module'.blocks : c < at'.block}}
    <3> DEFINE B(m, k) == UNION {{m.blocks[b].branch_list[d].id : d \in DOMAIN m.blocks[b].branch_list}
                                    : b \in {c \in DOMAIN m.blocks : c < k}}
    <3>1. DOMAIN avdecl_map' = B(Module, at.block + 1)
      BY <1>12
    <3>2. DOMAIN avdecl_map' = B(Module', at'.block)
      <4> HIDE DEF B
      <4> QED
        BY <1>4, <3>1
    <3> QED
      BY <3>2
  <2>2. \A i \in DOMAIN avdecl_map' : /\ avdecl_map'[i] \in DOMAIN decls'
                                     /\ decls'[avdecl_map'[i]] = DeclsOf(Module'.blocks)[i]
    BY <1>4, <1>13, Zenon
  <2> QED
    BY <2>1, <2>2, Zenon DEF MapLeadsToCopies
<1> QED
  BY <1>0, <1>3, <1>9, <1>10, <1>11, <1>14 DEF DeclParts

(* scope_copy_callback: whichever list wins, the base's or the renumbered one
   of the module, it still names declarations that declare the symbol. *)
LEMMA DeclScopes ==
  ASSUME IndInv, DeclParts, scope_copy
  PROVE  DeclParts'
<1>0. /\ status = "scopes" /\ status' = "identifiers"
      /\ at' = [module |-> at.module + 1, block |-> 1]
      /\ decls' = decls /\ next_decl_id' = next_decl_id /\ global' = global
      /\ scope' = [id \in Ids |-> MergedScope(scope[id], Module.scope[id], avdecl_map)]
  BY DEF scope_copy
<1>1. WellFormedPolicy(Module) /\ Module \in Policies /\ \A id \in Ids : ScopeNamesDeclarer(Module, id)
  BY <1>0, CurrentModule
<1>2. DOMAIN avdecl_map = DeclIdsOf(Module.blocks)
  <2>1. Module.blocks \in Seq(SourceBlock)
    BY <1>1 DEF WellFormedPolicy
  <2>2. {c \in DOMAIN Module.blocks : c < at.block} = DOMAIN Module.blocks
    <3>1. at.block > Len(Module.blocks) /\ at.block \in Nat
      BY <1>0 DEF DeclParts, IndInv
    <3>2. \A c \in DOMAIN Module.blocks : c < at.block
      BY <2>1, <3>1
    <3> QED
      BY <3>2
  <2>3. MapLeadsToCopies
    BY DEF DeclParts
  <2> QED
    BY <1>0, <2>2, <2>3 DEF MapLeadsToCopies, DeclIdsOf
<1>3. \A i \in DeclIdsOf(Module.blocks) :
        avdecl_map[i] \in DOMAIN decls /\ decls[avdecl_map[i]] = DeclsOf(Module.blocks)[i]
  BY <1>0, <1>2 DEF DeclParts, MapLeadsToCopies
<1>4. ASSUME NEW id \in Ids
      PROVE  /\ scope'[id] \in ScopeType
             /\ scope'[id].scope = "decl" =>
                   /\ scope'[id].decl_ids # <<>>
                   /\ DeclaredBy(Last(scope'[id].decl_ids), id)
                   /\ Multiple(id) /\ DeclaredOnly(id) => \A i \in DOMAIN scope'[id].decl_ids :
                                                             DeclaredBy(scope'[id].decl_ids[i], id)
  <2> DEFINE bs == scope[id]
             ms == Module.scope[id]
             bq == bs.decl_ids
             mq == ms.decl_ids
             q == [i \in DOMAIN mq |-> avdecl_map[mq[i]]]
             Names(l) == /\ l # <<>>
                         /\ DeclaredBy(Last(l), id)
                         /\ Multiple(id) /\ DeclaredOnly(id) => \A i \in DOMAIN l : DeclaredBy(l[i], id)
  <2>1. bs \in ScopeType /\ ms \in ScopeType
    BY <1>1 DEF DeclParts, WellFormedPolicy
  <2>2. bq \in Seq(Nat \ {0}) /\ mq \in Seq(Nat \ {0}) /\ bs.scope \in Scopes /\ ms.scope \in Scopes
    BY <2>1 DEF ScopeType
  <2>3. bs.scope = "decl" => Names(bq)
    BY DEF DeclParts, ScopesNameDeclarers
  <2>4. \A i \in DOMAIN mq : /\ mq[i] \in DeclIdsOf(Module.blocks)
                             /\ avdecl_map[mq[i]] \in DOMAIN decls
                             /\ decls[avdecl_map[mq[i]]] = DeclsOf(Module.blocks)[mq[i]]
    <3>1. ToSet(mq) \subseteq DeclIdsOf(Module.blocks)
      BY <1>1 DEF ScopeNamesDeclarer
    <3> QED
      BY <1>3, <3>1 DEF ToSet
  <2>5. /\ q \in Seq(Nat \ {0}) /\ Len(q) = Len(mq) /\ DOMAIN q = DOMAIN mq
        /\ \A i \in DOMAIN q : q[i] = avdecl_map[mq[i]] /\ q[i] \in DOMAIN decls
                                /\ decls[q[i]] = DeclsOf(Module.blocks)[mq[i]]
    <3> DEFINE n == Len(mq)
    <3>1. n \in Nat /\ DOMAIN mq = 1 .. n
      BY <2>2
    <3>2. \A i \in 1 .. n : avdecl_map[mq[i]] \in Nat \ {0}
      BY <2>4, <3>1 DEF DeclParts
    <3>3. q = [i \in 1 .. n |-> avdecl_map[mq[i]]]
      BY <3>1
    <3> HIDE DEF n, mq
    <3>4. q \in Seq(Nat \ {0}) /\ Len(q) = n /\ DOMAIN q = 1 .. n
      BY <3>1, <3>2, <3>3
    <3> QED
      BY <2>4, <3>1, <3>3, <3>4 DEF n
  <2>6. ms.scope = "decl" => Names(q)
    <3> SUFFICES ASSUME ms.scope = "decl" PROVE Names(q)
      OBVIOUS
    <3>1. mq # <<>> /\ id \in DeclsOf(Module.blocks)[Last(mq)].declared
      BY <1>1 DEF ScopeNamesDeclarer
    <3>2. Len(mq) \in DOMAIN mq /\ Last(mq) = mq[Len(mq)]
      BY <2>2, <3>1 DEF Last
    <3>3. q # <<>> /\ Last(q) = q[Len(mq)] /\ DeclaredBy(Last(q), id)
      <4>1. q # <<>> /\ Last(q) = q[Len(mq)]
        <5> HIDE DEF q, mq
        <5>1. Len(mq) \in DOMAIN q /\ Len(q) = Len(mq)
          BY <2>5, <3>2
        <5>2. q # <<>>
          BY <5>1
        <5> QED
          BY <5>1, <5>2 DEF Last
      <4>2. decls[q[Len(mq)]] = DeclsOf(Module.blocks)[Last(mq)] /\ q[Len(mq)] \in DOMAIN decls
        BY <2>5, <3>2
      <4> HIDE DEF q, mq
      <4> QED
        BY <3>1, <4>1, <4>2 DEF DeclaredBy
    <3>4. DeclaredOnly(id) => \A i \in DOMAIN mq : id \in DeclsOf(Module.blocks)[mq[i]].declared
      BY <1>1 DEF DeclaredOnly
    <3>5. DeclaredOnly(id) => \A i \in DOMAIN q : DeclaredBy(q[i], id)
      <4> HIDE DEF q, mq
      <4> QED
        BY <2>5, <3>4 DEF DeclaredBy
    <3> QED
      BY <3>3, <3>5
  <2>7. scope'[id] = MergedScope(bs, ms, avdecl_map)
    BY <1>0
  <2> DEFINE joined == [scope |-> IF bs.scope = "none" THEN "req" ELSE bs.scope, decl_ids |-> bq \o q]
  <2>8. scope'[id] = IF ms.scope = "none" \/ (bs.scope = "decl" /\ ms.scope = "req") THEN bs
                     ELSE IF bs.scope # "decl" /\ ms.scope = "decl"
                     THEN [scope |-> "decl", decl_ids |-> q]
                     ELSE joined
    BY <2>7 DEF MergedScope
  <2> HIDE DEF bs, ms, q, mq, bq
  <2>9. CASE scope'[id] = bs
    <3> QED
      BY <2>1, <2>3, <2>9 DEF bq
  <2>10. CASE scope'[id] = [scope |-> "decl", decl_ids |-> q] /\ ms.scope = "decl"
    <3>1. scope'[id].decl_ids = q /\ scope'[id].scope = "decl"
      BY <2>10
    <3>2. scope'[id] \in ScopeType
      BY <2>5, <2>10 DEF ScopeType, Scopes
    <3> QED
      BY <2>6, <2>10, <3>1, <3>2
  <2>11. CASE scope'[id] = joined /\ ms.scope # "none" /\ (bs.scope = "decl" => ms.scope # "req")
              /\ (bs.scope # "decl" => ms.scope # "decl")
    <3>0. bq \o q \in Seq(Nat \ {0}) /\ Len(bq \o q) = Len(bq) + Len(q)
          /\ \A i \in 1 .. Len(bq) + Len(q) :
                (bq \o q)[i] = IF i <= Len(bq) THEN bq[i] ELSE q[i - Len(bq)]
      <4> DEFINE S == Nat \ {0}
      <4>1. bq \in Seq(S) /\ q \in Seq(S)
        BY <2>2, <2>5
      <4> HIDE DEF S
      <4>2. /\ bq \o q \in Seq(S) /\ Len(bq \o q) = Len(bq) + Len(q)
            /\ \A i \in 1 .. Len(bq) + Len(q) :
                (bq \o q)[i] = IF i <= Len(bq) THEN bq[i] ELSE q[i - Len(bq)]
        BY <4>1, ConcatProperties
      <4> QED
        BY <4>2 DEF S
    <3>1. scope'[id].decl_ids = bq \o q
          /\ scope'[id].scope = IF bs.scope = "none" THEN "req" ELSE bs.scope
      BY <2>11
    <3>2. scope'[id] \in ScopeType
      BY <2>2, <2>11, <3>0 DEF ScopeType, Scopes
    <3>3. CASE bs.scope # "decl"
      BY <3>1, <3>2, <3>3
    <3>4. CASE bs.scope = "decl"
      <4>1. Names(bq) /\ Names(q)
        BY <2>2, <2>3, <2>6, <2>11, <3>4 DEF Scopes
      <4> DEFINE j == bq \o q
                 n == Len(bq)
                 k == Len(q)
      <4>2. n \in Nat /\ k \in Nat /\ k > 0 /\ DOMAIN j = 1 .. n + k /\ Len(j) = n + k
            /\ DOMAIN bq = 1 .. n /\ DOMAIN q = 1 .. k
        <5>1. q # <<>>
          BY <4>1
        <5> QED
          BY <2>2, <2>5, <3>0, <5>1
      <4>3. j # <<>> /\ Last(j) = Last(q)
        <5>1. Last(j) = j[n + k] /\ Last(q) = q[k]
          BY <4>2 DEF Last
        <5>2. j[n + k] = q[k]
          BY <3>0, <4>2
        <5> QED
          BY <4>2, <5>1, <5>2
      <4>4. ASSUME Multiple(id), DeclaredOnly(id), NEW i \in DOMAIN j PROVE DeclaredBy(j[i], id)
        <5> HIDE DEF DeclaredOnly, Multiple
        <5>1. CASE i <= n
          <6>1. i \in DOMAIN bq /\ j[i] = bq[i]
            BY <3>0, <4>2, <5>1
          <6> QED
            BY <4>1, <4>4, <6>1
        <5>2. CASE ~(i <= n)
          <6>1. i - n \in DOMAIN q /\ j[i] = q[i - n]
            BY <3>0, <4>2, <5>2
          <6> QED
            BY <4>1, <4>4, <6>1
        <5> QED
          BY <5>1, <5>2
      <4>5. Names(j)
        BY <4>1, <4>3, <4>4
      <4> QED
        BY <3>1, <3>2, <4>5
    <3> QED
      BY <3>3, <3>4
  <2> QED
    BY <2>8, <2>9, <2>10, <2>11
<1>5. scope' \in [Ids -> ScopeType]
  BY <1>0, <1>4
<1>6. ScopesNameDeclarers'
  <2>1. \A d, id : DeclaredBy(d, id)' <=> DeclaredBy(d, id)
    BY <1>0 DEF DeclaredBy
  <2> QED
    BY <1>4, <2>1 DEF ScopesNameDeclarers
<1>7. Mains' = Mains
  BY <1>0 DEF Mains, Main
<1>8. MapLeadsToCopies' /\ at'.block = 1
  BY <1>0 DEF MapLeadsToCopies
<1> QED
  BY <1>0, <1>5, <1>6, <1>7, <1>8 DEF DeclParts

LEMMA DeclInductive == DeclInv /\ [Next]_vars => DeclInv'
<1> SUFFICES ASSUME IndInv, DeclParts, [Next]_vars PROVE DeclParts'
  BY Inductive DEF DeclInv, DeclParts
<1>0. /\ UniqueDecls /\ at \in [module : Nat \ {0}, block : Nat \ {0}]
      /\ status = "identifiers" => at.block = 1
  BY DEF IndInv, DeclParts
<1>1. CASE copy_identifiers
  <2>1. /\ decls' = decls /\ scope' = scope /\ next_decl_id' = next_decl_id /\ mods' = mods
        /\ at' = at /\ global' = global /\ avdecl_map' = <<>> /\ status' = "blocks" /\ at.block = 1
    BY <1>0, <1>1 DEF copy_identifiers, Identifiers
  <2>2. at.module \in DOMAIN mods
    BY <1>0, <1>1, LoadDomain DEF copy_identifiers, Identifiers, IndInv
  <2>3. Module.blocks \in Seq(SourceBlock)
    BY <2>2, LoadsAssumption DEF Module, IndInv, WellFormedPolicy
  <2>4. {c \in DOMAIN Module.blocks : c < at.block} = {}
    BY <2>1, <2>3
  <2>5. Module' = Module /\ DOMAIN avdecl_map' = {}
    BY <2>1 DEF Module
  <2>6. MapLeadsToCopies'
    BY <2>1, <2>4, <2>5 DEF MapLeadsToCopies
  <2>7. ScopesNameDeclarers' /\ Mains' = Mains
    BY <2>1 DEF DeclParts, ScopesNameDeclarers, DeclaredBy, Mains, Main
  <2> QED
    BY <2>1, <2>6, <2>7 DEF DeclParts
<1>2. CASE copy_avrule_block
  BY <1>2, DeclBlock
<1>3. CASE scope_copy
  BY <1>3, DeclScopes
<1>4. CASE BlocksCopied
  <2>1. /\ UNCHANGED copied /\ global' = global /\ at' = at /\ status = "blocks" /\ status' = "scopes"
        /\ at.block > Len(Module.blocks)
    BY <1>4 DEF BlocksCopied
  <2>2. Mains' = Mains
    BY <2>1 DEF Mains, Main
  <2> QED
    BY <2>1, <2>2, DeclKept
<1>5. CASE IdentifiersRefused \/ ScopesRefused
  <2>1. UNCHANGED copied /\ global' = global /\ at' = at /\ status' = "failed"
    BY <1>5 DEF IdentifiersRefused, ScopesRefused, Fail
  <2>2. Mains' = Mains
    BY <2>1 DEF Mains, Main
  <2> QED
    BY <2>1, <2>2, DeclKept
<1>6. CASE Enable
  <2>1. /\ UNCHANGED copied /\ at'.module = at.module
        /\ status' \in {"enabling", "missing", "else", "populate"}
    BY <1>0, <1>6 DEF Enable, StartEnabling, KeepBlock, DisableBlock, RequirementMissing, NextRound,
                      EnableElse, NextBlock, AtBlock
  <2>2. DOMAIN global' = DOMAIN global
        /\ \A b \in DOMAIN global : global'[b].branch_list = global[b].branch_list
    <3>0. \A b \in DOMAIN global : global[b] \in BlockType
      BY <1>0 DEF UniqueDecls
    <3>1. CASE StartEnabling
      BY <3>0, <3>1 DEF StartEnabling, BlockType
    <3>2. CASE KeepBlock \/ NextRound
      BY <3>2 DEF KeepBlock, NextRound
    <3>3. CASE DisableBlock \/ RequirementMissing
      BY <3>0, <3>3, ZenonT(60) DEF DisableBlock, RequirementMissing, BlockType
    <3>4. CASE EnableElse
      BY <3>0, <3>4 DEF EnableElse, BlockType
    <3> QED
      BY <1>6, <3>1, <3>2, <3>3, <3>4 DEF Enable
  <2>3. Mains' = Mains
    BY <2>2 DEF Mains, Main
  <2> QED
    BY <2>1, <2>3, DeclKept
<1>7. CASE ExpandRoles
  <2>1. /\ UNCHANGED copied /\ global' = global /\ at' = at
        /\ status' \in {"roles", "linked"}
    BY <1>7 DEF ExpandRoles, populate_roleattributes, NextAttribute, Escalate, AttributeDone, Finish
  <2>2. Mains' = Mains
    BY <2>1 DEF Mains, Main
  <2> QED
    BY <2>1, <2>2, DeclKept
<1>8. CASE UNCHANGED vars
  <2>1. UNCHANGED copied /\ global' = global /\ at' = at /\ status' = status
    BY <1>8 DEF vars, copied
  <2>2. Mains' = Mains
    BY <2>1 DEF Mains, Main
  <2>3. status = "scopes" => at.block > Len(Module.blocks)
    BY DEF DeclParts
  <2> QED
    BY <1>0, <2>1, <2>2, <2>3, DeclKept
<1> QED
  BY <1>1, <1>2, <1>3, <1>4, <1>5, <1>6, <1>7, <1>8 DEF Next, Copy

LEMMA DeclInvHolds == Spec => []DeclInv
BY DeclInitially, DeclInductive, PTL DEF Spec

(* What the scope lists are for: a symbol that is_id_enabled accepts is declared
   by an enabled declaration. *)
LEMMA EnabledIsDeclared ==
  ASSUME DeclInv, Settled, NEW d \in on \cap Mains, NEW id \in decls[d].required,
         Kind[id] # "perm", Multiple(id) => DeclaredOnly(id)
  PROVE  \E e \in on : id \in decls[e].declared
<1>0. IndInv /\ DeclParts
  BY DeclSplit
<1>1. id \in Ids
  <2>1. d \in DOMAIN decls
    BY <1>0 DEF DeclParts
  <2>2. decls[d] \in DeclType
    BY <1>0, <2>1 DEF DeclParts
  <2> QED
    BY <2>2 DEF DeclType
<1>2. is_id_enabled(id, on \cap Mains)
  <2>1. is_decl_requires_met(d, on \cap Mains)
    BY <1>0 DEF IndInv, EnabledIsGreatest, Consistent
  <2> QED
    BY <2>1 DEF is_decl_requires_met
<1> DEFINE q == scope[id].decl_ids
<1>3. scope[id].scope = "decl" /\ q # <<>>
  BY <1>2 DEF is_id_enabled
<1>4. /\ DeclaredBy(Last(q), id)
      /\ Multiple(id) => \A i \in DOMAIN q : DeclaredBy(q[i], id)
  BY <1>0, <1>1, <1>3 DEF DeclParts, ScopesNameDeclarers
<1>5. CASE Multiple(id)
  <2>1. PICK i \in DOMAIN q : q[i] \in on
    BY <1>2, <1>5 DEF is_id_enabled
  <2> QED
    BY <1>4, <1>5, <2>1 DEF DeclaredBy
<1>6. CASE ~Multiple(id)
  <2>1. q[Len(q)] \in on
    BY <1>2, <1>6 DEF is_id_enabled
  <2> QED
    BY <1>4, <2>1 DEF DeclaredBy, Last
<1> QED
  BY <1>5, <1>6

(* Every requirement of an enabled block is met by an enabled declaration, for
   every base and sequence of modules, as long as no policy that declares a
   role or user also requires it (of these is_id_enabled accepts any enabled
   entry of the list, a requirer's too). *)
THEOREM RequirementsAreDeclared ==
  (\A id \in Ids : Multiple(id) => DeclaredOnly(id)) => (Spec => []RequirementsDeclared)
<1> SUFFICES ASSUME \A id \in Ids : Multiple(id) => DeclaredOnly(id)
             PROVE  Spec => []RequirementsDeclared
  OBVIOUS
<1>1. DeclInv => RequirementsDeclared
  <2> SUFFICES ASSUME DeclInv, Settled, NEW d \in on \cap Mains, NEW id \in decls[d].required,
                      Kind[id] # "perm"
               PROVE  \E e \in on : id \in decls[e].declared
    BY DEF RequirementsDeclared
  <2>1. id \in Ids
    <3>1. decls[d] \in DeclType
      BY DEF DeclInv
    <3> QED
      BY <3>1 DEF DeclType
  <2> QED
    BY <2>1, EnabledIsDeclared
<1> QED
  BY <1>1, DeclInvHolds, PTL

(* For every other kind of symbol it holds without a condition. *)
OthersDeclared ==
    Settled =>
        \A d \in on \cap Mains : \A id \in decls[d].required :
            Kind[id] # "perm" /\ ~Multiple(id) => \E e \in on : id \in decls[e].declared

(* A type, boolean, class or level that an enabled block requires is declared
   by an enabled declaration, whatever the policies are: the last entry of a
   scope list declares the symbol from symtab_insert to the end of linking. *)
THEOREM OtherRequirementsDeclared == Spec => []OthersDeclared
<1>1. DeclInv => OthersDeclared
  BY EnabledIsDeclared DEF OthersDeclared
<1> QED
  BY <1>1, DeclInvHolds, PTL

-----------------------------------------------------------------------------
(* Replacing an attribute by its members, as expand_role_attributes does,
   changes what no attribute stands for: a set that is closed before is closed
   after, and one that is closed after is closed before once the replaced
   attribute is put into it.  An attribute that holds itself just loses itself. *)
LEMMA ReplacingKeepsMeaning ==
  ASSUME NEW R \in [Ids -> SUBSET RoleIds], NEW Q \in [Ids -> SUBSET RoleIds],
         NEW a \in Ids, IsAttribute(a), NEW sub \in R[a], IsAttribute(sub), sub \in RoleIds,
         Q = [R EXCEPT ![a] = IF sub = a THEN @ \ {sub} ELSE (@ \ {sub}) \cup R[sub]],
         NEW id \in Ids
  PROVE  StandsFor(Q, id) = StandsFor(R, id)
<1>0. /\ \A k \in Ids : k # a => Q[k] = R[k]
      /\ Q[a] = IF sub = a THEN R[a] \ {sub} ELSE (R[a] \ {sub}) \cup R[sub]
      /\ RoleIds \subseteq Ids
  BY DEF RoleIds
<1>1. ASSUME NEW S \in SUBSET RoleIds, R[id] \subseteq S, Closed(S, R)
      PROVE  Q[id] \subseteq S /\ Closed(S, Q)
  <2>1. ASSUME NEW k \in Ids, R[k] \subseteq S PROVE Q[k] \subseteq S
    <3>1. CASE k # a
      BY <1>0, <2>1, <3>1
    <3>2. CASE k = a
      <4>1. sub \in S
        BY <2>1, <3>2
      <4>2. R[sub] \subseteq S
        BY <1>1, <4>1 DEF Closed
      <4> QED
        BY <1>0, <2>1, <3>2, <4>2
    <3> QED
      BY <3>1, <3>2
  <2> QED
    BY <1>0, <1>1, <2>1 DEF Closed
<1>2. ASSUME NEW S \in SUBSET RoleIds, Q[id] \subseteq S, Closed(S, Q)
      PROVE  \E T \in SUBSET RoleIds : /\ R[id] \subseteq T /\ Closed(T, R)
                                       /\ \A role \in T : ~IsAttribute(role) => role \in S
  <2>1. CASE a \in S \/ id = a
    <3>1. Q[a] \subseteq S
      BY <1>0, <1>2, <2>1 DEF Closed
    <3>2. R[a] \subseteq S \cup {sub} /\ (sub # a => R[sub] \subseteq S)
      BY <1>0, <3>1
    <3>3. Closed(S \cup {sub}, R)
      <4> SUFFICES ASSUME NEW k \in S \cup {sub}, IsAttribute(k)
                   PROVE  R[k] \subseteq S \cup {sub}
        BY DEF Closed
      <4>1. CASE k = a
        BY <3>2, <4>1
      <4>2. CASE k = sub /\ k # a
        BY <3>2, <4>2
      <4>3. CASE k \in S /\ k # a
        <5>1. Q[k] = R[k]
          BY <1>0, <4>3
        <5> QED
          BY <1>2, <4>3, <5>1 DEF Closed
      <4> QED
        BY <4>1, <4>2, <4>3
    <3>4. R[id] \subseteq S \cup {sub}
      BY <1>0, <1>2, <3>2
    <3> QED
      BY <3>3, <3>4
  <2>2. CASE a \notin S /\ id # a
    <3>1. R[id] \subseteq S
      BY <1>0, <1>2, <2>2
    <3>2. Closed(S, R)
      BY <1>0, <1>2, <2>2 DEF Closed
    <3> QED
      BY <3>1, <3>2
  <2> QED
    BY <2>1, <2>2
<1>3. \A role \in RoleIds : ~IsAttribute(role) /\ role \in StandsFor(Q, id) => role \in StandsFor(R, id)
  BY <1>1 DEF StandsFor
<1>4. \A role \in RoleIds : ~IsAttribute(role) /\ role \in StandsFor(R, id) => role \in StandsFor(Q, id)
  <2> SUFFICES ASSUME NEW role \in RoleIds, ~IsAttribute(role), role \in StandsFor(R, id),
                      NEW S \in SUBSET RoleIds, Q[id] \subseteq S, Closed(S, Q)
               PROVE  role \in S
    BY DEF StandsFor
  <2>1. PICK T \in SUBSET RoleIds : /\ R[id] \subseteq T /\ Closed(T, R)
                                    /\ \A r \in T : ~IsAttribute(r) => r \in S
    BY <1>2
  <2>2. role \in T
    BY <2>1 DEF StandsFor
  <2> QED
    BY <2>1, <2>2
<1>5. \A role \in StandsFor(Q, id) \cup StandsFor(R, id) : role \in RoleIds /\ ~IsAttribute(role)
  BY DEF StandsFor
<1> QED
  BY <1>3, <1>4, <1>5

(* An attribute whose members are all roles stands for its members. *)
LEMMA ExpandedStandsForItself ==
  ASSUME NEW R \in [Ids -> SUBSET RoleIds], NEW id \in Ids,
         \A member \in R[id] : ~IsAttribute(member)
  PROVE  StandsFor(R, id) = R[id]
<1>1. R[id] \in SUBSET RoleIds
  OBVIOUS
<1>2. Closed(R[id], R)
  BY DEF Closed
<1> QED
  BY <1>1, <1>2 DEF StandsFor

(* Only the members of attributes matter. *)
LEMMA SameMeaning ==
  ASSUME NEW R, NEW Q, NEW id \in Ids, IsAttribute(id),
         \A k \in Ids : IsAttribute(k) => R[k] = Q[k]
  PROVE  StandsFor(R, id) = StandsFor(Q, id)
<1>1. \A S \in SUBSET RoleIds : Closed(S, R) <=> Closed(S, Q)
  BY DEF Closed, RoleIds
<1> QED
  BY <1>1 DEF StandsFor

(* What RolesInv says beside DeclInv and AgreeInv. *)
GatheredRoles ==
    status \in Gathering =>
        \A id \in Ids : roles[id] = Base.roles[id]
                            \cup UNION {mods[m].roles[id] : m \in {n \in DOMAIN mods : Gathered(n)}}

OnIsNamed == status \in {"populate", "roles", "linked"} =>
                 on = {global[b].enabled : b \in DOMAIN global} \ {0}

Expanding ==
    /\ status \in {"roles", "linked"} =>
          \A id \in Ids : IsAttribute(id) =>
              /\ StandsFor(roles, id) = StandsFor(Given, id)
              /\ id \in todo \/ id = attr \/ Expanded(id)
    /\ attr # NoId => IsAttribute(attr) /\ attr \in Ids
    /\ \A id \in todo : IsAttribute(id)
    /\ status \in Gathering => todo = {} /\ attr = NoId
    /\ status = "linked" => todo = {} /\ attr = NoId

BlockDecls == 1 \in DOMAIN global /\ BlocksHaveDecls /\ FirstBlockAddsNothing

LEMMA RolesSplit ==
  RolesInv <=> /\ DeclInv /\ AgreeInv /\ roles \in [Ids -> SUBSET RoleIds]
               /\ BlockDecls /\ GatheredRoles /\ OnIsNamed /\ Expanding
BY DEF RolesInv, BlockDecls, GatheredRoles, OnIsNamed, Expanding

LEMMA RolesJoin ==
  ASSUME DeclInv', AgreeInv', roles' \in [Ids -> SUBSET RoleIds],
         BlockDecls', GatheredRoles', OnIsNamed', Expanding'
  PROVE  RolesInv'
BY DEF RolesInv, BlockDecls, GatheredRoles, OnIsNamed, Expanding

(* Enabling changes no branch list. *)
LEMMA EnableBlocks ==
  ASSUME IndInv, Enable
  PROVE  /\ DOMAIN global' = DOMAIN global
         /\ \A b \in DOMAIN global : global'[b].branch_list = global[b].branch_list
         /\ decls' = decls /\ mods' = mods /\ flavor' = flavor /\ roles' = roles
         /\ attr' = attr /\ todo' = todo
         /\ at'.module = at.module
<1>1. \A b \in DOMAIN global : global[b] \in BlockType
  BY DEF IndInv, UniqueDecls
<1>2. \A b \in DOMAIN global : \A e : [global[b] EXCEPT !.enabled = e].branch_list = global[b].branch_list
  BY <1>1 DEF BlockType
<1>3. /\ decls' = decls /\ mods' = mods /\ flavor' = flavor /\ roles' = roles
      /\ attr' = attr /\ todo' = todo
  BY DEF Enable, StartEnabling, KeepBlock, DisableBlock, RequirementMissing, NextRound, EnableElse, copied
<1>4. at'.module = at.module
  <2>1. at \in [module : Nat \ {0}, block : Nat \ {0}]
    BY DEF IndInv
  <2>2. at' \in {at, [at EXCEPT !.block = @ + 1], [at EXCEPT !.block = 1]}
    BY DEF Enable, StartEnabling, KeepBlock, DisableBlock, RequirementMissing, NextRound, EnableElse, NextBlock
  <2> QED
    BY <2>1, <2>2
<1>5. CASE StartEnabling
  <2>1. global' = [b \in DOMAIN global |-> [global[b] EXCEPT !.enabled = Main(b)]]
    BY <1>5 DEF StartEnabling
  <2> QED
    BY <1>2, <1>3, <1>4, <2>1
<1>6. CASE DisableBlock \/ RequirementMissing
  <2>1. global' = [global EXCEPT ![at.block].enabled = 0]
    BY <1>6 DEF DisableBlock, RequirementMissing
  <2>2. \A b \in DOMAIN global : global'[b] = IF b = at.block THEN [global[b] EXCEPT !.enabled = 0]
                                                             ELSE global[b]
    BY <2>1
  <2> QED
    BY <1>2, <1>3, <1>4, <2>1, <2>2
<1>7. CASE KeepBlock \/ NextRound
  BY <1>3, <1>4, <1>7 DEF KeepBlock, NextRound
<1>8. CASE EnableElse
  <2>1. global' = [b \in DOMAIN global |->
                     IF TakesElse(b) THEN [global[b] EXCEPT !.enabled = Else(b)] ELSE global[b]]
    BY <1>8 DEF EnableElse
  <2> QED
    BY <1>2, <1>3, <1>4, <2>1
<1> QED
  BY <1>5, <1>6, <1>7, <1>8 DEF Enable

LEMMA BlockDeclsKept ==
  ASSUME BlockDecls, decls' = decls, DOMAIN global' = DOMAIN global,
         \A b \in DOMAIN global : global'[b].branch_list = global[b].branch_list
  PROVE  BlockDecls'
BY DEF BlockDecls, BlocksHaveDecls, FirstBlockAddsNothing

(* copy_avrule_block appends a block whose declarations it has put into
   decl_val_to_struct, and leaves the earlier ones alone. *)
LEMMA BlockDeclsCopied ==
  ASSUME IndInv, BlockDecls, copy_avrule_block
  PROVE  BlockDecls'
<1> DEFINE block == Module.blocks[at.block]
           count == Len(block.branch_list)
           Fresh == {Mapped(next_decl_id, d) : d \in 1 .. count}
           ids == [d \in 1 .. count |-> Mapped(next_decl_id, d)]
           nb == [optional |-> block.optional, enabled |-> 0, branch_list |-> ids]
<1>1. /\ global' = Append(global, nb)
      /\ DOMAIN decls' = DOMAIN decls \cup Fresh
      /\ \A i \in DOMAIN decls : decls'[i] = decls[i]
  BY DEF copy_avrule_block
<1>2. global \in Seq(BlockType) /\ Len(global) \in Nat /\ DOMAIN global = 1 .. Len(global)
  BY DEF IndInv, UniqueDecls
<1>3. nb.branch_list = ids /\ ToSet(ids) \subseteq Fresh
  BY DEF ToSet
<1> HIDE DEF nb, ids, Fresh
<1>4. /\ \A b \in DOMAIN global : b \in DOMAIN global' /\ global'[b] = global[b]
      /\ \A b \in DOMAIN global' : (b \in DOMAIN global /\ global'[b] = global[b]) \/ global'[b] = nb
  BY <1>1, <1>2
<1>5. BlocksHaveDecls'
  <2> SUFFICES ASSUME NEW b \in DOMAIN global'
               PROVE  ToSet(global'[b].branch_list) \subseteq DOMAIN decls'
    BY DEF BlocksHaveDecls
  <2>1. CASE b \in DOMAIN global /\ global'[b] = global[b]
    BY <1>1, <2>1 DEF BlockDecls, BlocksHaveDecls
  <2>2. CASE global'[b] = nb
    BY <1>1, <1>3, <2>2
  <2> QED
    BY <1>4, <2>1, <2>2
<1>6. 1 \in DOMAIN global' /\ global'[1] = global[1]
  BY <1>4 DEF BlockDecls
<1>7. FirstBlockAddsNothing'
  <2> SUFFICES ASSUME NEW d \in ToSet(global[1].branch_list), NEW id \in Ids
               PROVE  decls'[d].roles[id] = {}
    BY <1>6 DEF FirstBlockAddsNothing
  <2>1. d \in DOMAIN decls
    BY DEF BlockDecls, BlocksHaveDecls
  <2> QED
    BY <1>1, <2>1 DEF BlockDecls, FirstBlockAddsNothing
<1> QED
  BY <1>5, <1>6, <1>7 DEF BlockDecls

(* Roles are gathered by copy_identifiers alone. *)
LEMMA GatheredKept ==
  ASSUME GatheredRoles, roles' = roles, mods' = mods,
         status' \in Gathering =>
            status \in Gathering /\ \A m \in DOMAIN mods : Gathered(m)' <=> Gathered(m)
  PROVE  GatheredRoles'
<1> SUFFICES ASSUME status' \in Gathering, NEW id \in Ids
             PROVE  roles[id] = Base.roles[id]
                        \cup UNION {mods[m].roles[id] : m \in {n \in DOMAIN mods : Gathered(n)'}}
  BY DEF GatheredRoles
<1>1. {n \in DOMAIN mods : Gathered(n)'} = {n \in DOMAIN mods : Gathered(n)}
  OBVIOUS
<1> QED
  BY <1>1 DEF GatheredRoles

LEMMA GatheredIdentifiers ==
  ASSUME AgreeInv, GatheredRoles, copy_identifiers
  PROVE  GatheredRoles'
<1>1. /\ status = "identifiers" /\ status' = "blocks" /\ at' = at /\ mods' = mods
      /\ \A id \in Ids : roles'[id] = roles[id] \cup mods[at.module].roles[id]
      /\ at.module <= Len(mods)
  BY DEF copy_identifiers, Identifiers, Module
<1>2. at.module \in DOMAIN mods /\ DOMAIN mods = 1 .. Len(mods) /\ Len(mods) \in Nat /\ at.module \in Nat
  BY <1>1, LoadDomain DEF AgreeInv
<1>3. \A m \in DOMAIN mods : (Gathered(m)' <=> m < at.module \/ m = at.module) /\ (Gathered(m) <=> m < at.module)
  BY <1>1, <1>2 DEF Gathered
<1> SUFFICES ASSUME NEW id \in Ids
             PROVE  roles'[id] = Base.roles[id]
                        \cup UNION {mods[m].roles[id] : m \in {n \in DOMAIN mods : Gathered(n)'}}
  BY <1>1 DEF GatheredRoles
<1> DEFINE Old == {n \in DOMAIN mods : Gathered(n)}
           New == {n \in DOMAIN mods : Gathered(n)'}
<1>4. roles[id] = Base.roles[id] \cup UNION {mods[m].roles[id] : m \in Old}
  BY <1>1 DEF GatheredRoles, Gathering
<1>5. \A m : m \in New <=> m \in Old \/ m = at.module
  BY <1>2, <1>3
<1> HIDE DEF Old, New
<1>6. roles'[id] = Base.roles[id] \cup UNION {mods[m].roles[id] : m \in New}
  BY <1>1, <1>4, <1>5
<1> QED
  BY <1>6 DEF New

(* The else handling leaves in force exactly the declarations that the blocks
   name in their enabled fields. *)
LEMMA ElseNames ==
  ASSUME IndInv, EnableElse
  PROVE  OnIsNamed'
<1> DEFINE Taken == {c \in DOMAIN global : TakesElse(c)}
<1>1. /\ on \subseteq Mains /\ Flagged /\ UniqueDecls
      /\ on' = on \cup {Else(b) : b \in Taken}
      /\ global' = [b \in DOMAIN global |->
                      IF TakesElse(b) THEN [global[b] EXCEPT !.enabled = Else(b)] ELSE global[b]]
  BY DEF IndInv, EnableElse
<1>2. \A b \in DOMAIN global : global[b] \in BlockType /\ Main(b) \in Nat \ {0}
  BY <1>1, MainsDistinct DEF UniqueDecls
<1>3. \A b \in Taken : Else(b) # 0
  <2> SUFFICES ASSUME NEW b \in Taken PROVE Else(b) # 0
    OBVIOUS
  <2>1. global[b].branch_list \in Seq(Nat \ {0}) /\ Len(global[b].branch_list) > 1
    BY <1>2 DEF BlockType, TakesElse
  <2>2. 2 \in DOMAIN global[b].branch_list
    BY <2>1
  <2> QED
    BY <2>1, <2>2 DEF Else
<1>4. \A b \in DOMAIN global : global'[b].enabled = IF b \in Taken THEN Else(b) ELSE global[b].enabled
  BY <1>1, <1>2 DEF BlockType
<1>5. \A b \in DOMAIN global : global[b].enabled = IF Main(b) \in on THEN Main(b) ELSE 0
  BY <1>1 DEF Flagged
<1>6. \A b \in Taken : global[b].enabled = 0
  BY DEF TakesElse
<1>7. DOMAIN global' = DOMAIN global
  BY <1>1
<1>8. \A x \in on' : \E b \in DOMAIN global : x = global'[b].enabled /\ x # 0
  <2> SUFFICES ASSUME NEW x \in on' PROVE \E b \in DOMAIN global : x = global'[b].enabled /\ x # 0
    OBVIOUS
  <2>1. CASE x \in on
    <3>1. PICK b \in DOMAIN global : x = Main(b)
      BY <1>1, <2>1 DEF Mains
    <3>2. global[b].enabled = x /\ x # 0 /\ b \notin Taken
      BY <1>2, <1>5, <1>6, <2>1, <3>1
    <3> QED
      BY <1>4, <3>2
  <2>2. CASE \E b \in Taken : x = Else(b)
    BY <1>3, <1>4, <2>2
  <2> QED
    BY <1>1, <2>1, <2>2
<1>9. \A b \in DOMAIN global : global'[b].enabled # 0 => global'[b].enabled \in on'
  BY <1>1, <1>4, <1>5
<1> HIDE DEF Taken
<1>10. on' = {global'[b].enabled : b \in DOMAIN global'} \ {0}
  BY <1>7, <1>8, <1>9
<1> QED
  BY <1>10 DEF OnIsNamed

(* Every enabled declaration is one of the table, and none of the first block
   adds to an attribute. *)
LEMMA NamedDecls ==
  ASSUME IndInv, BlockDecls, OnIsNamed, status = "populate", NEW b \in DOMAIN global,
         global[b].enabled # 0
  PROVE  global[b].enabled \in ToSet(global[b].branch_list) /\ global[b].enabled \in DOMAIN decls
<1>1. on \cap ToSet(global[b].branch_list) = {global[b].enabled} \ {0}
  BY DEF IndInv, OneBranch
<1>2. global[b].enabled \in ToSet(global[b].branch_list)
  BY <1>1
<1> QED
  BY <1>2 DEF BlockDecls, BlocksHaveDecls

(* populate_roleattributes: the attributes hold what they are given by the
   base, the modules and the enabled declarations. *)
LEMMA PopulatedIsGiven ==
  ASSUME DeclInv, AgreeInv, BlockDecls, GatheredRoles, OnIsNamed, roles \in [Ids -> SUBSET RoleIds],
         populate_roleattributes
  PROVE  /\ roles' \in [Ids -> SUBSET RoleIds]
         /\ \A id \in Ids : IsAttribute(id) => roles'[id] = Given[id]
<1> DEFINE Others == {c \in DOMAIN global : c > 1 /\ global[c].enabled # 0}
<1>1. /\ status = "populate"
      /\ roles' = [id \in Ids |-> IF IsAttribute(id) THEN roles[id] \cup LocalRoles(id) ELSE roles[id]]
      /\ \A id : LocalRoles(id) = UNION {decls[global[b].enabled].roles[id] : b \in Others}
  BY DEF populate_roleattributes, LocalRoles
<1>2. IndInv /\ at.module > Len(mods) /\ at.module \in Nat /\ Len(mods) \in Nat /\ DOMAIN mods = 1 .. Len(mods)
  BY <1>1, LoadDomain DEF DeclInv, AgreeInv
<1>3. \A b \in DOMAIN global : global[b].enabled # 0 =>
         /\ global[b].enabled \in ToSet(global[b].branch_list)
         /\ global[b].enabled \in DOMAIN decls
  BY <1>1, <1>2, NamedDecls
<1>4. \A b \in Others, id \in Ids : decls[global[b].enabled].roles[id] \in SUBSET RoleIds
  <2> SUFFICES ASSUME NEW b \in Others, NEW id \in Ids
               PROVE  decls[global[b].enabled].roles[id] \in SUBSET RoleIds
    OBVIOUS
  <2>1. decls[global[b].enabled] \in DeclType
    BY <1>3 DEF DeclInv
  <2> QED
    BY <2>1 DEF DeclType
<1>5. roles' \in [Ids -> SUBSET RoleIds]
  <2>1. \A id \in Ids : LocalRoles(id) \in SUBSET RoleIds
    BY <1>1, <1>4
  <2> QED
    BY <1>1, <2>1
<1>6. ASSUME NEW id \in Ids
      PROVE  UNION {decls[d].roles[id] : d \in on} = LocalRoles(id)
  <2>1. \A x : x \in UNION {decls[d].roles[id] : d \in on} <=> \E d \in on : x \in decls[d].roles[id]
    OBVIOUS
  <2>2. \A x : x \in LocalRoles(id) <=> \E b \in Others : x \in decls[global[b].enabled].roles[id]
    BY <1>1
  <2>3. \A d : d \in on <=> \E b \in DOMAIN global : d = global[b].enabled /\ d # 0
    BY <1>1 DEF OnIsNamed
  <2>4. \A b \in DOMAIN global : global[b].enabled # 0 /\ b \notin Others =>
           decls[global[b].enabled].roles[id] = {}
    <3> SUFFICES ASSUME NEW b \in DOMAIN global, global[b].enabled # 0, ~(b > 1)
                 PROVE  decls[global[b].enabled].roles[id] = {}
      OBVIOUS
    <3>1. b = 1
      <4>1. global \in Seq(BlockType)
        BY <1>2 DEF IndInv, UniqueDecls
      <4>2. b \in Nat \ {0}
        BY <4>1
      <4> QED
        BY <4>2
    <3> QED
      BY <1>3, <3>1 DEF BlockDecls, FirstBlockAddsNothing
  <2>5. \A b \in Others : b \in DOMAIN global /\ global[b].enabled # 0
    OBVIOUS
  <2> HIDE DEF Others
  <2>6. \A x : x \in UNION {decls[d].roles[id] : d \in on} <=> x \in LocalRoles(id)
    BY <2>1, <2>2, <2>3, <2>4, <2>5
  <2> QED
    BY <2>6
<1>7. {n \in DOMAIN mods : Gathered(n)} = DOMAIN mods
  BY <1>2 DEF Gathered
<1>8. \A id \in Ids : roles[id] = Base.roles[id] \cup UNION {mods[m].roles[id] : m \in DOMAIN mods}
  BY <1>1, <1>7 DEF GatheredRoles, Gathering
<1>9. \A id \in Ids : Given[id] = roles[id] \cup LocalRoles(id)
  <2> TAKE id \in Ids
  <2> DEFINE A == Base.roles[id] \cup UNION {mods[m].roles[id] : m \in DOMAIN mods}
             B == UNION {decls[d].roles[id] : d \in on}
  <2>1. Given[id] = UNION ({Base.roles[id]} \cup {mods[m].roles[id] : m \in DOMAIN mods}
                                          \cup {decls[d].roles[id] : d \in on})
    BY Zenon DEF Given
  <2>4. Given[id] = A \cup B
    BY <2>1
  <2>2. roles[id] = A
    BY <1>8
  <2>3. LocalRoles(id) = B
    BY <1>6
  <2> HIDE DEF A, B
  <2> QED
    BY <2>2, <2>3, <2>4
<1> QED
  BY <1>1, <1>5, <1>9

LEMMA RolesInitially == Init => RolesInv
<1> SUFFICES ASSUME Init
             PROVE  /\ roles \in [Ids -> SUBSET RoleIds] /\ BlockDecls /\ GatheredRoles
                    /\ OnIsNamed /\ Expanding
  BY DeclInitially, AgreeInitially, RolesSplit
<1>0. /\ roles = Base.roles /\ decls = DeclsOf(Base.blocks) /\ status = "identifiers" /\ attr = NoId /\ todo = {}
      /\ at = [module |-> 1, block |-> 1] /\ mods \in Loads
      /\ global = [b \in DOMAIN Base.blocks |-> BlockOf(Base.blocks[b])]
  BY DEF Init
<1>1. /\ WellFormedPolicy(Base) /\ Base.blocks \in Seq(SourceBlock) /\ Base.blocks # <<>>
  BY BaseAssumption DEF WellFormedPolicy
<1>2. roles \in [Ids -> SUBSET RoleIds]
  BY <1>0, <1>1 DEF WellFormedPolicy
<1>3. 1 \in DOMAIN Base.blocks /\ DOMAIN global = DOMAIN Base.blocks
  BY <1>0, <1>1
<1>4. ASSUME NEW b \in DOMAIN global, NEW x \in ToSet(global[b].branch_list)
      PROVE  \E d \in DOMAIN Base.blocks[b].branch_list :
                 /\ x = Base.blocks[b].branch_list[d].id
                 /\ x \in DOMAIN decls
                 /\ decls[x] = Base.blocks[b].branch_list[d]
  <2>1. global[b].branch_list = [d \in DOMAIN Base.blocks[b].branch_list |-> Base.blocks[b].branch_list[d].id]
    BY <1>0, <1>3 DEF BlockOf
  <2>2. PICK d \in DOMAIN Base.blocks[b].branch_list : x = Base.blocks[b].branch_list[d].id
    BY <2>1 DEF ToSet
  <2>3. x \in DeclIdsOf(Base.blocks) /\ DeclsOf(Base.blocks)[x] = Base.blocks[b].branch_list[d]
    BY <1>1, <1>3, <2>2, SourceDecls
  <2>4. DOMAIN decls = DeclIdsOf(Base.blocks)
    BY <1>0 DEF DeclsOf
  <2> QED
    BY <1>0, <2>2, <2>3, <2>4
<1>5. BlockDecls
  <2>1. BlocksHaveDecls
    BY <1>4 DEF BlocksHaveDecls
  <2>2. FirstBlockAddsNothing
    BY <1>3, <1>4, FirstBlockAssumption DEF FirstBlockAddsNothing
  <2> QED
    BY <1>3, <2>1, <2>2 DEF BlockDecls
<1>6. GatheredRoles
  <2>1. DOMAIN mods = 1 .. Len(mods) /\ Len(mods) \in Nat
    BY <1>0, LoadDomain
  <2>2. {n \in DOMAIN mods : Gathered(n)} = {}
    BY <1>0, <2>1 DEF Gathered
  <2> QED
    BY <1>0, <2>2 DEF GatheredRoles
<1> QED
  BY <1>0, <1>2, <1>5, <1>6 DEF OnIsNamed, Expanding

(* The meaning of an attribute is told by the flavors alone. *)
LEMMA MeaningKept ==
  ASSUME flavor' = flavor
  PROVE  /\ \A id : IsAttribute(id)' <=> IsAttribute(id)
         /\ \A R, id : StandsFor(R, id)' = StandsFor(R, id)
<1>1. \A id : IsAttribute(id)' <=> IsAttribute(id)
  BY DEF IsAttribute
<1>2. \A S, R : Closed(S, R)' <=> Closed(S, R)
  BY <1>1 DEF Closed
<1> QED
  BY <1>1, <1>2 DEF StandsFor

(* A step that leaves the roles, and what they are given, alone. *)
LEMMA ExpandingKept ==
  ASSUME Expanding, flavor' = flavor, roles' = roles, Given' = Given, attr' = attr, todo' = todo,
         status' = status
  PROVE  Expanding'
<1>1. \A id \in Ids : Expanded(id)' <=> Expanded(id)
  BY MeaningKept DEF Expanded
<1>2. \A id \in Ids : StandsFor(roles, id)' = StandsFor(roles, id) /\ StandsFor(Given, id)' = StandsFor(Given, id)
  BY MeaningKept
<1>3. status' \in {"roles", "linked"} =>
         \A id \in Ids : IsAttribute(id)' =>
            /\ StandsFor(roles, id)' = StandsFor(Given, id)'
            /\ id \in todo' \/ id = attr' \/ Expanded(id)'
  BY <1>1, <1>2, MeaningKept DEF Expanding
<1>4. attr' # NoId => IsAttribute(attr)' /\ attr' \in Ids
  BY MeaningKept DEF Expanding
<1>5. \A id \in todo' : IsAttribute(id)'
  BY MeaningKept DEF Expanding
<1> QED
  BY <1>3, <1>4, <1>5 DEF Expanding

(* Before the roles are populated there is nothing to say about attributes. *)
LEMMA NotExpandingYet ==
  ASSUME Expanding, attr' = attr, todo' = todo, status \in Gathering, status' \notin {"roles", "linked"}
  PROVE  Expanding'
BY DEF Expanding

LEMMA RolesOfCopy ==
  ASSUME RolesInv, Copy
  PROVE  RolesInv'
<1>1. /\ DeclInv /\ IndInv /\ AgreeInv /\ roles \in [Ids -> SUBSET RoleIds]
      /\ BlockDecls /\ GatheredRoles /\ OnIsNamed /\ Expanding
  BY RolesSplit DEF DeclInv
<1>2. DeclInv' /\ AgreeInv'
  BY <1>1, DeclInductive, AgreeInductive DEF Next
<1>3. /\ attr' = attr /\ todo' = todo /\ status \in {"identifiers", "blocks", "scopes"}
      /\ status' \in {"identifiers", "blocks", "scopes", "failed"} /\ mods' = mods
  BY DEF Copy, copy_identifiers, IdentifiersRefused, copy_avrule_block, BlocksCopied, scope_copy,
         ScopesRefused, Fail, Identifiers, copied
<1>4. OnIsNamed' /\ Expanding'
  BY <1>1, <1>3, NotExpandingYet DEF OnIsNamed, Gathering
<1>5. CASE copy_identifiers
  <2>1. GatheredRoles'
    BY <1>1, <1>5, GatheredIdentifiers
  <2>2. /\ global' = global /\ decls' = decls
        /\ roles' = [id \in Ids |-> roles[id] \cup Module.roles[id]]
        /\ status = "identifiers" /\ at.module <= Len(mods)
    BY <1>5 DEF copy_identifiers, Identifiers
  <2>3. BlockDecls'
    BY <1>1, <2>2, BlockDeclsKept
  <2>4. WellFormedPolicy(Module)
    <3>1. at.module \in DOMAIN mods /\ mods \in Loads
      BY <1>1, <2>2, LoadDomain DEF IndInv
    <3> QED
      BY <3>1, LoadsAssumption DEF Module
  <2>5. roles' \in [Ids -> SUBSET RoleIds]
    BY <1>1, <2>2, <2>4 DEF WellFormedPolicy
  <2> QED
    BY <1>2, <1>4, <2>1, <2>3, <2>5, RolesJoin
<1>6. CASE copy_avrule_block
  <2>1. roles' = roles /\ status' = status /\ status = "blocks" /\ at' = [at EXCEPT !.block = @ + 1]
    BY <1>6 DEF copy_avrule_block, symbols
  <2>2. at'.module = at.module
    BY <1>1, <2>1 DEF IndInv
  <2>3. GatheredRoles'
    BY <1>1, <1>3, <2>1, <2>2, GatheredKept DEF Gathered
  <2>4. BlockDecls'
    BY <1>1, <1>6, BlockDeclsCopied
  <2> QED
    BY <1>1, <1>2, <1>4, <2>1, <2>3, <2>4, RolesJoin
<1>7. CASE scope_copy
  <2>1. /\ roles' = roles /\ global' = global /\ decls' = decls /\ status = "scopes"
        /\ status' = "identifiers" /\ at' = [module |-> at.module + 1, block |-> 1]
    BY <1>7 DEF scope_copy, symbols
  <2>2. BlockDecls'
    BY <1>1, <2>1, BlockDeclsKept
  <2>3. at.module \in Nat /\ DOMAIN mods = 1 .. Len(mods) /\ Len(mods) \in Nat
    BY <1>1, LoadDomain DEF IndInv
  <2>4. GatheredRoles'
    <3>1. \A m \in DOMAIN mods : Gathered(m)' <=> Gathered(m)
      BY <2>1, <2>3 DEF Gathered
    <3> QED
      BY <1>1, <1>3, <2>1, <3>1, GatheredKept DEF Gathering
  <2> QED
    BY <1>1, <1>2, <1>4, <2>1, <2>2, <2>4, RolesJoin
<1>8. CASE BlocksCopied
  <2>1. /\ roles' = roles /\ global' = global /\ decls' = decls /\ status = "blocks"
        /\ status' = "scopes" /\ at' = at
    BY <1>8 DEF BlocksCopied, copied
  <2>2. BlockDecls'
    BY <1>1, <2>1, BlockDeclsKept
  <2>3. GatheredRoles'
    BY <1>1, <1>3, <2>1, GatheredKept DEF Gathered, Gathering
  <2> QED
    BY <1>1, <1>2, <1>4, <2>1, <2>2, <2>3, RolesJoin
<1>9. CASE IdentifiersRefused \/ ScopesRefused
  <2>1. roles' = roles /\ global' = global /\ decls' = decls /\ status' = "failed"
    BY <1>9 DEF IdentifiersRefused, ScopesRefused, Fail, copied
  <2>2. BlockDecls'
    BY <1>1, <2>1, BlockDeclsKept
  <2>3. GatheredRoles'
    BY <2>1 DEF GatheredRoles, Gathering
  <2> QED
    BY <1>1, <1>2, <1>4, <2>1, <2>2, <2>3, RolesJoin
<1> QED
  BY <1>5, <1>6, <1>7, <1>8, <1>9 DEF Copy

LEMMA RolesOfEnable ==
  ASSUME RolesInv, Enable
  PROVE  RolesInv'
<1>1. /\ DeclInv /\ IndInv /\ AgreeInv /\ roles \in [Ids -> SUBSET RoleIds]
      /\ BlockDecls /\ GatheredRoles /\ Expanding
  BY RolesSplit DEF DeclInv
<1>2. DeclInv' /\ AgreeInv'
  BY <1>1, DeclInductive, AgreeInductive DEF Next
<1>3. roles' = roles /\ mods' = mods /\ attr' = attr /\ todo' = todo /\ at'.module = at.module /\ BlockDecls'
  BY <1>1, EnableBlocks, BlockDeclsKept
<1>4. /\ status \in {"identifiers", "enabling", "else"}
      /\ status' \in {"enabling", "else", "populate", "missing"}
      /\ status' = "populate" => EnableElse
  BY DEF Enable, StartEnabling, KeepBlock, DisableBlock, RequirementMissing, NextRound, EnableElse, AtBlock
<1>5. OnIsNamed'
  BY <1>1, <1>4, ElseNames DEF OnIsNamed
<1>6. GatheredRoles'
  BY <1>1, <1>3, <1>4, GatheredKept DEF Gathered, Gathering
<1>7. Expanding'
  BY <1>1, <1>3, <1>4, NotExpandingYet DEF Gathering
<1> QED
  BY <1>1, <1>2, <1>3, <1>5, <1>6, <1>7, RolesJoin

(* expand_role_attributes, step by step: the meaning of every attribute is
   kept, and only the attribute at hand is not expanded yet. *)
LEMMA RolesOfExpand ==
  ASSUME RolesInv, ExpandRoles
  PROVE  RolesInv'
<1>1. /\ DeclInv /\ AgreeInv /\ roles \in [Ids -> SUBSET RoleIds]
      /\ BlockDecls /\ GatheredRoles /\ OnIsNamed /\ Expanding
  BY RolesSplit
<1>2. DeclInv' /\ AgreeInv'
  BY <1>1, DeclInductive, AgreeInductive DEF Next
<1>3. /\ UNCHANGED <<mods, flavor, decls, global, on>>
      /\ status \in {"populate", "roles"} /\ status' \in {"roles", "linked"}
  BY DEF ExpandRoles, populate_roleattributes, NextAttribute, Escalate, AttributeDone, Finish, copied
<1>4. BlockDecls' /\ GatheredRoles' /\ OnIsNamed'
  BY <1>1, <1>3, BlockDeclsKept DEF GatheredRoles, OnIsNamed, Gathering
<1>5. Given' = Given
  BY <1>3 DEF Given
<1>6. /\ \A id : IsAttribute(id)' <=> IsAttribute(id)
      /\ \A R, id : StandsFor(R, id)' = StandsFor(R, id)
  BY <1>3, MeaningKept
<1>7. \A id : Expanded(id)' <=> \A member \in roles'[id] : ~IsAttribute(member)
  BY <1>6 DEF Expanded
<1> DEFINE AsMeant ==
          /\ roles' \in [Ids -> SUBSET RoleIds]
          /\ \A id \in Ids : IsAttribute(id) =>
                /\ StandsFor(roles', id) = StandsFor(Given, id)
                /\ id \in todo' \/ id = attr' \/ \A member \in roles'[id] : ~IsAttribute(member)
          /\ attr' # NoId => IsAttribute(attr') /\ attr' \in Ids
          /\ \A id \in todo' : IsAttribute(id)
          /\ status' = "linked" => todo' = {} /\ attr' = NoId
<1>8. SUFFICES AsMeant
  <2>1. \A id \in Ids : StandsFor(roles, id)' = StandsFor(roles', id) /\ StandsFor(Given, id)' = StandsFor(Given, id)
    BY <1>5, <1>6
  <2>2. IsAttribute(attr)' <=> IsAttribute(attr')
    BY <1>6
  <2>3. Expanding'
    BY <1>3, <1>6, <1>7, <1>8, <2>1, <2>2 DEF Expanding, Gathering
  <2> QED
    BY <1>2, <1>4, <1>8, <2>3, RolesJoin
<1>9. CASE populate_roleattributes
  <2>1. /\ roles' \in [Ids -> SUBSET RoleIds]
        /\ \A id \in Ids : IsAttribute(id) => roles'[id] = Given[id]
    BY <1>1, <1>9, PopulatedIsGiven
  <2>2. attr' = attr /\ status' = "roles" /\ todo' = {id \in Ids : IsAttribute(id)}
    BY <1>9 DEF populate_roleattributes
  <2>3. \A id \in Ids : IsAttribute(id) => StandsFor(roles', id) = StandsFor(Given, id)
    BY <2>1, SameMeaning
  <2> QED
    BY <1>1, <2>1, <2>2, <2>3 DEF Expanding
<1>10. ASSUME NEW next \in Ids, NextAttribute(next)
       PROVE  AsMeant
  <2>1. /\ status = "roles" /\ status' = "roles" /\ attr = NoId /\ next \in todo
        /\ attr' = next /\ todo' = todo \ {next} /\ roles' = roles
    BY <1>10 DEF NextAttribute
  <2>2. \A id \in Ids : IsAttribute(id) =>
           /\ StandsFor(roles', id) = StandsFor(Given, id)
           /\ id \in todo' \/ id = attr' \/ \A member \in roles'[id] : ~IsAttribute(member)
    BY <1>1, <2>1, NoIdAssumption DEF Expanding, Expanded
  <2>3. \A id \in todo : IsAttribute(id)
    BY <1>1 DEF Expanding
  <2> QED
    BY <1>1, <2>1, <2>2, <2>3
<1>11. ASSUME NEW sub \in Ids, Escalate(sub)
       PROVE  AsMeant
  <2>1. /\ status = "roles" /\ status' = "roles" /\ attr # NoId /\ attr' = attr /\ todo' = todo
        /\ sub \in roles[attr] /\ IsAttribute(sub)
        /\ roles' = [roles EXCEPT ![attr] = IF sub = attr THEN @ \ {sub} ELSE (@ \ {sub}) \cup roles[sub]]
    BY <1>11 DEF Escalate, SubAttributes
  <2>2. attr \in Ids /\ IsAttribute(attr) /\ sub \in RoleIds
    BY <1>1, <2>1 DEF Expanding, IsAttribute, RoleIds
  <2>3. roles' \in [Ids -> SUBSET RoleIds]
    BY <1>1, <2>1, <2>2
  <2>4. \A id \in Ids : StandsFor(roles', id) = StandsFor(roles, id)
    BY <1>1, <2>1, <2>2, <2>3, ReplacingKeepsMeaning
  <2>5. \A id \in Ids : id # attr => roles'[id] = roles[id]
    BY <1>1, <2>1
  <2> QED
    BY <1>1, <2>1, <2>2, <2>3, <2>4, <2>5 DEF Expanding, Expanded
<1>12. CASE AttributeDone
  <2>1. /\ status = "roles" /\ status' = "roles" /\ attr # NoId /\ attr' = NoId
        /\ todo' = todo /\ roles' = roles /\ \A member \in roles[attr] : ~IsAttribute(member)
    BY <1>12 DEF AttributeDone, SubAttributes
  <2> QED
    BY <1>1, <2>1 DEF Expanding, Expanded
<1>13. CASE Finish
  <2>1. /\ status = "roles" /\ status' = "linked" /\ attr = NoId /\ attr' = attr
        /\ todo = {} /\ todo' = todo /\ roles' = roles
    BY <1>13 DEF Finish
  <2> QED
    BY <1>1, <2>1 DEF Expanding, Expanded
<1> QED
  BY <1>9, <1>10, <1>11, <1>12, <1>13 DEF ExpandRoles

LEMMA RolesInductive == RolesInv /\ [Next]_vars => RolesInv'
<1> SUFFICES ASSUME RolesInv, [Next]_vars PROVE RolesInv'
  OBVIOUS
<1>1. CASE UNCHANGED vars
  <2>1. /\ DeclInv /\ AgreeInv /\ roles \in [Ids -> SUBSET RoleIds]
        /\ BlockDecls /\ GatheredRoles /\ OnIsNamed /\ Expanding
    BY RolesSplit
  <2>2. DeclInv' /\ AgreeInv'
    BY <2>1, DeclInductive, AgreeInductive
  <2>3. UNCHANGED <<mods, flavor, roles, decls, global, on, status, at, attr, todo>>
    BY <1>1 DEF vars
  <2>4. BlockDecls'
    BY <2>1, <2>3, BlockDeclsKept
  <2>5. GatheredRoles'
    BY <2>1, <2>3, GatheredKept DEF Gathered
  <2>6. OnIsNamed'
    BY <2>1, <2>3 DEF OnIsNamed
  <2>7. Expanding'
    <3>1. Given' = Given
      BY <2>3 DEF Given
    <3> QED
      BY <2>1, <2>3, <3>1, ExpandingKept
  <2> QED
    BY <2>1, <2>2, <2>3, <2>4, <2>5, <2>6, <2>7, RolesJoin
<1> QED
  BY <1>1, RolesOfCopy, RolesOfEnable, RolesOfExpand DEF Next

(* When link_modules succeeds, every role attribute of the base holds exactly
   the roles it stands for: expand_role_attributes takes the attributes in any
   order, rescans a set each time an attribute in it was replaced, and may meet
   attributes that hold themselves or one another; as long as it ends, nothing
   is lost and nothing is added. *)
THEOREM RolesAreExpanded == Spec => []RolesExpanded
<1>1. RolesInv => RolesExpanded
  <2> SUFFICES ASSUME RolesInv, status = "linked", NEW id \in Ids, IsAttribute(id)
               PROVE  roles[id] = StandsFor(Given, id)
    BY DEF RolesExpanded
  <2>1. /\ roles \in [Ids -> SUBSET RoleIds] /\ Expanding
    BY RolesSplit
  <2>2. Expanded(id) /\ StandsFor(roles, id) = StandsFor(Given, id)
    BY <2>1, NoIdAssumption DEF Expanding
  <2>3. StandsFor(roles, id) = roles[id]
    BY <2>1, <2>2, ExpandedStandsForItself DEF Expanded
  <2> QED
    BY <2>2, <2>3
<1> QED
  BY <1>1, RolesInitially, RolesInductive, PTL DEF Spec
=============================================================================
