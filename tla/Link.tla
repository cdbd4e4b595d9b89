-------------------------------- MODULE Link --------------------------------
(***************************************************************************)
(* link_modules (link.c): modules are copied one after the other into the  *)
(* base policy, then enable_avrules decides which declarations of the      *)
(* result are in force, and the role attributes are expanded.              *)
(*                                                                         *)
(* A symbol is its name: the value maps of policy_module_t translate       *)
(* between the numberings of two policies and are left out, and so are the *)
(* rule lists of a declaration, which are copied and renumbered.  The      *)
(* flavor of a symbol stands for what two policies must agree on: type or  *)
(* attribute, role or role attribute, boolean or tunable.  A permission is *)
(* a symbol of kind "perm" with its class in ClassOf.                      *)
(*                                                                         *)
(* Policies come indexed and with their scope tables filled by             *)
(* symtab_insert, as checkpolicy (external) builds them.                   *)
(***************************************************************************)
EXTENDS Integers, Sequences, FiniteSets, SequencesExt

CONSTANTS Ids,        \* names of symbols
          Kind,       \* [Ids -> Kinds]
          ClassOf,    \* [Ids -> Ids], the class of a permission
          Flavors, Attribute, \* flavors, and the one of role attributes
          NoId, NoFlavor,
          Base,       \* the base policy
          Loads       \* the sequences of modules that are linked into it

Kinds == {"type", "role", "user", "bool", "class", "perm", "level"}
Scopes == {"none", "req", "decl"}

RoleIds == {id \in Ids : Kind[id] = "role"}

\* What a policy is, as far as linking goes.  A declaration lists the symbols
\* it requires and declares and its local additions to role attributes.
DeclType == [id : Nat \ {0}, required : SUBSET Ids, declared : SUBSET Ids,
             roles : [Ids -> SUBSET RoleIds]]
ScopeType == [scope : Scopes, decl_ids : Seq(Nat \ {0})]

SourceBlock == [optional : BOOLEAN, branch_list : Seq(DeclType)]

DeclIdsOf(blocks) == UNION {{blocks[b].branch_list[d].id : d \in DOMAIN blocks[b].branch_list}
                            : b \in DOMAIN blocks}

WellFormedPolicy(p) ==
    /\ p.flavor \in [Ids -> Flavors \cup {NoFlavor}]
    /\ p.scope \in [Ids -> ScopeType]
    /\ p.bounds \in [Ids -> Ids \cup {NoId}]
    /\ p.roles \in [Ids -> SUBSET RoleIds]
    /\ p.blocks \in Seq(SourceBlock)
    /\ p.blocks # <<>>
    /\ \A b \in DOMAIN p.blocks : Len(p.blocks[b].branch_list) \in 1 .. 2
    /\ \A b \in DOMAIN p.blocks : \A d \in DOMAIN p.blocks[b].branch_list :
          \A c \in DOMAIN p.blocks : \A e \in DOMAIN p.blocks[c].branch_list :
              p.blocks[b].branch_list[d].id = p.blocks[c].branch_list[e].id => b = c /\ d = e

ASSUME BaseAssumption ==
    /\ WellFormedPolicy(Base)
    /\ \E m \in DeclIdsOf(Base.blocks) : \A i \in DeclIdsOf(Base.blocks) : i <= m
ASSUME LoadsAssumption ==
    \A l \in Loads : /\ l \in Seq(ToSet(l))
                     /\ \A m \in DOMAIN l : WellFormedPolicy(l[m])
ASSUME NoIdAssumption == NoId \notin Ids

\* checkpolicy (external) puts what the first block adds to a role attribute
\* into the role table of the policy itself, p.roles.
ASSUME FirstBlockAssumption ==
    \A d \in DOMAIN Base.blocks[1].branch_list : \A id \in Ids :
        Base.blocks[1].branch_list[d].roles[id] = {}

-----------------------------------------------------------------------------
(***************************************************************************)
(* Scope tables.                                                           *)
(***************************************************************************)
DeclsOf(blocks) ==
    [i \in DeclIdsOf(blocks) |->
        CHOOSE x \in UNION {ToSet(blocks[b].branch_list) : b \in DOMAIN blocks} : x.id = i]

\* What symtab_insert maintains: the list names declarations of the policy and
\* ends with one that declares the symbol ("keep the decl at the end").
ScopeNamesDeclarer(p, id) ==
    LET s == p.scope[id] IN
    /\ ToSet(s.decl_ids) \subseteq DeclIdsOf(p.blocks)
    /\ s.scope = "decl" => /\ s.decl_ids # <<>>
                           /\ id \in DeclsOf(p.blocks)[Last(s.decl_ids)].declared

Policies == {Base} \cup UNION {ToSet(l) : l \in Loads}
ASSUME ScopesAssumption == \A p \in Policies, id \in Ids : ScopeNamesDeclarer(p, id)

\* No policy that declares the symbol also requires it: its list then holds
\* declaring declarations only.
DeclaredOnly(id) ==
    \A p \in Policies : p.scope[id].scope = "decl" =>
        \A i \in DOMAIN p.scope[id].decl_ids :
            id \in DeclsOf(p.blocks)[p.scope[id].decl_ids[i]].declared

\* symtab_insert of policydb.c, for the scope datum of one symbol: a declaration
\* turns a requirement into a declaration, and a later requirement is put before
\* the last entry, which is the one is_id_enabled looks at.
symtab_insert(s, scope, decl) ==
    LET new == IF s.scope = "none" \/ (s.scope = "req" /\ scope = "decl") THEN scope ELSE s.scope
    IN [scope |-> new,
        decl_ids |-> IF decl \in ToSet(s.decl_ids) THEN s.decl_ids
                     ELSE IF new = "decl" /\ scope = "req"
                     THEN Append(Front(s.decl_ids), decl) \o <<Last(s.decl_ids)>>
                     ELSE Append(s.decl_ids, decl)]

\* A second declaration: only roles and users may have one.
Multiple(id) == Kind[id] \in {"role", "user"}
DuplicateDeclaration(id, bs, ms) == bs.scope = "decl" /\ ms.scope = "decl" /\ ~Multiple(id)

\* Mutant: a module's declaration is added to the list of requirers.
MergedScope_KeepsRequirers(bs, ms, map) ==
    LET ids == [i \in DOMAIN ms.decl_ids |-> map[ms.decl_ids[i]]]
    IN IF ms.scope = "none" \/ (bs.scope = "decl" /\ ms.scope = "req") THEN bs
       ELSE IF bs.scope # "decl" /\ ms.scope = "decl"
       THEN [scope |-> "decl", decl_ids |-> ids \o bs.decl_ids]
       ELSE [scope |-> IF bs.scope = "none" THEN "req" ELSE bs.scope,
             decl_ids |-> bs.decl_ids \o ids]

\* scope_copy_callback for one symbol, map being the module's avdecl_map.
MergedScope(bs, ms, map) ==
    LET ids == [i \in DOMAIN ms.decl_ids |-> map[ms.decl_ids[i]]]
    IN IF ms.scope = "none" \/ (bs.scope = "decl" /\ ms.scope = "req") THEN bs
       ELSE IF bs.scope # "decl" /\ ms.scope = "decl"
       THEN [scope |-> "decl", decl_ids |-> ids]
       ELSE [scope |-> IF bs.scope = "none" THEN "req" ELSE bs.scope,
             decl_ids |-> bs.decl_ids \o ids]

-----------------------------------------------------------------------------
VARIABLES mods,         \* the modules to link
          flavor, scope, bounds, roles,  \* of the base
          global,       \* blocks of the base: [optional, branch_list, enabled]
          decls,        \* decl_val_to_struct: [id -> the declaration]
          on,           \* ids of the declarations with enabled = 1
          next_decl_id, avdecl_map,
          status,       \* where link_modules is
          at,           \* module and block (copying), block (enabling)
          changed,      \* of enable_avrules
          attr, todo    \* role attribute being expanded, and those still to do

symbols == <<flavor, bounds, roles>>
copied == <<mods, flavor, bounds, scope, decls, next_decl_id, avdecl_map>>
vars == <<mods, flavor, scope, bounds, roles, global, decls, on, next_decl_id, avdecl_map,
          status, at, changed, attr, todo>>

Phases == {"identifiers", "blocks", "scopes", "enabling", "else", "populate", "roles"}

BlockOf(block) == [optional |-> block.optional, enabled |-> 0,
                   branch_list |-> [d \in DOMAIN block.branch_list |-> block.branch_list[d].id]]

\* prepare_base
Init == /\ mods \in Loads
        /\ flavor = Base.flavor /\ scope = Base.scope
        /\ bounds = Base.bounds /\ roles = Base.roles
        /\ global = [b \in DOMAIN Base.blocks |-> BlockOf(Base.blocks[b])]
        /\ decls = DeclsOf(Base.blocks)
        /\ on = {}
        /\ next_decl_id = 1 + CHOOSE m \in DeclIdsOf(Base.blocks) :
                                  \A i \in DeclIdsOf(Base.blocks) : i <= m
        /\ avdecl_map = <<>>
        /\ status = "identifiers"
        /\ at = [module |-> 1, block |-> 1]
        /\ changed = FALSE
        /\ attr = NoId /\ todo = {}

Module == mods[at.module]
Fail(reason) == /\ status' = reason
                /\ UNCHANGED <<copied, roles, global, on, at, changed, attr, todo>>

-----------------------------------------------------------------------------
(***************************************************************************)
(* Copying a module: its identifiers, its blocks, its scopes.              *)
(***************************************************************************)
Present(id) == flavor[id] # NoFlavor

\* Mutant: the flavor of a symbol that exists is not compared.
Acceptable_NoFlavorCheck(id) ==
    LET m == Module IN
    m.flavor[id] # NoFlavor =>
        CASE Kind[id] = "class" -> Present(id) \/ m.scope[id].scope = "req"
          [] Kind[id] = "level" -> Present(id)
          [] Kind[id] = "perm"  -> Present(id) \/ ~Present(ClassOf[id])
          [] OTHER -> TRUE

\* The copy callbacks: what makes a symbol of the module unacceptable.  A class
\* or a level cannot be declared by a module, a level must exist, and a
\* permission can be added only to a class that this module brings in.
Acceptable(id) ==
    LET m == Module IN
    m.flavor[id] # NoFlavor =>
        CASE Kind[id] \in {"type", "role", "bool"} -> Present(id) => flavor[id] = m.flavor[id]
          [] Kind[id] = "class" -> Present(id) \/ m.scope[id].scope = "req"
          [] Kind[id] = "level" -> Present(id)
          [] Kind[id] = "perm"  -> Present(id) \/ ~Present(ClassOf[id])
          [] OTHER -> TRUE

\* The bounds callbacks.
SameBounds(id) == Module.bounds[id] # NoId /\ bounds[id] # NoId => bounds[id] = Module.bounds[id]

Identifiers == status = "identifiers" /\ at.module <= Len(mods)

copy_identifiers ==
    /\ Identifiers
    /\ \A id \in Ids : Acceptable(id) /\ SameBounds(id)
    /\ flavor' = [id \in Ids |-> IF Present(id) THEN flavor[id] ELSE Module.flavor[id]]
    /\ bounds' = [id \in Ids |-> IF Module.bounds[id] # NoId THEN Module.bounds[id] ELSE bounds[id]]
    /\ roles' = [id \in Ids |-> roles[id] \cup Module.roles[id]]
    /\ status' = "blocks"
    /\ avdecl_map' = <<>>
    /\ UNCHANGED <<mods, scope, global, decls, on, next_decl_id, at, changed, attr, todo>>

IdentifiersRefused ==
    /\ Identifiers
    /\ \E id \in Ids : ~(Acceptable(id) /\ SameBounds(id))
    /\ Fail("failed")

Mapped(n, d) == n + d - 1

\* copy_avrule_block: the declarations of a block get the next ids.
copy_avrule_block ==
    /\ status = "blocks"
    /\ at.block <= Len(Module.blocks)
    /\ LET block == Module.blocks[at.block]
           count == Len(block.branch_list)
           New(d) == Mapped(next_decl_id, d)
       IN /\ global' = Append(global, [optional |-> block.optional, enabled |-> 0,
                                       branch_list |-> [d \in 1 .. count |-> New(d)]])
          /\ decls' = [i \in DOMAIN decls \cup {New(d) : d \in 1 .. count} |->
                         IF i \in DOMAIN decls THEN decls[i]
                         ELSE block.branch_list[i - next_decl_id + 1]]
          /\ avdecl_map' = [i \in DOMAIN avdecl_map \cup {block.branch_list[d].id : d \in 1 .. count} |->
                              IF i \in DOMAIN avdecl_map THEN avdecl_map[i]
                              ELSE New(CHOOSE d \in 1 .. count : block.branch_list[d].id = i)]
          /\ next_decl_id' = next_decl_id + count
    /\ at' = [at EXCEPT !.block = @ + 1]
    /\ UNCHANGED <<mods, symbols, scope, on, status, changed, attr, todo>>

BlocksCopied ==
    /\ status = "blocks"
    /\ at.block > Len(Module.blocks)
    /\ status' = "scopes"
    /\ UNCHANGED <<copied, roles, global, on, at, changed, attr, todo>>

scope_copy ==
    /\ status = "scopes"
    /\ \A id \in Ids : ~DuplicateDeclaration(id, scope[id], Module.scope[id])
    /\ scope' = [id \in Ids |-> MergedScope(scope[id], Module.scope[id], avdecl_map)]
    /\ status' = "identifiers"
    /\ at' = [module |-> at.module + 1, block |-> 1]
    /\ UNCHANGED <<mods, symbols, global, decls, on, next_decl_id, avdecl_map, changed, attr, todo>>

ScopesRefused ==
    /\ status = "scopes"
    /\ \E id \in Ids : DuplicateDeclaration(id, scope[id], Module.scope[id])
    /\ Fail("failed")

-----------------------------------------------------------------------------
(***************************************************************************)
(* enable_avrules.                                                         *)
(***************************************************************************)
\* is_id_enabled, S being the enabled declarations.
is_id_enabled(id, S) ==
    LET s == scope[id] IN
    /\ s.scope = "decl"
    /\ s.decl_ids # <<>>
    /\ IF Multiple(id) THEN \E i \in DOMAIN s.decl_ids : s.decl_ids[i] \in S
                       ELSE s.decl_ids[Len(s.decl_ids)] \in S

\* is_decl_requires_met (a permission only has to exist).
is_decl_requires_met(d, S) ==
    \A id \in decls[d].required :
        IF Kind[id] = "perm" THEN Present(id) ELSE is_id_enabled(id, S)

Main(b) == global[b].branch_list[1]

\* 1) enable all of the non-else blocks
StartEnabling ==
    /\ status = "identifiers" /\ at.module > Len(mods)
    /\ on' = {Main(b) : b \in DOMAIN global}
    /\ global' = [b \in DOMAIN global |-> [global[b] EXCEPT !.enabled = Main(b)]]
    /\ status' = "enabling"
    /\ at' = [at EXCEPT !.block = 1]
    /\ changed' = FALSE
    /\ UNCHANGED <<copied, roles, attr, todo>>

AtBlock == status = "enabling" /\ at.block <= Len(global)
Unmet == global[at.block].enabled # 0 /\ ~is_decl_requires_met(Main(at.block), on)
NextBlock == at' = [at EXCEPT !.block = @ + 1]

\* 2) iterate
KeepBlock ==
    /\ AtBlock /\ ~Unmet
    /\ NextBlock
    /\ UNCHANGED <<copied, roles, global, on, status, changed, attr, todo>>

\* Mutant: a disabled block does not cause another round.
DisableBlock_OneRound ==
    /\ AtBlock /\ Unmet /\ global[at.block].optional
    /\ on' = on \ {Main(at.block)}
    /\ global' = [global EXCEPT ![at.block].enabled = 0]
    /\ changed' = changed
    /\ NextBlock
    /\ UNCHANGED <<copied, roles, status, attr, todo>>

DisableBlock ==
    /\ AtBlock /\ Unmet /\ global[at.block].optional
    /\ on' = on \ {Main(at.block)}
    /\ global' = [global EXCEPT ![at.block].enabled = 0]
    /\ changed' = TRUE
    /\ NextBlock
    /\ UNCHANGED <<copied, roles, status, attr, todo>>

\* Mutant: a requirement of the base is reported whatever the block.
RequirementMissing_AnyBlock ==
    /\ AtBlock /\ Unmet
    /\ on' = on \ {Main(at.block)}
    /\ global' = [global EXCEPT ![at.block].enabled = 0]
    /\ changed' = TRUE
    /\ status' = "missing"
    /\ UNCHANGED <<copied, roles, at, attr, todo>>

RequirementMissing ==
    /\ AtBlock /\ Unmet /\ ~global[at.block].optional
    /\ on' = on \ {Main(at.block)}
    /\ global' = [global EXCEPT ![at.block].enabled = 0]
    /\ changed' = TRUE
    /\ status' = "missing"
    /\ UNCHANGED <<copied, roles, at, attr, todo>>

\* Mutant: the flag is not reset before a round.
NextRound_NeverReset ==
    /\ status = "enabling" /\ at.block > Len(global)
    /\ changed' = changed
    /\ at' = [at EXCEPT !.block = 1]
    /\ status' = IF changed THEN "enabling" ELSE "else"
    /\ UNCHANGED <<copied, roles, global, on, attr, todo>>

NextRound ==
    /\ status = "enabling" /\ at.block > Len(global)
    /\ changed' = FALSE
    /\ at' = [at EXCEPT !.block = 1]
    /\ status' = IF changed THEN "enabling" ELSE "else"
    /\ UNCHANGED <<copied, roles, global, on, attr, todo>>

\* 4) else handling, for every block but the first
TakesElse(b) == b > 1 /\ global[b].enabled = 0 /\ Len(global[b].branch_list) > 1
Else(b) == global[b].branch_list[2]

\* Mutant: an else branch is enabled although its block is.
EnableElse_Always ==
    /\ status = "else"
    /\ on' = on \cup {Else(b) : b \in {c \in DOMAIN global : c > 1 /\ Len(global[c].branch_list) > 1}}
    /\ global' = [b \in DOMAIN global |->
                    IF TakesElse(b) THEN [global[b] EXCEPT !.enabled = Else(b)] ELSE global[b]]
    /\ status' = "populate"
    /\ UNCHANGED <<copied, roles, at, changed, attr, todo>>

EnableElse ==
    /\ status = "else"
    /\ on' = on \cup {Else(b) : b \in {c \in DOMAIN global : TakesElse(c)}}
    /\ global' = [b \in DOMAIN global |->
                    IF TakesElse(b) THEN [global[b] EXCEPT !.enabled = Else(b)] ELSE global[b]]
    /\ status' = "populate"
    /\ UNCHANGED <<copied, roles, at, changed, attr, todo>>

-----------------------------------------------------------------------------
(***************************************************************************)
(* Role attributes.  hashtab_map visits them in an order given by their    *)
(* names' hashes: any order.                                               *)
(***************************************************************************)
IsAttribute(id) == Kind[id] = "role" /\ flavor[id] = Attribute

\* What the enabled declarations outside the first block add to an attribute.
LocalRoles(id) ==
    UNION {decls[global[b].enabled].roles[id] :
              b \in {c \in DOMAIN global : c > 1 /\ global[c].enabled # 0}}

populate_roleattributes ==
    /\ status = "populate"
    /\ roles' = [id \in Ids |-> IF IsAttribute(id) THEN roles[id] \cup LocalRoles(id) ELSE roles[id]]
    /\ todo' = {id \in Ids : IsAttribute(id)}
    /\ status' = "roles"
    /\ UNCHANGED <<copied, global, on, at, changed, attr>>

NextAttribute(id) ==
    /\ status = "roles" /\ attr = NoId
    /\ id \in todo
    /\ attr' = id /\ todo' = todo \ {id}
    /\ UNCHANGED <<copied, roles, global, on, status, at, changed>>

SubAttributes == {id \in roles[attr] : IsAttribute(id)}

\* Mutant: the members of a sub-attribute replace it only one level deep.
Escalate_OneLevel(sub) ==
    /\ status = "roles" /\ attr # NoId
    /\ sub \in SubAttributes
    /\ roles' = [roles EXCEPT ![attr] = (@ \ {sub}) \cup {id \in roles[sub] : ~IsAttribute(id)}]
    /\ UNCHANGED <<copied, global, on, status, at, changed, attr, todo>>

\* expand_role_attributes, one sub-attribute: it is replaced by its members.
Escalate(sub) ==
    /\ status = "roles" /\ attr # NoId
    /\ sub \in SubAttributes
    /\ roles' = [roles EXCEPT ![attr] = IF sub = attr THEN @ \ {sub}
                                                      ELSE (@ \ {sub}) \cup roles[sub]]
    /\ UNCHANGED <<copied, global, on, status, at, changed, attr, todo>>

AttributeDone ==
    /\ status = "roles" /\ attr # NoId
    /\ SubAttributes = {}
    /\ attr' = NoId
    /\ UNCHANGED <<copied, roles, global, on, status, at, changed, todo>>

Finish ==
    /\ status = "roles" /\ attr = NoId /\ todo = {}
    /\ status' = "linked"
    /\ UNCHANGED <<copied, roles, global, on, at, changed, attr, todo>>

Copy == copy_identifiers \/ IdentifiersRefused \/ copy_avrule_block \/ BlocksCopied
            \/ scope_copy \/ ScopesRefused
Enable == StartEnabling \/ KeepBlock \/ DisableBlock \/ RequirementMissing \/ NextRound \/ EnableElse
ExpandRoles == populate_roleattributes \/ (\E id \in Ids : NextAttribute(id) \/ Escalate(id))
                  \/ AttributeDone \/ Finish
Next == Copy \/ Enable \/ ExpandRoles

Spec == Init /\ [][Next]_vars

\* link_modules is one call of one thread: it runs until it returns.
FairSpec == Spec /\ WF_vars(Next)

-----------------------------------------------------------------------------
(***************************************************************************)
(* Properties.                                                             *)
(***************************************************************************)
Mains == {Main(b) : b \in DOMAIN global}
Consistent(S) == \A d \in S : is_decl_requires_met(d, S)
Settled == status \in {"else", "populate", "roles", "linked"}

\* enable_avrules "will correctly handle all dependencies, including mutual and
\* circular": what stays enabled is consistent, and it is the largest such set,
\* whatever the order of the blocks.
EnabledIsGreatest ==
    Settled => /\ Consistent(on \cap Mains)
               /\ \A S \in SUBSET Mains : Consistent(S) => S \subseteq on

\* Linking is refused for a missing requirement only if no consistent choice of
\* optional blocks keeps every block that is not optional.
RefusalJustified ==
    status = "missing" =>
        \A S \in SUBSET Mains : Consistent(S) =>
            \E b \in DOMAIN global : ~global[b].optional /\ Main(b) \notin S

\* Of a block with two branches exactly one is in force after the else handling,
\* and block->enabled is the declaration whose flag is set.
OneBranch ==
    status \in {"populate", "roles", "linked"} =>
        \A b \in DOMAIN global :
            LET list == ToSet(global[b].branch_list) IN
            /\ on \cap list = {global[b].enabled} \ {0}
            /\ b > 1 /\ Len(global[b].branch_list) = 2 => global[b].enabled # 0

\* What makes the two inductive.  Declarations keep ids of their own through
\* the copying; while blocks are being disabled every consistent set is still
\* enabled, and in a round without a change the blocks passed are satisfied.
BlockType == [optional : BOOLEAN, enabled : Nat, branch_list : Seq(Nat \ {0})]

UniqueDecls ==
    /\ next_decl_id \in Nat \ {0}
    /\ global \in Seq(BlockType)
    /\ \A b \in DOMAIN global : Len(global[b].branch_list) \in 1 .. 2
    /\ \A b \in DOMAIN global : \A d \in DOMAIN global[b].branch_list :
          /\ global[b].branch_list[d] < next_decl_id
          /\ \A c \in DOMAIN global : \A e \in DOMAIN global[c].branch_list :
                global[b].branch_list[d] = global[c].branch_list[e] => b = c /\ d = e

KeepsConsistent == \A S \in SUBSET Mains : Consistent(S) => S \subseteq on

Passed(c) == Main(c) \in on => is_decl_requires_met(Main(c), on)

Flagged == \A b \in DOMAIN global : global[b].enabled = IF Main(b) \in on THEN Main(b) ELSE 0

Enabling == /\ on \subseteq Mains
            /\ Flagged
            /\ KeepsConsistent
            /\ ~changed => \A c \in DOMAIN global : c < at.block => Passed(c)

IndInv ==
    /\ mods \in Loads
    /\ at \in [module : Nat \ {0}, block : Nat \ {0}]
    /\ status \in {"identifiers", "blocks", "scopes"} => on = {}
    /\ status \in {"blocks", "scopes"} => at.module <= Len(mods)
    /\ UniqueDecls
    /\ status = "enabling" => Enabling
    /\ status = "else" => on \subseteq Mains /\ Flagged
    /\ EnabledIsGreatest
    /\ RefusalJustified
    /\ OneBranch

\* Every symbol an enabled block requires is declared by an enabled
\* declaration (the scope lists that travel through symtab_insert,
\* scope_copy_callback and the renumbering of declarations still say who
\* declares it).
RequirementsDeclared ==
    Settled =>
        \A d \in on \cap Mains : \A id \in decls[d].required :
            Kind[id] # "perm" => \E e \in on : id \in decls[e].declared

\* What makes it inductive.  The scope of a symbol that is declared ends with a
\* declaration that declares it; while a module is copied, avdecl_map leads
\* from the declarations of the blocks copied so far to their copies.
DeclaredBy(d, id) == d \in DOMAIN decls /\ id \in decls[d].declared

ScopesNameDeclarers ==
    \A id \in Ids : scope[id].scope = "decl" =>
        /\ scope[id].decl_ids # <<>>
        /\ DeclaredBy(Last(scope[id].decl_ids), id)
        /\ Multiple(id) /\ DeclaredOnly(id) => \A i \in DOMAIN scope[id].decl_ids :
                                                  DeclaredBy(scope[id].decl_ids[i], id)

MapLeadsToCopies ==
    status \in {"blocks", "scopes"} =>
        /\ DOMAIN avdecl_map = UNION {{Module.blocks[b].branch_list[d].id :
                                           d \in DOMAIN Module.blocks[b].branch_list}
                                      : b \in {c \in DOMAIN Module.blocks : c < at.block}}
        /\ \A i \in DOMAIN avdecl_map :
              /\ avdecl_map[i] \in DOMAIN decls
              /\ decls[avdecl_map[i]] = DeclsOf(Module.blocks)[i]

DeclInv ==
    /\ IndInv
    /\ \A i \in DOMAIN decls : i \in Nat \ {0} /\ i < next_decl_id /\ decls[i] \in DeclType
    /\ Mains \subseteq DOMAIN decls
    /\ scope \in [Ids -> ScopeType]
    /\ status = "identifiers" => at.block = 1
    /\ status = "scopes" => at.block > Len(Module.blocks)
    /\ ScopesNameDeclarers
    /\ MapLeadsToCopies

\* The base and all linked modules agree on the flavor and bounds of a symbol.
Agrees(m) ==
    \A id \in Ids :
        /\ mods[m].flavor[id] # NoFlavor /\ Kind[id] \in {"type", "role", "bool"} =>
              mods[m].flavor[id] = flavor[id]
        /\ mods[m].bounds[id] # NoId => mods[m].bounds[id] = bounds[id]

SymbolsAgree == Settled => \A m \in DOMAIN mods : Agrees(m)

\* What makes it inductive: the modules whose identifiers were copied agree.
AgreeInv ==
    /\ mods \in Loads
    /\ at \in [module : Nat \ {0}, block : Nat \ {0}]
    /\ status \notin {"identifiers", "blocks", "scopes", "failed"} => at.module > Len(mods)
    /\ \A m \in DOMAIN mods :
          m < at.module \/ (m = at.module /\ status \in {"blocks", "scopes"}) => Agrees(m)

\* The roles an attribute stands for, members being given by R: those in every
\* set that holds its members and, with an attribute, the members of that one.
Closed(S, R) == \A a \in S : IsAttribute(a) => R[a] \subseteq S
StandsFor(R, id) == {role \in RoleIds :
                       /\ ~IsAttribute(role)
                       /\ \A S \in SUBSET RoleIds :
                             R[id] \subseteq S /\ Closed(S, R) => role \in S}

\* The members an attribute is given by the base, by the modules and by the
\* enabled declarations.
Given == [id \in Ids |-> UNION ({Base.roles[id]}
                                    \cup {mods[m].roles[id] : m \in DOMAIN mods}
                                    \cup {decls[d].roles[id] : d \in on})]

\* When linking has succeeded an attribute holds exactly the roles it stands
\* for, in whatever order expand_role_attributes took the attributes and the
\* members of each, attributes that hold one another included.
RolesExpanded ==
    status = "linked" => \A id \in Ids : IsAttribute(id) => roles[id] = StandsFor(Given, id)

\* What makes it inductive.  Roles are gathered from the modules one by one; the
\* enabled declarations are those the blocks name; replacing an attribute by its
\* members changes what no attribute stands for; and an attribute that was
\* expanded stays so.
Gathering == {"identifiers", "blocks", "scopes", "enabling", "else", "populate"}
Gathered(m) == m < at.module \/ (m = at.module /\ status \in {"blocks", "scopes"})

BlocksHaveDecls == \A b \in DOMAIN global : ToSet(global[b].branch_list) \subseteq DOMAIN decls

FirstBlockAddsNothing == \A d \in ToSet(global[1].branch_list), id \in Ids : decls[d].roles[id] = {}

Expanded(id) == \A member \in roles[id] : ~IsAttribute(member)

RolesInv ==
    /\ DeclInv
    /\ AgreeInv
    /\ roles \in [Ids -> SUBSET RoleIds]
    /\ 1 \in DOMAIN global
    /\ BlocksHaveDecls
    /\ FirstBlockAddsNothing
    /\ status \in Gathering =>
          \A id \in Ids : roles[id] = Base.roles[id]
                              \cup UNION {mods[m].roles[id] : m \in {n \in DOMAIN mods : Gathered(n)}}
    /\ status \in {"populate", "roles", "linked"} =>
          on = {global[b].enabled : b \in DOMAIN global} \ {0}
    /\ status \in {"roles", "linked"} =>
          \A id \in Ids : IsAttribute(id) =>
              /\ StandsFor(roles, id) = StandsFor(Given, id)
              /\ id \in todo \/ id = attr \/ Expanded(id)
    /\ attr # NoId => IsAttribute(attr) /\ attr \in Ids
    /\ \A id \in todo : IsAttribute(id)
    /\ status \in Gathering => todo = {} /\ attr = NoId
    /\ status = "linked" => todo = {} /\ attr = NoId

\* link_modules returns.
Terminates == <>(status \in {"linked", "failed", "missing"})
=============================================================================
