------------------------------- MODULE MCLink -------------------------------
(***************************************************************************)
(* Small policies for Link.                                                *)
(***************************************************************************)
EXTENDS Link

CONSTANTS t0, tA, tB, tC, tD, tX, tY, tE, r0, r1, ra, rb, rc, flag, c0, c1, p0, p1, p2,
          plain, tunable

MCIds == {t0, tA, tB, tC, tD, tX, tY, tE, r0, r1, ra, rb, rc, flag, c0, c1, p0, p1, p2}
MCKind == [i \in MCIds |-> CASE i \in {r0, r1, ra, rb, rc} -> "role"
                             [] i = flag -> "bool"
                             [] i \in {c0, c1} -> "class"
                             [] i \in {p0, p1, p2} -> "perm"
                             [] OTHER -> "type"]
MCClassOf == [i \in MCIds |-> IF i \in {p1, p2} THEN c1 ELSE c0]
NoMembers == [i \in MCIds |-> {}]
NoBounds == [i \in MCIds |-> NoId]
Put(i, S) == [NoMembers EXCEPT ![i] = S]

\* The scope table that symtab_insert builds when the declarations are compiled
\* in order, requirements before declarations.
Compiled(i, list) ==
    LET Required(s, d) == IF i \in d.required THEN symtab_insert(s, "req", d.id) ELSE s
        Declared(s, d) == IF i \in d.declared THEN symtab_insert(s, "decl", d.id) ELSE s
    IN FoldLeft(LAMBDA s, d : Declared(Required(s, d), d), [scope |-> "none", decl_ids |-> <<>>], list)

DeclsIn(blocks) == FlattenSeq([b \in DOMAIN blocks |-> blocks[b].branch_list])
Named(list) == UNION {list[d].required \cup list[d].declared : d \in DOMAIN list}

Policy(blocks, members, bnds, other) ==
    LET list == DeclsIn(blocks) IN
    [flavor |-> [i \in MCIds |-> IF i \notin Named(list) THEN NoFlavor
                                 ELSE IF i \in {ra, rb, rc} THEN Attribute
                                 ELSE IF i \in other THEN tunable ELSE plain],
     scope |-> [i \in MCIds |-> Compiled(i, list)],
     bounds |-> bnds, roles |-> members, blocks |-> blocks]

D(n, req, dec) == [id |-> n, required |-> req, declared |-> dec, roles |-> NoMembers]
Global(req, dec) == [optional |-> FALSE, branch_list |-> <<D(1, req, dec)>>]
Opt(n, req, dec) == [optional |-> TRUE, branch_list |-> <<D(n, req, dec)>>]
OptElse(n, req, dec, e) == [optional |-> TRUE, branch_list |-> <<D(n, req, dec), D(n + 1, {}, e)>>]
OptRoles(n, req, m) == [optional |-> TRUE, branch_list |-> <<[D(n, req, {}) EXCEPT !.roles = m]>>]
Simple(blocks) == Policy(blocks, NoMembers, NoBounds, {})

MCBase == Policy(<<Global({}, {t0, r0, ra, c0, p0, flag}), Opt(2, {tB}, {})>>, Put(ra, {r0}), NoBounds, {})

Mutual1 == Simple(<<Global({t0}, {tA}), OptElse(2, {tB}, {tC}, {tE})>>)
Mutual2 == Simple(<<Global({}, {}), Opt(2, {tC}, {tB})>>)
Chain == Simple(<<Global({}, {}), Opt(2, {tD}, {}), Opt(3, {tX}, {tD})>>)
UsesD == Simple(<<Global({}, {}), Opt(2, {tD}, {tY})>>)
Needs == Simple(<<Global({tB}, {})>>)
Again == Simple(<<Global({}, {tA})>>)
RoleOpt == Simple(<<Global({}, {}), Opt(2, {tE}, {r1})>>)
RoleUse == Simple(<<Global({}, {}), Opt(2, {r1}, {tY})>>)
RoleDecl == Simple(<<Global({}, {r1})>>)
OtherFlag == Policy(<<Global({flag}, {})>>, NoMembers, NoBounds, {flag})
Perms1 == Simple(<<Global({}, {}), Opt(2, {c1, p1}, {tY})>>)
BoundA == Policy(<<Global({t0, tA}, {})>>, NoMembers, [NoBounds EXCEPT ![tA] = t0], {})
BoundB == Policy(<<Global({tA, tB}, {})>>, NoMembers, [NoBounds EXCEPT ![tA] = tB], {})

Library == {Mutual1, Mutual2, Chain, UsesD, Needs, Again, RoleOpt, RoleUse, RoleDecl, OtherFlag, Perms1,
            BoundA, BoundB}
UpTo3 == {<<>>} \cup {<<x>> : x \in Library}
            \cup {<<x, y>> : x, y \in Library}
            \cup {<<x, y, z>> : x \in {Mutual1, Chain, RoleOpt}, y \in Library, z \in Library}
ModuleLoads == {l \in UpTo3 : \A m, n \in DOMAIN l : m # n => l[m] # l[n]}

(* Role attributes that hold one another without a loop. *)
Members == Policy(<<Global({ra}, {rb, rc, r1})>>, [Put(ra, {rb}) EXCEPT ![rb] = {rc}, ![rc] = {r1}], NoBounds, {})
Nested == Policy(<<Global({ra, rb, r0}, {}), OptRoles(2, {ra, rb}, Put(ra, {rb})),
                   OptRoles(3, {tX}, Put(rb, {r0}))>>, NoMembers, NoBounds, {})
Declares == Policy(<<Global({rc}, {rb, r1}), OptRoles(2, {rb}, Put(rb, {rc, r1}))>>,
                   NoMembers, NoBounds, {})
Leaf == Policy(<<Global({}, {rc, r1}), OptRoles(2, {rc}, Put(rc, {r1}))>>, NoMembers, NoBounds, {})
RoleLibrary == {Members, Nested, Declares, Leaf, Mutual1, Mutual2}
RoleLoads == {l \in {<<x, y>> : x, y \in RoleLibrary} \cup {<<x, y, z>> : x, y, z \in RoleLibrary} :
                \A m, n \in DOMAIN l : m # n => l[m] # l[n]}

(* Two attributes that hold each other and nothing above them: the second is
   expanded to what the first has become. *)
Pair == Policy(<<Global({}, {rb, rc, r1})>>, [Put(rb, {rc}) EXCEPT ![rc] = {rb, r1}], NoBounds, {})
PairLoads == {<<Pair>>, <<Pair, Mutual1>>, <<Mutual2, Leaf, Pair>>}

AllLoads == ModuleLoads \cup RoleLoads \cup PairLoads

(* A loop of two attributes below a third one. *)
Loop == Policy(<<Global({ra}, {rb, rc})>>, [Put(ra, {rb}) EXCEPT ![rb] = {rc}, ![rc] = {rb}], NoBounds, {})
LoopLoads == {<<>>, <<Loop>>, <<Mutual1, Loop>>, <<Mutual1, Mutual2, Loop>>}

=============================================================================
