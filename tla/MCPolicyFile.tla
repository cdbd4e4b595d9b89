---------------------------- MODULE MCPolicyFile ----------------------------
(***************************************************************************)
(* A kernel policy, a base and a module that use every part of the format, *)
(* for every version; the features some versions cannot hold one by one.   *)
(***************************************************************************)
EXTENDS PolicyFile

TypeSet(S) == [types |-> S, negset |-> {}, flags |-> {}]
Level(s, c) == [sens |-> s, cat |-> c]
LowHigh == [low |-> Level(1, {}), high |-> Level(2, {1, 2})]
Low     == [low |-> Level(1, {1}), high |-> Level(1, {1})]
Sem(s, c) == [sens |-> s, cats |-> c]
SemLowHigh == [low |-> Sem(1, <<>>), high |-> Sem(2, <<[low |-> 1, high |-> 2]>>)]
If(b, x, y) == IF b THEN x ELSE y

MyPerms(from, to) == [i \in 1..(to + 1 - from) |-> [value |-> from + i - 1, key |-> <<"a", "b", "c">>[from + i - 1]]]
Leaf(names) == [expr_type |-> "NAMES", attr |-> {"TYPE"}, op |-> "EQ", names |-> names,
                type_names |-> TypeSet(names)]
Same12 == [expr_type |-> "ATTR", attr |-> {"L1H2"}, op |-> "DOM", names |-> {}, type_names |-> NoTypeSet]
Both   == [expr_type |-> "AND", attr |-> {}, op |-> "", names |-> {}, type_names |-> NoTypeSet]
Classes == <<[key |-> "process", value |-> 1, nprim |-> 1, perms |-> MyPerms(1, 1), comkey |-> "", constraints |-> <<>>,
              validatetrans |-> <<>>, default_user |-> "", default_role |-> "", default_range |-> "", default_type |-> ""],
             [key |-> "file", value |-> 2, nprim |-> 3, perms |-> MyPerms(3, 3), comkey |-> "com",
              constraints |-> <<[permissions |-> {1}, expr |-> <<Leaf({1}), Same12, Both>>]>>,
              validatetrans |-> <<[permissions |-> {}, expr |-> <<[Leaf({2}) EXCEPT !.attr = {"TYPE", "XTARGET"}]>>]>>,
              default_user |-> "source", default_role |-> "target", default_range |-> "glblub", default_type |-> "target"]>>

\* A module requires its classes: what they are is declared by the base.
Required == [i \in 1..2 |-> [Classes[i] EXCEPT !.constraints = <<>>, !.validatetrans = <<>>, !.default_user = "",
                                               !.default_role = "", !.default_range = "", !.default_type = ""]]

Type(k, v, fl) == [key |-> k, value |-> v, primary |-> 1, flavor |-> fl, flags |-> {}, bounds |-> 0, types |-> {}]
Types(kern) == <<Type("t1", 1, "type"), [Type("t2", 2, "type") EXCEPT !.bounds = 1]>>
               \o If(kern, <<Type("attr", 3, "attrib")>>,
                     <<[Type("attr", 3, "attrib") EXCEPT !.types = {1, 2}],
                       [Type("alias", 4, "alias") EXCEPT !.primary = 2, !.flags = {"permissive"}]>>)
Roles(kern, F) == <<object_r, [key |-> "r", value |-> 2, bounds |-> 0, dominates |-> {2},
                               types |-> TypeSet(If(kern, {1, 2}, {3})), flavor |-> "role", roles |-> {}]>>
                  \o If("roleattr" \in F, <<[key |-> "ra", value |-> 3, bounds |-> 0, dominates |-> {3}, types |-> NoTypeSet,
                                             flavor |-> "attrib", roles |-> {2}]>>, <<>>)
User(type, mls) == [key |-> "u", value |-> 1, bounds |-> 0, roles |-> [roles |-> {2}, flags |-> {}],
                    exp_range     |-> If(mls /\ type # "MOD", LowHigh, NoRange),
                    exp_dfltlevel |-> If(mls /\ type # "MOD", Level(1, {}), NoLevel),
                    range         |-> If(mls /\ type # "KERN", SemLowHigh, NoSemanticRange),
                    dfltlevel     |-> If(mls /\ type # "KERN", Sem(1, <<>>), NoSemanticLevel)]
Symtab(type, mls, F) ==
    LET kern == type = "KERN"
        Tab(n, l) == [nprim |-> n, table |-> l]
    IN  [commons |-> Tab(1, <<[key |-> "com", value |-> 1, nprim |-> 2, perms |-> MyPerms(1, 2)]>>),
         classes |-> Tab(2, If(type = "MOD", Required, Classes)),
         roles   |-> Tab(Len(Roles(kern, F)), Roles(kern, F)),
         types   |-> Tab(If(kern, 3, 4), Types(kern)),
         users   |-> Tab(1, <<User(type, mls)>>),
         bools   |-> Tab(2, <<[key |-> "b1", value |-> 1, state |-> 1, flags |-> If(kern, {}, {"tunable"})],
                              [key |-> "b2", value |-> 2, state |-> 0, flags |-> {}]>>),
         levels  |-> If(mls, Tab(2, <<[key |-> "s0", isalias |-> 0, level |-> Level(1, {1, 2})],
                                      [key |-> "s1", isalias |-> 0, level |-> Level(2, {1, 2})],
                                      [key |-> "low", isalias |-> 1, level |-> Level(1, {1, 2})]>>), Tab(0, <<>>)),
         cats    |-> If(mls, Tab(2, <<[key |-> "c0", value |-> 1, isalias |-> 0], [key |-> "c1", value |-> 2, isalias |-> 0],
                                      [key |-> "cat", value |-> 2, isalias |-> 1]>>), Tab(0, <<>>))]

(***************************************************************************)
(* Kernel rules.                                                           *)
(***************************************************************************)
Av(s, t, c, spec, d) == [source_type |-> s, target_type |-> t, target_class |-> c, specified |-> spec, data |-> d]
Xp(s, t, spec) == [source_type |-> s, target_type |-> t, target_class |-> 2, specified |-> spec,
                   xspecified |-> "IOCTLFUNCTION", driver |-> 1, xperms |-> {1, 2}]
TeAvtab(F) == <<Av(3, 3, 2, {"allowed"}, {1, 3}), Av(1, 2, 2, {"allowed"}, {2}), Av(1, 2, 2, {"auditdeny"}, {1, 3, 4}),
                Av(1, 2, 1, {"transition"}, 2), Av(1, 2, 1, {"member"}, 1)>>
              \o If("xperms" \in F, <<Xp(3, 1, {"xperms_allowed"})>>, <<>>)
CondList(F) == <<[cur_state |-> 1, flags |-> {}, expr |-> <<[expr_type |-> "BOOL", boolean |-> 1],
                                                             [expr_type |-> "BOOL", boolean |-> 2],
                                                             [expr_type |-> "OR", boolean |-> 0]>>,
                  true_list  |-> <<Av(2, 3, 2, {"allowed", "enabled"}, {1}), Av(1, 1, 2, {"auditallow", "enabled"}, {1})>>,
                  false_list |-> <<Av(1, 1, 2, {"transition"}, 2)>>
                                 \o If("condxperms" \in F, <<Xp(1, 1, {"xperms_allowed"})>>, <<>>)]>>
FilenameTrans == <<[name |-> "f", ttype |-> 1, tclass |-> 2,
                    datum |-> <<[stypes |-> {1, 3}, otype |-> 2], [stypes |-> {2}, otype |-> 1]>>]>>

(***************************************************************************)
(* Blocks of a module.                                                     *)
(***************************************************************************)
Rule(spec, fl, d) == [specified |-> spec, flags |-> fl, stypes |-> [types |-> {3}, negset |-> {1}, flags |-> {}],
                      ttypes |-> TypeSet({2}), perms |-> <<[tclass |-> 2, data |-> d]>>]
XpRule == Rule({"xperms_allowed"}, {}, {1}) @@ [xspecified |-> "IOCTLDRIVER", driver |-> 0, xperms |-> {1}]
Empty == FirstDecl.required
Decl(id, en, mls, F, st) ==
    [decl_id |-> id, enabled |-> en, symtab |-> st,
     required |-> [Empty EXCEPT !.classes = {1, 2}, !.class_perms = <<[map |-> {1}], [map |-> {1, 3}]>>],
     declared |-> [Empty EXCEPT !.types = {1, 2, 3, 4}, !.roles = {2}, !.users = {1}, !.bools = {1, 2},
                                !.levels = If(mls, {1, 2}, {}), !.cats = If(mls, {1, 2}, {})],
     avrules |-> <<Rule({"allowed"}, {}, {1}), Rule({"allowed"}, {"self"}, {3}), Rule({"transition"}, {}, 2)>>
                 \o If("selftrans" \in F, <<Rule({"transition"}, {"self"}, 2)>>, <<>>)
                 \o If("xperms" \in F, <<XpRule>>, <<>>),
     cond_list |-> <<[cur_state |-> 0, flags |-> {"tunable"}, expr |-> <<[expr_type |-> "BOOL", boolean |-> 1]>>,
                      avtrue_list |-> <<Rule({"allowed"}, {}, {1})>>,
                      avfalse_list |-> If("condxperms" \in F, <<XpRule>>, <<>>)]>>,
     role_tr_rules |-> <<[roles |-> [roles |-> {2}, flags |-> {}], types |-> TypeSet({1}), classes |-> {1}, new_role |-> 2],
                         [roles |-> [roles |-> {2}, flags |-> {}], types |-> TypeSet({2}), classes |-> {2}, new_role |-> 2]>>,
     role_allow_rules |-> <<[roles |-> [roles |-> {2}, flags |-> {}], new_roles |-> [roles |-> {2}, flags |-> {"star"}]]>>,
     filename_trans_rules |-> <<[name |-> "f", stypes |-> TypeSet({3}), ttypes |-> TypeSet({2}), tclass |-> 2, otype |-> 1,
                                 flags |-> If("selfname" \in F, {"self"}, {})]>>,
     range_tr_rules |-> If(mls, <<[stypes |-> TypeSet({3}), ttypes |-> TypeSet({2}), tclasses |-> {1}, trange |-> SemLowHigh]>>, <<>>)]
NoSymbols == FirstDecl.symtab
DeclSymbols(type, mls, F) ==
    [s \in ToSet(Sym) |-> LET t == Symtab(type, mls, F)[s]
                          IN  CASE s \in {"commons", "classes"} -> NoSymbols[s]
                                [] s = "roles" -> [t EXCEPT !.table = Tail(@)]
                                [] s = "users" -> [t EXCEPT !.table[1].exp_range = NoRange, !.table[1].exp_dfltlevel = NoLevel]
                                [] OTHER       -> t]
Global(type, mls, F) == <<[decls |-> <<Decl(1, 1, mls, F, DeclSymbols(type, mls, F))>>],
                          [decls |-> <<Decl(2, 1, mls, {}, NoSymbols), Decl(3, 0, mls, {}, NoSymbols)>>]>>
Scope(st) == [s \in ToSet(Sym) |->
                [scopes |-> [i \in DOMAIN st[s].table |->
                    [key |-> st[s].table[i].key, scope |-> If(s = "classes", "REQ", "DECL"),
                     decl_ids |-> If(s = "classes", <<1, 2>>, <<1>>)]]]]

(***************************************************************************)
(* Contexts.                                                               *)
(***************************************************************************)
Ctx(r, t, mls) == [user |-> 1, role |-> r, type |-> t, range |-> If(mls, If(r = 1, Low, LowHigh), NoRange)]
Objects(kind, mls, F) ==
    LET C == [context0 |-> Ctx(2, 1, mls)]
        two == [context0 |-> Ctx(1, 2, mls), context1 |-> Ctx(2, 1, mls)]
    IN  CASE kind = "isid"       -> <<C @@ [sid |-> 1], [sid |-> 2] @@ [context0 |-> Ctx(1, 2, mls)]>>
          [] kind \in {"fs", "netif"} -> <<two @@ [name |-> "n"]>>
          [] kind = "port"       -> <<C @@ [protocol |-> 6, low_port |-> 1, high_port |-> 2]>>
          [] kind \in {"node", "node6"} -> <<C @@ [addr |-> "a", mask |-> "m"]>>
          [] kind = "fsuse"      -> <<C @@ [behavior |-> "XATTR", name |-> "ext"]>>
          [] kind = "ibpkey"     -> <<C @@ [subnet_prefix |-> "s", low_pkey |-> 1, high_pkey |-> 1]>>
          [] kind = "ibendport"  -> <<C @@ [port |-> 1, dev_name |-> "d"]>>
          [] kind = "pirq"       -> <<C @@ [pirq |-> 1]>>
          [] kind = "ioport"     -> <<C @@ [low |-> 1, high |-> 1]>>
          [] kind = "iomem"      -> <<C @@ [low64 |-> 1, high64 |-> If("big" \in F, 2, 1)]>>
          [] kind = "pcidevice"  -> <<C @@ [device |-> 1]>>
          [] kind = "devicetree" -> <<C @@ [name |-> "p"]>>

Policy(type, target, mls, F) ==
    LET kern == type = "KERN"
        st   == Symtab(type, mls, F)
    IN  [policydb_init EXCEPT
           !.handle_unknown = "allow",
           !.name = If(type = "MOD", "m", ""), !.version = If(type = "MOD", "1", ""),
           !.policycaps = {1}, !.permissive_map = If(kern, {2}, {}),
           !.symtab = st,
           !.te_avtab = If(kern, TeAvtab(F), <<>>), !.cond_list = If(kern, CondList(F), <<>>),
           !.role_tr = If(kern, <<[role |-> 2, type |-> 1, new_role |-> 2, tclass |-> 1],
                                  [role |-> 2, type |-> 2, new_role |-> 2, tclass |-> 2]>>, <<>>),
           !.role_allow = If(kern, <<[role |-> 2, new_role |-> 2]>>, <<>>),
           !.filename_trans = If(kern, FilenameTrans, <<>>), !.filename_trans_count = If(kern, 3, 0),
           !.global = If(kern, @, Global(type, mls, F)),
           !.scope = If(kern, @, Scope(st)),
           !.ocontexts = [k \in DOMAIN @ |-> If(type # "MOD" /\ k \in ToSet(Ocon[target]), Objects(k, mls, F), <<>>)],
           !.genfs = If(type # "MOD", <<[fstype |-> 1, head |-> <<[name |-> 2, sclass |-> 0, context0 |-> Ctx(1, 1, mls)],
                                                                  [name |-> 1, sclass |-> 2, context0 |-> Ctx(1, 2, mls)]>>],
                                        [fstype |-> 2, head |-> <<[name |-> 1, sclass |-> 0, context0 |-> Ctx(1, 2, mls)]>>]>>, <<>>),
           !.range_tr = If(kern /\ mls, <<[source_type |-> 1, target_type |-> 2, target_class |-> 1, range |-> LowHigh],
                                          [source_type |-> 1, target_type |-> 2, target_class |-> 2, range |-> Low]>>, <<>>),
           !.type_attr_map = If(kern, <<{1, 3}, {2, 3}, {3}>>, <<>>),
           !.attr_type_map = If(kern, <<{1}, {2}, {1, 2}>>, <<>>)]

Formats == [type : {"KERN"}, vers : 14..35, target : {"selinux"}]
           \cup [type : {"KERN"}, vers : {24, 30}, target : {"xen"}]
           \cup [type : {"BASE", "MOD"}, vers : 4..22, target : {"selinux"}]
Features(f) == IF f.type = "KERN" THEN {{}, {"xperms"}, {"condxperms"}} \cup If(f.target = "xen", {{"big"}}, {})
               ELSE {{}, {"xperms"}, {"condxperms"}, {"selftrans"}, {"selfname"}, {"roleattr"}}
MCInputs == UNION {{[p  |-> [type |-> f.type, vers |-> f.vers, target |-> f.target, mls |-> FALSE],
                     db |-> Policy(f.type, f.target, FALSE, F)] : F \in Features(f)}
                   \cup {[p  |-> [type |-> f.type, vers |-> f.vers, target |-> f.target, mls |-> TRUE],
                          db |-> Policy(f.type, f.target, TRUE, {})]} : f \in Formats}

D(s, in, fs) == [section : {s}, in : {in}, f : fs]
MCDamages ==
    D("maps", "maps", {"permissive_map", "policycaps"})
    \cup D("commons", "table", {"value"}) \cup D("commons", "perms", {"value"})
    \cup D("classes", "table", {"value"}) \cup D("classes", "perms", {"value"}) \cup D("classes", "constraints", {"permissions"})
    \cup D("classes", "expr", {"names"}) \cup D("classes", "type_names", {"types", "negset"})
    \cup D("roles", "table", {"value", "bounds", "dominates", "types", "roles"}) \cup D("roles", "types", {"types"})
    \cup D("types", "table", {"value", "primary", "bounds", "types"})
    \cup D("users", "table", {"value", "bounds", "roles"}) \cup D("users", "roles", {"roles"})
    \cup D("users", "exp_range", {"sens0", "cat0", "sens1", "cat1"}) \cup D("users", "exp_dfltlevel", {"sens", "cat"})
    \cup D("users", "low", {"sens"}) \cup D("users", "high", {"sens"}) \cup D("users", "cats", {"low", "high"})
    \cup D("bools", "table", {"value"}) \cup D("levels", "level", {"sens", "cat"}) \cup D("cats", "table", {"value"})
    \cup D("te_avtab", "te_avtab", {"source_type", "target_type", "target_class", "transition"})
    \cup UNION {D("cond_list", l, {"source_type", "target_type", "target_class"}) : l \in {"true_list", "false_list"}}
    \cup D("cond_list", "expr", {"boolean"})
    \cup D("role_tr", "role_tr", {"role", "type", "new_role", "tclass"}) \cup D("role_allow", "role_allow", {"role", "new_role"})
    \cup D("filename_trans", "filename_trans", {"stype", "ttype", "tclass", "otype"})
    \cup D("filename_trans", "datum", {"stypes", "otype"})
    \cup UNION {D("global", t, {"types", "negset"}) : t \in {"stypes", "ttypes", "types"}}
    \cup UNION {D("global", t, {"roles"}) : t \in {"roles", "new_roles"}}
    \cup D("global", "role_tr_rules", {"classes", "new_role"}) \cup D("global", "perms", {"tclass"})
    \cup D("global", "filename_trans_rules", {"tclass", "otype"}) \cup D("global", "range_tr_rules", {"tclasses"})
    \cup UNION {D("global", t, ToSet(Sym)) : t \in {"required", "declared"}}
    \cup D("global", "table", {"value"}) \cup D("global", "cats", {"low", "high"})
    \cup D("global", "expr", {"boolean"}) \cup D("scope", "scopes", {"decl_ids"})
    \cup UNION {D(k, c, {"user", "role", "type"}) : k \in ToSet(Ocon["selinux"]), c \in {"context0", "context1"}}
    \cup UNION {D(k, "range", {"sens0", "cat0", "sens1", "cat1"}) : k \in {"isid", "fs", "netif", "genfs", "range_tr"}}
    \cup D("isid", "ocontexts", {"sid"}) \cup D("genfs", "head", {"sclass"}) \cup D("genfs", "context0", {"user", "role", "type"})
    \cup D("range_tr", "range_tr", {"source_type", "target_type", "target_class"})
    \cup D("type_attr_map", "type_attr_map", {"type_attr_map"})
\* Without MLS nothing uses the levels and ranges.
MCDamagedInputs == {i \in MCInputs : /\ i.p.mls /\ i.db = Policy(i.p.type, i.p.target, TRUE, {})
                                     /\ i.p.vers \in CASE i.p.type = "KERN" -> {19, 21, 34}
                                                       [] i.p.type = "BASE" -> {5, 22} [] OTHER -> {8, 22}}
=============================================================================
