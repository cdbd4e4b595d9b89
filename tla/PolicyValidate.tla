--------------------------- MODULE PolicyValidate ---------------------------
(***************************************************************************)
(* policydb_validate.c, and the indexing of policydb.c that comes before   *)
(* it: which contents of a policydb are accepted after a file was read.    *)
(*                                                                         *)
(* Left out, so that the model accepts more than the code: the notdefined  *)
(* flag of levels (policydb_validate.c:679), class values above 16 bits    *)
(* (:442), the booleans recorded with a conditional, none in a policy that *)
(* was read (:1183), the flags of avrule_blocks (:1570), the switch over   *)
(* platform and MLS (:1698), and that the datum arrays have their gaps     *)
(* where the symbols have (:1799; they are filled from the symbols).  None *)
(* refuses what the writer writes, nor is a damaged reference of the runs  *)
(* one of these values.                                                    *)
(***************************************************************************)
EXTENDS PolicyRead

CONSTANTS CondMax,       \* COND_EXPR_MAXDEPTH
          SidMax,        \* SELINUX_SID_SZ, XEN_SID_SZ
          Policycaps     \* the values sepol_polcap_getname knows

Table(s) == ToSet(got.symtab[s].table)
Nprim(s) == got.symtab[s].nprim

(***************************************************************************)
(* Indexing: the symbols that get a name, and the caches of roles and users.*)
(***************************************************************************)
ValueOf(s, x) == IF s = "levels" THEN x.level.sens ELSE x.value
\* index_f: aliases get none
Named(s) == {x \in Table(s) : CASE s = "types"             -> x.primary # 0
                                [] s \in {"levels", "cats"} -> x.isalias = 0
                                [] OTHER                   -> TRUE}
Values(s) == {ValueOf(s, x) : x \in Named(s)}
\* Each value is in range, and no two symbols have the same.
index_f(s) == \A x \in Named(s) : /\ value_isvalid(ValueOf(s, x), Nprim(s))
                                  /\ \A y \in Named(s) : ValueOf(s, x) = ValueOf(s, y) => x = y
Datum(s, v) == CHOOSE x \in Named(s) : ValueOf(s, x) = v

SimpleTypes == {v \in 1..Nprim("types") : v \in Values("types") => Datum("types", v).flavor # "attrib"}
\* Attributes replaced by their types; a type without a datum is an error.
TypesExpand(S) == UNION {IF v \in Values("types") /\ Datum("types", v).flavor = "attrib"
                         THEN Datum("types", v).types ELSE {v} : v \in S}
type_set_expand(ts) ==
    LET pos == TypesExpand(ts.types) \ TypesExpand(ts.negset)
    IN  CASE "star" \in ts.flags -> SimpleTypes \ TypesExpand(ts.negset)
          [] "comp" \in ts.flags -> SimpleTypes \ pos
          [] OTHER               -> pos
role_set_expand(rs) == CASE "star" \in rs.flags -> 1..Nprim("roles")
                         [] "comp" \in rs.flags -> (1..Nprim("roles")) \ rs.roles
                         [] OTHER               -> rs.roles

mls_level_dom(a, b) == a.sens >= b.sens /\ b.cat \subseteq a.cat
mls_semantic_level_expand(l) ==
    IF ~p.mls \/ l.sens = 0 THEN NoLevel
    ELSE [sens |-> l.sens, cat |-> UNION {l.cats[i].low .. l.cats[i].high : i \in DOMAIN l.cats}]
Expandable(l) ==
    \/ ~p.mls \/ l.sens = 0
    \/ /\ l.sens \in Values("levels")
       /\ \A i \in DOMAIN l.cats : /\ l.cats[i].low # 0 /\ l.cats[i].low <= l.cats[i].high
                                   /\ l.cats[i].low .. l.cats[i].high \subseteq Datum("levels", l.sens).level.cat
mls_semantic_range_expand(r) == [low |-> mls_semantic_level_expand(r.low), high |-> mls_semantic_level_expand(r.high)]
RangeExpandable(r) == /\ Expandable(r.low) /\ Expandable(r.high)
                      /\ LET e == mls_semantic_range_expand(r) IN mls_level_dom(e.high, e.low)

policydb_role_cache == \A r \in Table("roles") : r.types.types \subseteq Values("types")
policydb_user_cache ==
    p.type = "BASE" => \A u \in Table("users") : RangeExpandable(u.range) /\ Expandable(u.dfltlevel)
\* What the caches leave in the users of a base.
UserCached(u) == IF p.type # "BASE" THEN u
                 ELSE [u EXCEPT !.exp_range = mls_semantic_range_expand(u.range),
                                !.exp_dfltlevel = mls_semantic_level_expand(u.dfltlevel)]
policydb_index_others == /\ \A s \in ToSet(Sym) : index_f(s)
                         /\ policydb_role_cache /\ policydb_user_cache

(***************************************************************************)
(* Contexts, as each is read.                                              *)
(***************************************************************************)
mls_range_contains(r, q) == mls_level_dom(q.low, r.low) /\ mls_level_dom(r.high, q.high)
mls_context_isvalid(c) ==
    p.mls =>
        /\ mls_level_dom(c.range.high, c.range.low)
        /\ \A l \in {c.range.low, c.range.high} :
              l.sens \in Values("levels") /\ l.cat \subseteq Datum("levels", l.sens).level.cat
        /\ \/ c.role = 1
           \/ c.user \in Values("users") /\ mls_range_contains(Datum("users", c.user).exp_range, c.range)
context_is_valid(c) ==
    /\ value_isvalid(c.role, Nprim("roles")) /\ value_isvalid(c.user, Nprim("users"))
    /\ value_isvalid(c.type, Nprim("types"))
    /\ \/ c.role = 1                                                  \* OBJECT_R_VAL
       \/ /\ c.role \in Values("roles") /\ c.type \in type_set_expand(Datum("roles", c.role).types)
          /\ c.user \in Values("users") /\ c.role \in role_set_expand(Datum("users", c.user).roles)
    /\ mls_context_isvalid(c)
Contexts(kind, c) == {c.context0} \cup (IF kind \in {"fs", "netif"} THEN {c.context1} ELSE {})

(***************************************************************************)
(* Values and sets.                                                        *)
(***************************************************************************)
\* Between versions 20 and 23 attributes have no name: gaps among the types do not count.
GapsCount(s) == ~(s = "types" /\ Kern /\ p.vers \in 20..23)
validate_value(v, s) == value_isvalid(v, Nprim(s)) /\ (GapsCount(s) => v \in Values(s))
validate_ebitmap(S, s) == \A v \in S : validate_value(v, s)
validate_type_set(ts) == /\ validate_ebitmap(ts.types, "types") /\ validate_ebitmap(ts.negset, "types")
                         /\ ts.flags \in {{}, {"star"}, {"comp"}}
validate_empty_type_set(ts) == ts = NoTypeSet
validate_role_set(rs) == validate_ebitmap(rs.roles, "roles") /\ rs.flags \in {{}, {"star"}, {"comp"}}
validate_scope_AnyDecl(sc, ndecls) == sc.scope \in {"REQ", "DECL"}
validate_scope(sc, ndecls) == sc.scope \in {"REQ", "DECL"} /\ \A i \in DOMAIN sc.decl_ids : value_isvalid(sc.decl_ids[i], ndecls)
NumDecls == FoldLeft(LAMBDA n, b : n + Len(b.decls), 0, got.global)
validate_scopes == \A s \in ToSet(Sym) : \A i \in DOMAIN got.scope[s].scopes : validate_scope(got.scope[s].scopes[i], NumDecls)
validate_simpletype(v) == /\ validate_value(v, "types")
                          /\ v \in Values("types") /\ Datum("types", v).flavor # "attrib"

(***************************************************************************)
(* Symbols.                                                                *)
(***************************************************************************)
Levels == {{"L1L2"}, {"L1H2"}, {"H1L2"}, {"H1H2"}, {"L1H1"}, {"L2H2"}}
validate_cexpr(e, transition) ==
    CASE e.expr_type = "NAMES" ->
           /\ "XTARGET" \in e.attr => transition
           /\ "TYPE" \notin e.attr => validate_empty_type_set(e.type_names)
           /\ e.op \in {"EQ", "NEQ"}
           /\ \E s \in {"USER", "ROLE", "TYPE"} :
                 /\ e.attr \in {{s}, {s, "TARGET"}, {s, "XTARGET"}}
                 /\ validate_ebitmap(e.names, [USER |-> "users", ROLE |-> "roles", TYPE |-> "types"][s])
                 /\ s = "TYPE" => validate_type_set(e.type_names)
      [] e.expr_type = "ATTR" ->
           /\ e.names = {} /\ validate_empty_type_set(e.type_names)
           /\ \/ e.op \in {"EQ", "NEQ"}
              \/ e.op \in {"DOM", "DOMBY", "INCOMP"} /\ e.attr \cap {"USER", "TYPE"} = {}
           /\ e.attr \in {{"USER"}, {"ROLE"}, {"TYPE"}} \cup Levels
      [] OTHER -> /\ e.expr_type \in {"NOT", "AND", "OR"} /\ e.op = "" /\ e.attr = {}
                  /\ e.names = {} /\ validate_empty_type_set(e.type_names)
validate_constraint_nodes(nperms, cons, transition) ==
    \A i \in DOMAIN cons :
        /\ IF transition THEN cons[i].permissions = {}
           ELSE cons[i].permissions # {} /\ \A v \in cons[i].permissions : v <= nperms
        /\ \A j \in DOMAIN cons[i].expr : validate_cexpr(cons[i].expr[j], transition)
        /\ CexprDepth([j \in DOMAIN cons[i].expr |-> cons[i].expr[j].expr_type]) = 0

\* Different values in range that override no inherited one.
validate_permission_symtab(perms, nprim, inherited) ==
    \A i \in DOMAIN perms : /\ value_isvalid(perms[i].value, nprim) /\ ~value_isvalid(perms[i].value, inherited)
                            /\ \A j \in DOMAIN perms : perms[i].value = perms[j].value => i = j
validate_common_datum(x) ==
    /\ validate_value(x.value, "commons") /\ x.nprim \in 1..PermMax /\ x.nprim = Len(x.perms)
    /\ validate_permission_symtab(x.perms, x.nprim, 0)
CommonOf(x) == {c \in Table("commons") : c.key = x.comkey}
validate_class_datum(x) ==
    LET com == CommonOf(x)
        inherited == IF com = {} THEN 0 ELSE (CHOOSE c \in com : TRUE).nprim
        nel       == IF com = {} THEN 0 ELSE Len((CHOOSE c \in com : TRUE).perms)
    IN  /\ validate_value(x.value, "classes")
        /\ \A c \in com : validate_common_datum(c)
        /\ x.nprim <= PermMax /\ x.nprim = Len(x.perms) + nel
        /\ validate_permission_symtab(x.perms, x.nprim, inherited)
        /\ validate_constraint_nodes(x.nprim, x.constraints, FALSE)
        /\ validate_constraint_nodes(x.nprim, x.validatetrans, TRUE)
        /\ {x.default_user, x.default_role, x.default_type} \subseteq {"", "source", "target"}
        /\ x.default_range \in {"", "source_low", "source_high", "source_low_high",
                                "target_low", "target_high", "target_low_high", "glblub"}
validate_role_datum(x) ==
    /\ validate_value(x.value, "roles") /\ validate_ebitmap(x.dominates, "roles")
    /\ validate_type_set(x.types) /\ (x.bounds # 0 => validate_value(x.bounds, "roles"))
    /\ validate_ebitmap(x.roles, "roles") /\ x.flavor \in {"role", "attrib"}
validate_type_datum(x) ==
    /\ validate_value(x.value, "types") /\ (x.primary # 0 => validate_value(x.primary, "types"))
    /\ IF x.flavor = "attrib" THEN validate_ebitmap(x.types, "types") /\ x.bounds = 0
       ELSE x.flavor \in {"type", "alias"} /\ x.types = {} /\ (x.bounds # 0 => validate_simpletype(x.bounds))
    /\ x.flags \in {{}, {"permissive"}, {"expand_true"}, {"expand_false"}, {"expand_true", "expand_false"}}

validate_mls_semantic_cat(c) == validate_value(c.low, "cats") /\ validate_value(c.high, "cats") /\ c.low <= c.high
validate_mls_semantic_level(l) ==
    l.sens # 0 => validate_value(l.sens, "levels") /\ \A i \in DOMAIN l.cats : validate_mls_semantic_cat(l.cats[i])
validate_mls_semantic_range(r) == validate_mls_semantic_level(r.low) /\ validate_mls_semantic_level(r.high)
validate_mls_level(l) == validate_value(l.sens, "levels") /\ validate_ebitmap(l.cat, "cats")
validate_mls_range(r) == validate_mls_level(r.low) /\ validate_mls_level(r.high)
validate_level_datum(x) ==
    validate_mls_level(x.level) /\ (x.isalias # 0 => x.level.cat = Datum("levels", x.level.sens).level.cat)
validate_user_datum(x) ==
    /\ validate_value(x.value, "users") /\ validate_role_set(x.roles)
    /\ validate_mls_semantic_range(x.range) /\ validate_mls_semantic_level(x.dfltlevel)
    /\ p.mls /\ p.type # "MOD" => validate_mls_range(x.exp_range) /\ validate_mls_level(x.exp_dfltlevel)
    /\ x.bounds # 0 => validate_value(x.bounds, "users")
validate_bool_datum(x) == /\ validate_value(x.value, "bools") /\ x.state \in {0, 1}
                          /\ x.flags \in {{}, {"tunable"}}
validate_datum_array_entries ==
    /\ \A x \in Table("commons") : validate_common_datum(x)
    /\ \A x \in Table("classes") : validate_class_datum(x)
    /\ \A x \in Table("roles")   : validate_role_datum(x)
    /\ \A x \in Table("types")   : validate_type_datum(x)
    /\ \A x \in Table("users")   : validate_user_datum(x)
    /\ p.mls => \A x \in Table("levels") : validate_level_datum(x)
    /\ \A x \in Table("cats")    : value_isvalid(x.value, Nprim("cats"))
    /\ \A x \in Table("bools")   : validate_bool_datum(x)

(***************************************************************************)
(* A kernel policy.                                                        *)
(***************************************************************************)
validate_avtab_key(r, conditional) ==
    /\ \A v \in {r.source_type, r.target_type} :
          IF Kern /\ r.specified \cap TypeSpec # {} THEN validate_simpletype(v) ELSE validate_value(v, "types")
    /\ validate_value(r.target_class, "classes")
    /\ \E s \in AvSpec \cup TypeSpec \cup XpermSpec :
          /\ r.specified \ {"enabled"} = {s}
          /\ s \in XpermSpec => p.target = "selinux" /\ (conditional => policydb_has_cond_xperms_feature)
validate_xperms(r) == r.xspecified \in {"IOCTLDRIVER", "IOCTLFUNCTION", "NLMSG"}
\* An access vector has a permission of its class; data of auditdeny is what is not denied.
validate_access_vector(c, av) == av \cap (1..Datum("classes", c).nprim) # {}
validate_avtab_key_and_datum(r, conditional) ==
    /\ validate_avtab_key(r, conditional)
    /\ r.specified \cap AvSpec # {} =>
          validate_access_vector(r.target_class, IF "auditdeny" \in r.specified THEN (1..PermMax) \ r.data ELSE r.data)
    /\ r.specified \cap TypeSpec # {} => validate_simpletype(r.data)
    /\ r.specified \cap XpermSpec # {} => validate_xperms(r)
validate_avtab == \A i \in DOMAIN got.te_avtab : validate_avtab_key_and_datum(got.te_avtab[i], FALSE)
validate_cond_av_list(l) == \A i \in DOMAIN l : validate_avtab_key_and_datum(l[i], TRUE)

validate_avrules(l, conditional) ==
    \A i \in DOMAIN l :
        LET r == l[i]
            t == r.specified \cap TypeSpec # {}
        IN  /\ validate_type_set(r.stypes) /\ validate_type_set(r.ttypes)
            /\ r.specified \cap (XpermSpec \cup {"neverallow", "xperms_neverallow"}) # {} /\ conditional
                  => policydb_has_cond_xperms_feature
            /\ \A j \in DOMAIN r.perms : /\ validate_value(r.perms[j].tclass, "classes")
                                         /\ t => validate_simpletype(r.perms[j].data)
            /\ r.specified \cap XpermSpec # {} => p.target = "selinux" /\ validate_xperms(r)
            /\ \/ r.flags = {}
               \/ r.flags = {"self"} /\ ~(p.vers < 21 /\ t)
               \/ r.flags = {"notself"} /\ r.specified \subseteq {"neverallow", "xperms_neverallow"}

validate_cond_expr(ex) ==
    LET Step(d, e) == CASE d >= CondMax                    -> CondMax
                        [] e.expr_type = "BOOL"            -> IF validate_value(e.boolean, "bools") /\ d < CondMax - 1
                                                              THEN d + 1 ELSE CondMax
                        [] e.expr_type = "NOT"             -> IF d < 0 \/ e.boolean # 0 THEN CondMax ELSE d
                        [] e.expr_type \in {"OR", "AND", "XOR", "EQ", "NEQ"} ->
                              IF d < 1 \/ e.boolean # 0 THEN CondMax ELSE d - 1
                        [] OTHER                           -> CondMax
    IN  FoldLeft(Step, -1, ex) = 0
validate_cond_list(l) ==
    \A i \in DOMAIN l :
        /\ validate_cond_expr(l[i].expr)
        /\ IF Kern THEN validate_cond_av_list(l[i].true_list) /\ validate_cond_av_list(l[i].false_list)
           ELSE validate_avrules(l[i].avtrue_list, TRUE) /\ validate_avrules(l[i].avfalse_list, TRUE)
        /\ l[i].cur_state \in {0, 1} /\ l[i].flags \in {{}, {"tunable"}}

validate_role_transes ==
    \A i \in DOMAIN got.role_tr :
        LET r == got.role_tr[i]
        IN  /\ validate_value(r.role, "roles") /\ validate_value(r.type, "types")
            /\ validate_value(r.tclass, "classes") /\ validate_value(r.new_role, "roles")
validate_role_allows == \A i \in DOMAIN got.role_allow : validate_ebitmap({got.role_allow[i].role, got.role_allow[i].new_role}, "roles")
validate_filename_trans ==
    \A i \in DOMAIN got.filename_trans :
        LET ft == got.filename_trans[i]
        IN  /\ validate_value(ft.ttype, "types") /\ validate_value(ft.tclass, "classes") /\ ft.datum # <<>>
            /\ \A j \in DOMAIN ft.datum : validate_ebitmap(ft.datum[j].stypes, "types") /\ validate_simpletype(ft.datum[j].otype)

validate_context(c) == /\ validate_value(c.user, "users") /\ validate_value(c.role, "roles") /\ validate_value(c.type, "types")
                       /\ p.mls => validate_mls_range(c.range)
validate_ocontexts ==
    \A k \in ToSet(Ocon[p.target]) : \A i \in DOMAIN got.ocontexts[k] :
        LET c == got.ocontexts[k][i]
        IN  /\ \A x \in Contexts(k, c) : validate_context(x)
            /\ CASE k = "isid"      -> c.sid \in 1..(SidMax - 1)
                 [] k = "port"      -> c.low_port <= c.high_port
                 [] k = "fsuse"     -> c.behavior \in {"XATTR", "TRANS", "TASK"}
                 [] k = "ibpkey"    -> c.low_pkey <= c.high_pkey
                 [] k = "ibendport" -> c.port # 0
                 [] k = "ioport"    -> c.low <= c.high
                 [] k = "iomem"     -> c.low64 <= c.high64 /\ (p.vers < 30 => c.high64 <= 1)
                 [] OTHER           -> TRUE
validate_genfs ==
    \A i \in DOMAIN got.genfs : \A j \in DOMAIN got.genfs[i].head :
        LET c == got.genfs[i].head[j]
        IN  validate_context(c.context0) /\ (c.sclass # 0 => validate_value(c.sclass, "classes"))

(***************************************************************************)
(* A module.                                                               *)
(***************************************************************************)
validate_role_trans_rules(l) ==
    \A i \in DOMAIN l : /\ validate_role_set(l[i].roles) /\ validate_type_set(l[i].types)
                        /\ validate_ebitmap(l[i].classes, "classes") /\ validate_value(l[i].new_role, "roles")
validate_role_allow_rules(l) == \A i \in DOMAIN l : validate_role_set(l[i].roles) /\ validate_role_set(l[i].new_roles)
validate_range_trans_rules(l) ==
    \A i \in DOMAIN l : /\ validate_type_set(l[i].stypes) /\ validate_type_set(l[i].ttypes)
                        /\ validate_ebitmap(l[i].tclasses, "classes") /\ validate_mls_semantic_range(l[i].trange)
validate_scope_index(x) == /\ x.commons = {}
                           /\ \A s \in ToSet(Sym) \ {"commons"} : validate_ebitmap(x[s], s)
                           /\ \A i \in DOMAIN x.class_perms : validate_value(i, "classes")
validate_filename_trans_rules(l) ==
    \A i \in DOMAIN l : /\ validate_type_set(l[i].stypes) /\ validate_type_set(l[i].ttypes)
                        /\ validate_value(l[i].tclass, "classes") /\ validate_simpletype(l[i].otype)
                        /\ l[i].flags = {} \/ (l[i].flags = {"self"} /\ p.vers >= 21)
validate_symtabs(st) ==
    \A s \in ToSet(Sym) : \A i \in DOMAIN st[s].table : value_isvalid(ValueOf(s, st[s].table[i]), Nprim(s))
validate_avrule_blocks ==
    \A b \in DOMAIN got.global : \A i \in DOMAIN got.global[b].decls :
        LET d == got.global[b].decls[i]
        IN  /\ validate_cond_list(d.cond_list) /\ validate_avrules(d.avrules, FALSE)
            /\ validate_role_trans_rules(d.role_tr_rules) /\ validate_role_allow_rules(d.role_allow_rules)
            /\ validate_range_trans_rules(d.range_tr_rules)
            /\ validate_scope_index(d.required) /\ validate_scope_index(d.declared)
            /\ validate_filename_trans_rules(d.filename_trans_rules) /\ validate_symtabs(d.symtab)

(***************************************************************************)
(* The whole policydb.                                                     *)
(***************************************************************************)
validate_permissives == \A v \in got.permissive_map : validate_simpletype(v)
validate_range_transitions ==
    \A i \in DOMAIN got.range_tr :
        LET r == got.range_tr[i]
        IN  /\ validate_value(r.source_type, "types") /\ validate_value(r.target_type, "types")
            /\ validate_value(r.target_class, "classes") /\ validate_mls_range(r.range)
validate_typeattr_map == Kern => \A i \in 1..Nprim("types") : validate_ebitmap(got.type_attr_map[i], "types")
validate_attrtype_map == Kern => \A i \in 1..Nprim("types") : validate_ebitmap(got.attr_type_map[i], "types")
validate_properties == /\ p.vers \in IF Kern THEN 15..34 ELSE 4..22
                       /\ p.mls => AnyAt(19, 5)
                       /\ got.handle_unknown \in {"deny", "reject", "allow"}
validate_policycaps == got.policycaps \subseteq Policycaps

policydb_validate ==
    /\ validate_properties /\ validate_policycaps
    /\ IF Kern THEN /\ validate_avtab /\ (p.vers >= 16 => validate_cond_list(got.cond_list))
                    /\ validate_role_transes /\ validate_role_allows
                    /\ p.vers >= 25 => validate_filename_trans
       ELSE validate_avrule_blocks
    /\ validate_ocontexts /\ validate_genfs /\ validate_scopes
    /\ validate_datum_array_entries
    /\ validate_permissives /\ validate_range_transitions
    /\ validate_typeattr_map /\ validate_attrtype_map
=============================================================================
