---------------------------- MODULE PolicyWrite ----------------------------
(***************************************************************************)
(* write.c: what policydb_write puts in a file for a policy x, a function  *)
(* of the type and the version in p.  An object is a record of its fields. *)
(* The old avtab format needs the expansion of attributes of expand.c.     *)
(***************************************************************************)
EXTENDS PolicyFormat

CONSTANT ProcessClass     \* the value of the class "process" ("domain" on xen)

AvSpec   == {"allowed", "auditallow", "auditdeny"}
TypeSpec == {"transition", "change", "member"}
XpermSpec == {"xperms_allowed", "xperms_auditallow", "xperms_dontaudit"}
spec_order == <<"allowed", "auditdeny", "auditallow", "transition", "change", "member">>
oldvers == Kern /\ p.vers < 20

(***************************************************************************)
(* expand.c: the rules of a table with every attribute replaced by its     *)
(* types.  x.attr_type_map[v] is the set of types of v.                    *)
(***************************************************************************)
IsAttrib(x, v) == LET tab == x.symtab["types"].table
                  IN  \E i \in DOMAIN tab : tab[i].value = v /\ tab[i].flavor = "attrib"
Key(r) == <<r.source_type, r.target_type, r.target_class>>

expand_avtab_insert_Replaces(tab, r) ==
    LET same == {i \in DOMAIN tab : Key(tab[i]) = Key(r) /\ tab[i].specified = r.specified}
    IN  IF same = {} THEN Append(tab, r) ELSE [tab EXCEPT ![CHOOSE j \in same : TRUE] = r]
\* A rule that is there already is merged; two type rules with one key are an error.
expand_avtab_insert(tab, r) ==
    LET same == {i \in DOMAIN tab : /\ Key(tab[i]) = Key(r) /\ tab[i].specified = r.specified
                                    /\ (r.specified \cap XpermSpec # {} =>
                                          tab[i].driver = r.driver /\ tab[i].xspecified = r.xspecified)}
        i    == CHOOSE j \in same : TRUE
    IN  CASE same = {}                         -> Append(tab, r)
          [] r.specified \cap TypeSpec # {}    -> Append(tab, [r EXCEPT !.specified = @ \cup {"conflict"}])
          [] "auditdeny" \in r.specified       -> [tab EXCEPT ![i].data = @ \cap r.data]
          [] r.specified \cap XpermSpec # {}   -> [tab EXCEPT ![i].xperms = @ \cup r.xperms]
          [] OTHER                             -> [tab EXCEPT ![i].data = @ \cup r.data]

expand_avtab_node(x, r) ==
    LET Of(v) == IF IsAttrib(x, v) THEN SetToSeq(x.attr_type_map[v]) ELSE <<v>>
        src == Of(r.source_type)
        tgt == Of(r.target_type)
    IN  [n \in 1..(Len(src) * Len(tgt)) |->
            [r EXCEPT !.source_type = src[1 + ((n - 1) \div Len(tgt))],
                      !.target_type = tgt[1 + ((n - 1) % Len(tgt))]]]

expand_avtab(x, tab) ==
    FoldLeft(expand_avtab_insert, <<>>, FlattenSeq([i \in DOMAIN tab |-> expand_avtab_node(x, tab[i])]))

\* The list of a conditional is expanded likewise, each new rule in front.
expand_cond_insert(l, r) ==
    IF \E i \in DOMAIN l : Key(l[i]) = Key(r) /\ l[i].specified = r.specified
    THEN expand_avtab_insert(l, r) ELSE <<r>> \o l
expand_cond_av_list(x, l) ==
    FoldLeft(expand_cond_insert, <<>>, FlattenSeq([i \in DOMAIN l |-> expand_avtab_node(x, l[i])]))

(***************************************************************************)
(* Rules of a kernel policy.                                               *)
(***************************************************************************)
\* One item of the old format: the rules of a key, of the access or of the type kind, merged.
OldItem(rules) ==
    LET all  == UNION {rules[i].specified : i \in DOMAIN rules}
        used == SelectSeq(spec_order, LAMBDA s : s \in all)
        Datum(s) == rules[CHOOSE i \in DOMAIN rules : s \in rules[i].specified].data
    IN  IF all \cap (AvSpec \cup TypeSpec) = {} \/ (all \cap AvSpec # {} /\ all \cap TypeSpec # {})
           \/ "conflict" \in all \/ Len(used) # Len(rules)
        THEN Error
        ELSE Word("nitems", 4 + Len(used))
             \o Words(<<"source_type", "target_type", "target_class">>, rules[1])
             \o Word("specified", all)
             \o [i \in DOMAIN used |-> Word(used[i], Datum(used[i]))[1]]

avtab_write_item(r, conditional) ==
    Words(<<"source_type", "target_type", "target_class", "specified">>, r)
    \o (IF r.specified \cap XpermSpec # {}
        THEN When(\/ p.vers < 30
                  \/ conditional /\ ~policydb_has_cond_xperms_feature
                  \/ p.target # "selinux", Error)
             \o Words(<<"xspecified", "driver", "xperms">>, r)
        ELSE Words(<<"data">>, r))

\* nel counts the merged items, found in a first pass over the table that writes nothing.
avtab_write(x) ==
    LET tab == IF oldvers THEN expand_avtab(x, x.te_avtab) ELSE x.te_avtab
        Kind(r) == r.specified \cap AvSpec # {}
        With(i) == SelectSeq(tab, LAMBDA r : Key(r) = Key(tab[i]) /\ Kind(r) = Kind(tab[i]))
        first == SelectSeq([i \in DOMAIN tab |-> i],
                    LAMBDA i : \A j \in 1..(i - 1) : Key(tab[j]) # Key(tab[i]) \/ Kind(tab[j]) # Kind(tab[i]))
        merged == FoldLeft(LAMBDA n, i : n + Len(With(i)) - 1, 0, first)
    IN  IF oldvers THEN Word("nel", Len(tab) - merged) \o List("te_avtab", [n \in DOMAIN first |-> OldItem(With(first[n]))])
        ELSE Word("nel", Len(tab)) \o List("te_avtab", [i \in DOMAIN tab |-> avtab_write_item(tab[i], FALSE)])

role_trans_write(x) ==
    LET new_roletr == KernAt(26)
        kept == SelectSeq(x.role_tr, LAMBDA r : new_roletr \/ r.tclass = ProcessClass)
    IN  Word("nel", Len(kept))
        \o List("role_tr", [i \in DOMAIN kept |->
              Words(<<"role", "type", "new_role">> \o When(new_roletr, <<"tclass">>), kept[i])])

role_allow_write(x) ==
    Word("nel", Len(x.role_allow))
    \o List("role_allow", [i \in DOMAIN x.role_allow |-> Words(<<"role", "new_role">>, x.role_allow[i])])

\* One entry per source type, in the order of the data and of the bits.
filename_write_one_compat(ft) ==
    FlattenSeq([i \in DOMAIN ft.datum |->
        LET st == SetToSortSeq(ft.datum[i].stypes, <)
        IN  [j \in DOMAIN st |-> Word("len", 1) \o Words(<<"name">>, ft) \o Word("stype", st[j])
                                 \o Words(<<"ttype", "tclass">>, ft) \o Words(<<"otype">>, ft.datum[i])]])

filename_write_one(ft) ==
    Word("len", 1) \o Words(<<"name", "ttype", "tclass">>, ft) \o Word("ndatum", Len(ft.datum))
    \o List("datum", [i \in DOMAIN ft.datum |-> Words(<<"stypes", "otype">>, ft.datum[i])])

filename_trans_write(x) ==
    IF p.vers < 33
    THEN Word("nel", x.filename_trans_count)
         \o List("filename_trans", FlattenSeq([i \in DOMAIN x.filename_trans |->
                                                 filename_write_one_compat(x.filename_trans[i])]))
    ELSE Word("nel", Len(x.filename_trans))
         \o List("filename_trans", [i \in DOMAIN x.filename_trans |-> filename_write_one(x.filename_trans[i])])

(***************************************************************************)
(* Sets, MLS and contexts.                                                 *)
(***************************************************************************)
role_set_write(s) == Words(<<"roles", "flags">>, s)
type_set_write(s) == Words(<<"types", "negset", "flags">>, s)
mls_write_level(l) == Words(<<"sens", "cat">>, l)

mls_write_semantic_level_helper(l) ==
    Words(<<"sens">>, l) \o Word("ncat", Len(l.cats))
    \o List("cats", [i \in DOMAIN l.cats |-> Words(<<"low", "high">>, l.cats[i])])
mls_write_semantic_range_helper(f, r) ==
    Struct(f, Struct("low", mls_write_semantic_level_helper(r.low))
              \o Struct("high", mls_write_semantic_level_helper(r.high)))

\* One level when the two are equal.
mls_write_range_helper(f, r) ==
    LET eq == r.low = r.high
    IN  RangeOf(f, Word("nitems", IF eq THEN 1 ELSE 2)
                   \o Word("sens0", r.low.sens) \o When(~eq, Word("sens1", r.high.sens))
                   \o Word("cat0", r.low.cat)   \o When(~eq, Word("cat1", r.high.cat)))

context_write(f, c) ==
    Struct(f, Words(<<"user", "role", "type">>, c)
              \o When(KernBase(19, 5), mls_write_range_helper("range", c.range)))

(***************************************************************************)
(* Symbols.                                                                *)
(***************************************************************************)
perm_write(x) == Word("len", 1) \o Words(<<"value", "key">>, x)
Perms(x) == List("perms", [i \in DOMAIN x.perms |-> perm_write(x.perms[i])])

common_write(x) == Word("len", 1) \o Words(<<"value", "nprim">>, x) \o Word("nel", Len(x.perms))
                   \o Words(<<"key">>, x) \o Perms(x)

write_cons_helper(f, cons, allowxtarget) ==
    List(f, [i \in DOMAIN cons |->
        LET ex == cons[i].expr
        IN  Words(<<"permissions">>, cons[i]) \o Word("nexpr", Len(ex))
            \o List("expr", [j \in DOMAIN ex |->
                  Words(<<"expr_type", "attr", "op">>, ex[j])
                  \o When(ex[j].expr_type = "NAMES",
                          When(~allowxtarget /\ "XTARGET" \in ex[j].attr, Error)
                          \o Words(<<"names">>, ex[j])
                          \o When(~Kern \/ KernAt(29), Struct("type_names", type_set_write(ex[j].type_names))))])])

class_write(x) ==
    Word("len", 1) \o Word("len2", IF x.comkey = "" THEN 0 ELSE 1) \o Words(<<"value", "nprim">>, x)
    \o Word("nel", Len(x.perms)) \o Word("ncons", Len(x.constraints)) \o Words(<<"key">>, x)
    \o When(x.comkey # "", Words(<<"comkey">>, x))
    \o Perms(x)
    \o write_cons_helper("constraints", x.constraints, FALSE)
    \o When(KernBase(19, 5), Word("ntrans", Len(x.validatetrans))
                             \o write_cons_helper("validatetrans", x.validatetrans, TRUE))
    \o When(KernBase(27, 15),
            Words(<<"default_user", "default_role">>, x)
            \o Word("default_range", IF ~glblub_version /\ x.default_range = "glblub" THEN "" ELSE x.default_range))
    \o When(KernBase(28, 16), Words(<<"default_type">>, x))

\* Role attributes are not written: the caller has to leave them out of its count.
NoRoleAttribs == Kern \/ ~ModuleAt(13)
role_write(x) ==
    Word("len", 1) \o Words(<<"value">>, x)
    \o When(policydb_has_boundary_feature, Words(<<"bounds">>, x))
    \o Words(<<"key", "dominates">>, x)
    \o (IF Kern THEN Word("types", IF x.key = "object_r" THEN {} ELSE x.types.types)
        ELSE Struct("types", type_set_write(x.types)))
    \o When(ModuleAt(13), Words(<<"flavor", "roles">>, x))

NoTypeAttribs == Kern /\ p.vers < 24
type_write(x) ==
    Word("len", 1) \o Words(<<"value">>, x)
    \o (IF policydb_has_boundary_feature
        THEN When(ModuleAt(10), Words(<<"primary">>, x))
             \o Word("properties", {q \in {"PRIMARY", "ATTRIBUTE", "ALIAS", "PERMISSIVE"} :
                        \/ q = "PRIMARY"    /\ x.primary # 0
                        \/ q = "ATTRIBUTE"  /\ x.flavor = "attrib"
                        \/ q = "ALIAS"      /\ x.flavor = "alias" /\ ~Kern
                        \/ q = "PERMISSIVE" /\ "permissive" \in x.flags /\ ~Kern})
             \o Words(<<"bounds">>, x)
        ELSE Words(<<"primary">> \o When(~Kern, <<"flavor">> \o When(p.vers >= 8, <<"flags">>)), x))
    \o When(~Kern, Words(<<"types">>, x))
    \o Words(<<"key">>, x)

user_write(x) ==
    Word("len", 1) \o Words(<<"value">>, x)
    \o When(policydb_has_boundary_feature, Words(<<"bounds">>, x))
    \o Words(<<"key">>, x)
    \o (IF Kern THEN Word("roles", x.roles.roles) ELSE Struct("roles", role_set_write(x.roles)))
    \o When(ExpandedUserRange, mls_write_range_helper("exp_range", x.exp_range)
                               \o Struct("exp_dfltlevel", mls_write_level(x.exp_dfltlevel)))
    \o When(SemanticUserRange, mls_write_semantic_range_helper("range", x.range)
                               \o Struct("dfltlevel", mls_write_semantic_level_helper(x.dfltlevel)))

cond_write_bool(x) == Words(<<"value", "state">>, x) \o Word("len", 1) \o Words(<<"key">>, x)
                      \o When(ModuleAt(14), Words(<<"flags">>, x))
sens_write(x) == Word("len", 1) \o Words(<<"isalias", "key">>, x) \o Struct("level", mls_write_level(x.level))
cat_write(x)  == Word("len", 1) \o Words(<<"value", "isalias", "key">>, x)

write_f(s, x) == CASE s = "commons" -> common_write(x) [] s = "classes" -> class_write(x)
                   [] s = "roles"   -> role_write(x)   [] s = "types"   -> type_write(x)
                   [] s = "users"   -> user_write(x)   [] s = "bools"   -> cond_write_bool(x)
                   [] s = "levels"  -> sens_write(x)   [] s = "cats"    -> cat_write(x)

\* hashtab_map with write_f: the symbols of a table that are written at all
Written(s, tab) == SelectSeq(tab, LAMBDA x : /\ ~(s = "roles" /\ NoRoleAttribs /\ x.flavor = "attrib")
                                             /\ ~(s = "types" /\ NoTypeAttribs /\ x.flavor = "attrib"))
Symbols(s, tab) == LET w == Written(s, tab) IN List("table", [i \in DOMAIN w |-> write_f(s, w[i])])
type_attr_uncount_Forgotten(tab) == 0
type_attr_uncount(tab) == Cardinality({i \in DOMAIN tab : tab[i].flavor = "attrib"})
role_attr_uncount(tab) == Cardinality({i \in DOMAIN tab : tab[i].flavor = "attrib"})

symtab_write(x, s) ==
    LET tab == x.symtab[s].table
    IN  Words(<<"nprim">>, x.symtab[s])
        \o Word("nel", Len(tab)
                - (IF s = "types" /\ Kern /\ p.vers < 24 THEN type_attr_uncount(tab)
                   ELSE IF s = "roles" /\ (Kern \/ p.vers < 13) THEN role_attr_uncount(tab) ELSE 0))
        \o Symbols(s, tab)

(***************************************************************************)
(* Rules of a module, and conditionals.                                    *)
(***************************************************************************)
avrule_write(r, conditional) ==
    When(p.vers < 21 /\ r.specified \cap TypeSpec # {} /\ "self" \in r.flags, Error)
    \o Words(<<"specified", "flags">>, r)
    \o Struct("stypes", type_set_write(r.stypes)) \o Struct("ttypes", type_set_write(r.ttypes))
    \o Word("len", Len(r.perms)) \o List("perms", [i \in DOMAIN r.perms |-> Words(<<"tclass", "data">>, r.perms[i])])
    \o When(r.specified \cap XpermSpec # {},
            When(p.vers < 18 \/ (conditional /\ ~policydb_has_cond_xperms_feature) \/ p.target # "selinux", Error)
            \o Words(<<"xspecified", "driver", "xperms">>, r))

avrule_write_list(f, l, conditional) ==
    Word(f \o "_len", Len(l)) \o List(f, [i \in DOMAIN l |-> avrule_write(l[i], conditional)])

cond_write_av_list(x, f, l) ==
    LET ls == IF oldvers THEN expand_cond_av_list(x, l) ELSE l
    IN  Word(f \o "_len", Len(ls))
        \o List(f, [i \in DOMAIN ls |-> IF oldvers THEN OldItem(<<ls[i]>>) ELSE avtab_write_item(ls[i], TRUE)])

cond_write_node(x, n) ==
    Words(<<"cur_state">>, n) \o Word("len", Len(n.expr))
    \o List("expr", [i \in DOMAIN n.expr |-> Words(<<"expr_type", "boolean">>, n.expr[i])])
    \o (IF Kern THEN cond_write_av_list(x, "true_list", n.true_list)
                     \o cond_write_av_list(x, "false_list", n.false_list)
        ELSE avrule_write_list("avtrue_list", n.avtrue_list, TRUE)
             \o avrule_write_list("avfalse_list", n.avfalse_list, TRUE))
    \o When(ModuleAt(14), Words(<<"flags">>, n))

cond_write_list(x, l) ==
    Word("ncond", Len(l)) \o List("cond_list", [i \in DOMAIN l |-> cond_write_node(x, l[i])])

only_process(S) == S \subseteq {ProcessClass}
role_trans_rule_write(l) ==
    LET new_role == p.vers >= 12
        kept == SelectSeq(l, LAMBDA r : new_role \/ only_process(r.classes))
    IN  Word("nrole_tr", Len(kept))
        \o List("role_tr_rules", [i \in DOMAIN kept |->
              Struct("roles", role_set_write(kept[i].roles)) \o Struct("types", type_set_write(kept[i].types))
              \o Words(When(new_role, <<"classes">>) \o <<"new_role">>, kept[i])])

role_allow_rule_write(l) ==
    Word("nrole_allow", Len(l))
    \o List("role_allow_rules", [i \in DOMAIN l |->
          Struct("roles", role_set_write(l[i].roles)) \o Struct("new_roles", role_set_write(l[i].new_roles))])

filename_trans_rule_write(l) ==
    Word("nfilename_tr", Len(l))
    \o List("filename_trans_rules", [i \in DOMAIN l |->
          Word("len", 1) \o Words(<<"name">>, l[i])
          \o Struct("stypes", type_set_write(l[i].stypes)) \o Struct("ttypes", type_set_write(l[i].ttypes))
          \o Words(<<"tclass", "otype">>, l[i])
          \o (IF p.vers >= 21 THEN Words(<<"flags">>, l[i]) ELSE When("self" \in l[i].flags, Error))])

range_trans_rule_write(l) ==
    Word("nrange_tr", Len(l))
    \o List("range_tr_rules", [i \in DOMAIN l |->
          Struct("stypes", type_set_write(l[i].stypes)) \o Struct("ttypes", type_set_write(l[i].ttypes))
          \o Words(<<"tclasses">>, l[i]) \o mls_write_semantic_range_helper("trange", l[i].trange)])

scope_index_write(f, x) ==
    Struct(f, Words(Sym, x)
              \o Word("class_perms_len", Len(x.class_perms))
              \o List("class_perms", [i \in DOMAIN x.class_perms |-> Words(<<"map">>, x.class_perms[i])]))

avrule_decl_write(x, d) ==
    Words(<<"decl_id", "enabled">>, d)
    \o cond_write_list(x, d.cond_list)
    \o avrule_write_list("avrules", d.avrules, FALSE)
    \o role_trans_rule_write(d.role_tr_rules)
    \o role_allow_rule_write(d.role_allow_rules)
    \o When(p.vers >= 11, filename_trans_rule_write(d.filename_trans_rules))
    \o When(p.vers >= 6, range_trans_rule_write(d.range_tr_rules))
    \o scope_index_write("required", d.required)
    \o scope_index_write("declared", d.declared)
    \o Struct("symtab", FlattenSeq([i \in DOMAIN Sym |->
          LET tab == d.symtab[Sym[i]]
          IN  Struct(Sym[i], Words(<<"nprim">>, tab) \o Word("nel", Len(tab.table)) \o Symbols(Sym[i], tab.table))]))

avrule_block_write(x) ==
    Word("num_blocks", Len(x.global))
    \o List("global", [b \in DOMAIN x.global |->
          LET decls == x.global[b].decls
          IN  Word("num_decls", Len(decls)) \o List("decls", [d \in DOMAIN decls |-> avrule_decl_write(x, decls[d])])])

scope_write(x) == Word("len", 1) \o Words(<<"key", "scope">>, x) \o Word("decl_ids_len", Len(x.decl_ids))
                  \o Words(<<"decl_ids">>, x)
scopes_write(x) ==
    FlattenSeq([i \in DOMAIN Sym |->
        LET sc == x.scope[Sym[i]].scopes
        IN  Struct(Sym[i], Word("nel", Len(sc)) \o List("scopes", [j \in DOMAIN sc |-> scope_write(sc[j])]))])

(***************************************************************************)
(* Contexts of objects, and the rest.                                      *)
(***************************************************************************)
\* The fields in front of the context of each kind; network interfaces and file systems have two.
ocontext_write_selinux(kind, c) ==
    (CASE kind = "isid"           -> Words(<<"sid">>, c)
       [] kind \in {"fs", "netif"} -> Word("len", 1) \o Words(<<"name">>, c)
       [] kind = "port"           -> Words(<<"protocol", "low_port", "high_port">>, c)
       [] kind = "node"           -> Words(<<"addr", "mask">>, c)
       [] kind = "fsuse"          -> Words(<<"behavior">>, c) \o Word("len", 1) \o Words(<<"name">>, c)
       [] kind = "node6"          -> Words(<<"addr", "mask">>, c)
       [] kind = "ibpkey"         -> Words(<<"subnet_prefix", "low_pkey", "high_pkey">>, c)
       [] kind = "ibendport"      -> Word("len", 1) \o Words(<<"port", "dev_name">>, c))
    \o context_write("context0", c.context0)
    \o When(kind \in {"fs", "netif"}, context_write("context1", c.context1))

\* iomem.high is the number of 32-bit words its value needs.
ocontext_write_xen(kind, c) ==
    (CASE kind = "isid"       -> Words(<<"sid">>, c)
       [] kind = "pirq"       -> Words(<<"pirq">>, c)
       [] kind = "ioport"     -> Words(<<"low", "high">>, c)
       [] kind = "iomem"      -> IF p.vers >= 30 THEN Words(<<"low64", "high64">>, c)
                                 ELSE When(c.high64 > 1, Error) \o Word("low32", c.low64) \o Word("high32", c.high64)
       [] kind = "pcidevice"  -> Words(<<"device">>, c)
       [] kind = "devicetree" -> Word("len", 1) \o Words(<<"name">>, c))
    \o context_write("context0", c.context0)

\* An initial SID without a context is neither counted nor written.
ocontext_write(x, kind) ==
    LET kept == SelectSeq(x.ocontexts[kind], LAMBDA c : kind # "isid" \/ c.context0.user # 0)
    IN  Word("nel", Len(kept))
        \o List("ocontexts", [i \in DOMAIN kept |-> IF p.target = "xen" THEN ocontext_write_xen(kind, kept[i])
                                                     ELSE ocontext_write_selinux(kind, kept[i])])

genfs_write(x) ==
    Word("nel", Len(x.genfs))
    \o List("genfs", [i \in DOMAIN x.genfs |->
          LET h == x.genfs[i].head
          IN  Word("len", 1) \o Words(<<"fstype">>, x.genfs[i]) \o Word("nel2", Len(h))
              \o List("head", [j \in DOMAIN h |-> Word("len", 1) \o Words(<<"name", "sclass">>, h[j])
                                                  \o context_write("context0", h[j].context0)])])

range_write(x) ==
    LET new_rangetr == KernAt(21)
        kept == SelectSeq(x.range_tr, LAMBDA r : new_rangetr \/ r.target_class = ProcessClass)
    IN  Word("nel", Len(kept))
        \o List("range_tr", [i \in DOMAIN kept |->
              Words(<<"source_type", "target_type">> \o When(new_rangetr, <<"target_class">>), kept[i])
              \o mls_write_range_helper("range", kept[i].range)])

(***************************************************************************)
(* policydb_write: the sections of the file, in order.                     *)
(***************************************************************************)
Section(n, c) == <<[name |-> n, cells |-> c]>>

header_write(x) ==
    When(p.mls /\ ~AnyAt(19, 5), Error)
    \o Word("magic", IF Kern THEN "POLICYDB_MAGIC" ELSE "POLICYDB_MOD_MAGIC") \o Word("len", 1)
    \o Word("string", IF Kern THEN p.target ELSE "module")
    \o (IF policydb_lookup_compat(p.vers, p.type, p.target) = {} THEN Error
        ELSE When(~Kern, Word("policy_type", p.type))
             \o Word("policyvers", p.vers) \o Word("config", [mls |-> p.mls, handle_unknown |-> x.handle_unknown])
             \o Word("sym_num", info.sym_num) \o Word("ocon_num", info.ocon_num))
    \o When(p.type = "MOD", Word("len", 1) \o Words(<<"name">>, x) \o Word("len", 1) \o Words(<<"version">>, x))

maps_write(x) == When(AnyAt(22, 7), Words(<<"policycaps">>, x)) \o When(KernAt(23), Words(<<"permissive_map">>, x))

policydb_write(x) ==
    Section("maps", maps_write(x))
    \o FlattenSeq([i \in 1..info.sym_num |-> Section(Sym[i], symtab_write(x, Sym[i]))])
    \o (IF Kern THEN Section("te_avtab", avtab_write(x))
                     \o When(p.vers >= 16, Section("cond_list", cond_write_list(x, x.cond_list)))
                     \o Section("role_tr", role_trans_write(x))
                     \o Section("role_allow", role_allow_write(x))
                     \o When(p.vers >= 25, Section("filename_trans", filename_trans_write(x)))
        ELSE Section("global", avrule_block_write(x)) \o Section("scope", scopes_write(x)))
    \o FlattenSeq([i \in 1..info.ocon_num |->
          Section(Ocon[p.target][i], ocontext_write(x, Ocon[p.target][i]))])
    \o Section("genfs", genfs_write(x))
    \o When(KernAt(19) \/ (p.type = "BASE" /\ p.vers = 5), Section("range_tr", range_write(x)))
    \o When(KernAt(20), Section("type_attr_map",
            [i \in 1..x.symtab["types"].nprim |-> Word("type_attr_map", x.type_attr_map[i])[1]]))
=============================================================================
