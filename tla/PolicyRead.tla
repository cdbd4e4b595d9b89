----------------------------- MODULE PolicyRead -----------------------------
(***************************************************************************)
(* The readers of policydb.c, avtab.c and conditional.c.  X_read(in) is    *)
(* the layout X_read consumes, computed from the words in that it has read *)
(* so far and from the symbols in got, and what it refuses.  The section   *)
(* "What is kept" is what ends up in the policydb.                         *)
(*                                                                         *)
(* Left out: that a key found twice is refused (hashtab_insert), limits on *)
(* the size of values and names (policydb.c:2281, :3000), and that range   *)
(* transitions read without a class need the class "process" (:3586).  No  *)
(* file that is written meets them: the names are distinct and short, and  *)
(* every policy of the runs has the class.                                 *)
(***************************************************************************)
EXTENDS PolicyWrite, TLC

CONSTANTS PermMax,      \* PERM_SYMTAB_SIZE
          CexprMax      \* CEXPR_MAXDEPTH

value_isvalid(v, n) == 1 <= v /\ v <= n

role_set_read(in) == Tags(<<"roles", "flags">>)
type_set_read(in) == Tags(<<"types", "negset", "flags">>)
mls_read_level(in) == Tags(<<"sens", "cat">>)

mls_read_semantic_level_helper(in) ==
    Tags(<<"sens", "ncat">>) \o InList("cats", in, Val(in, "ncat"), LAMBDA e : Tags(<<"low", "high">>))
mls_read_semantic_range_helper(f, in) ==
    InStruct(f, InStruct("low", mls_read_semantic_level_helper(Sub(Sub(in, f), "low")))
                \o InStruct("high", mls_read_semantic_level_helper(Sub(Sub(in, f), "high"))))
mls_read_range_helper(f, in) ==
    LET items == Val(Sub(in, f), "nitems")
    IN  InRange(f, Check(items <= 2) \o Tags(<<"nitems", "sens0">> \o When(items > 1, <<"sens1">>)
                                            \o <<"cat0">> \o When(items > 1, <<"cat1">>)))

\* policydb_context_isvalid is part of the validation below: here the shape of the words.
context_read_and_validate(f, in) ==
    InStruct(f, Tags(<<"user", "role", "type">>)
                \o When(KernBase(19, 5), mls_read_range_helper("range", Sub(in, f))))

(***************************************************************************)
(* Symbols.                                                                *)
(***************************************************************************)
perm_read(in, nprim) == Tags(<<"len", "value", "key">>) \o Check(value_isvalid(Val(in, "value"), nprim))
PermsIn(in) == Check(Val(in, "nprim") <= PermMax)
               \o InList("perms", in, Val(in, "nel"), LAMBDA e : perm_read(e, Val(in, "nprim")))

common_read(in) == Tags(<<"len", "value", "nprim", "nel", "key">>) \o PermsIn(in)

\* The stack depth of a constraint expression, -1 when empty and CexprMax when it cannot be evaluated.
CexprDepth(types) ==
    LET Step(d, t) == CASE d >= CexprMax                   -> CexprMax
                        [] t = "NOT"                       -> IF d < 0 THEN CexprMax ELSE d
                        [] t \in {"AND", "OR"}             -> IF d < 1 THEN CexprMax ELSE d - 1
                        [] t \in {"ATTR", "NAMES"}         -> IF d = CexprMax - 1 THEN CexprMax ELSE d + 1
                        [] OTHER                           -> CexprMax
    IN  FoldLeft(Step, -1, types)

read_cons_helper(f, in, ncons, allowxtarget) ==
    InList(f, in, ncons, LAMBDA c :
        Tags(<<"permissions", "nexpr">>)
        \o InList("expr", c, Val(c, "nexpr"), LAMBDA e :
              Tags(<<"expr_type", "attr", "op">>)
              \o When(Val(e, "expr_type") = "NAMES",
                      Check(allowxtarget \/ "XTARGET" \notin Val(e, "attr"))
                      \o Tags(<<"names">>)
                      \o When(~Kern \/ KernAt(29), InStruct("type_names", type_set_read(e)))))
        \o Check(CexprDepth([i \in DOMAIN Sub(c, "expr") |-> Val(Sub(c, "expr")[i], "expr_type")]) = 0))

Declared(s, key) == \E i \in DOMAIN got.symtab[s].table : got.symtab[s].table[i].key = key

class_read(in) ==
    Tags(<<"len", "len2", "value", "nprim", "nel", "ncons", "key">>)
    \o When(Val(in, "len2") # 0,
            Tags(<<"comkey">>)
            \o Check(Declared("commons", Val(in, "comkey"))))
    \o PermsIn(in)
    \o read_cons_helper("constraints", in, Val(in, "ncons"), FALSE)
    \o When(KernBase(19, 5), Tags(<<"ntrans">>) \o read_cons_helper("validatetrans", in, Val(in, "ntrans"), TRUE))
    \o When(KernBase(27, 15), Tags(<<"default_user", "default_role", "default_range">>))
    \o When(KernBase(28, 16), Tags(<<"default_type">>))

role_read(in) ==
    Tags(<<"len", "value">> \o When(policydb_has_boundary_feature, <<"bounds">>) \o <<"key", "dominates">>)
    \o (IF Kern THEN Tags(<<"types">>) ELSE InStruct("types", type_set_read(in)))
    \o When(ModuleAt(13), Tags(<<"flavor", "roles">>))
    \o Check(Val(in, "key") = "object_r" => Val(in, "value") = 1)

type_read(in) ==
    Tags(<<"len", "value">>
         \o (IF policydb_has_boundary_feature
             THEN When(ModuleAt(10), <<"primary">>) \o <<"properties", "bounds">>
             ELSE <<"primary">> \o When(~Kern, <<"flavor">> \o When(p.vers >= 8, <<"flags">>)))
         \o When(~Kern, <<"types">>) \o <<"key">>)

user_read(in) ==
    Tags(<<"len", "value">> \o When(policydb_has_boundary_feature, <<"bounds">>) \o <<"key">>)
    \o (IF Kern THEN Tags(<<"roles">>) ELSE InStruct("roles", role_set_read(in)))
    \o When(ExpandedUserRange, mls_read_range_helper("exp_range", in)
                               \o InStruct("exp_dfltlevel", mls_read_level(in)))
    \o When(SemanticUserRange, mls_read_semantic_range_helper("range", in)
                               \o InStruct("dfltlevel", mls_read_semantic_level_helper(Sub(in, "dfltlevel"))))

cond_read_bool(in) == Tags(<<"value", "state", "len", "key">> \o When(ModuleAt(14), <<"flags">>))
                      \o Check(Val(in, "state") \in {0, 1})
sens_read(in) == Tags(<<"len", "isalias", "key">>) \o InStruct("level", mls_read_level(in))
cat_read(in)  == Tags(<<"len", "value", "isalias", "key">>)

read_f(s, in) == CASE s = "commons" -> common_read(in) [] s = "classes" -> class_read(in)
                   [] s = "roles"   -> role_read(in)   [] s = "types"   -> type_read(in)
                   [] s = "users"   -> user_read(in)   [] s = "bools"   -> cond_read_bool(in)
                   [] s = "levels"  -> sens_read(in)   [] s = "cats"    -> cat_read(in)

symtab_read(s, in) ==
    Tags(<<"nprim", "nel">>) \o Check(Val(in, "nel") > 0 => Val(in, "nprim") > 0)
    \o InList("table", in, Val(in, "nel"), LAMBDA e : read_f(s, e))

(***************************************************************************)
(* Rules.                                                                  *)
(***************************************************************************)
\* The tags of the data of an old item follow from its specifier.
avtab_read_item(in) ==
    LET spec == IF HasTag(in, "specified") THEN At(in, "specified") ELSE {}
        used == SelectSeq(spec_order, LAMBDA s : s \in spec)
    IN  IF oldvers
        THEN Tags(<<"nitems", "source_type", "target_type", "target_class", "specified">> \o used)
             \o Check(Val(in, "nitems") \in 5..8 /\ Val(in, "nitems") = 4 + Len(used))
             \o Check(spec \cap AvSpec = {} <=> spec \cap TypeSpec # {})
        ELSE Tags(<<"source_type", "target_type", "target_class", "specified">>)
             \o Check(Cardinality(spec \ {"enabled"}) = 1)
             \o (IF spec \cap XpermSpec # {} THEN Check(p.vers >= 30) \o Tags(<<"xspecified", "driver", "xperms">>)
                 ELSE Tags(<<"data">>))

avtab_read(in) == Tags(<<"nel">>) \o Check(Val(in, "nel") # 0)
                  \o InList("te_avtab", in, Val(in, "nel"), avtab_read_item)

avrule_read(in) ==
    Tags(<<"specified", "flags">>) \o InStruct("stypes", type_set_read(in)) \o InStruct("ttypes", type_set_read(in))
    \o Tags(<<"len">>) \o InList("perms", in, Val(in, "len"), LAMBDA e : Tags(<<"tclass", "data">>))
    \o When(HasTag(in, "specified") /\ At(in, "specified") \cap XpermSpec # {},
            Check(p.vers >= 18 /\ p.target = "selinux") \o Tags(<<"xspecified", "driver", "xperms">>))
avrule_read_list(f, in) ==
    Tags(<<f \o "_len">>) \o InList(f, in, Val(in, f \o "_len"), avrule_read)

expr_isvalid(e) == Val(e, "expr_type") \in {"BOOL", "NOT", "OR", "AND", "XOR", "EQ", "NEQ"} /\ Val(e, "boolean") <= got.symtab["bools"].nprim
cond_read_av_list(f, in) ==
    Tags(<<f \o "_len">>) \o InList(f, in, Val(in, f \o "_len"), avtab_read_item)
cond_read_node(in) ==
    Tags(<<"cur_state", "len">>)
    \o InList("expr", in, Val(in, "len"), LAMBDA e : Tags(<<"expr_type", "boolean">>) \o Check(expr_isvalid(e)))
    \o (IF Kern THEN cond_read_av_list("true_list", in) \o cond_read_av_list("false_list", in)
        ELSE avrule_read_list("avtrue_list", in) \o avrule_read_list("avfalse_list", in))
    \o When(ModuleAt(14), Tags(<<"flags">>))
cond_read_list(in) == Tags(<<"ncond">>) \o InList("cond_list", in, Val(in, "ncond"), cond_read_node)

role_trans_read(in) ==
    Tags(<<"nel">>) \o InList("role_tr", in, Val(in, "nel"),
                         LAMBDA e : Tags(<<"role", "type", "new_role">> \o When(KernAt(26), <<"tclass">>)))
role_allow_read(in) ==
    Tags(<<"nel">>) \o InList("role_allow", in, Val(in, "nel"), LAMBDA e : Tags(<<"role", "new_role">>))

filename_trans_read_one_compat(in) ==
    Tags(<<"len", "name", "stype", "ttype", "tclass", "otype">>) \o Check(Val(in, "stype") # 0)
\* No two data of a key have one result type or share a source type.
filename_trans_check_datum(d) ==
    \A i, j \in DOMAIN d : i < j => /\ Val(d[i], "otype") # Val(d[j], "otype")
                                    /\ At(d[i], "stypes") \cap At(d[j], "stypes") = {}
filename_trans_read_one(in) ==
    Tags(<<"len", "name", "ttype", "tclass", "ndatum">>) \o Check(Val(in, "ndatum") # 0)
    \o InList("datum", in, Val(in, "ndatum"), LAMBDA e : Tags(<<"stypes", "otype">>))
    \o Check(filename_trans_check_datum(Sub(in, "datum")))
filename_trans_read(in) ==
    Tags(<<"nel">>)
    \o InList("filename_trans", in, Val(in, "nel"), LAMBDA e :
          IF p.vers < 33 THEN filename_trans_read_one_compat(e) ELSE filename_trans_read_one(e))

(***************************************************************************)
(* Blocks and scopes of a module.                                          *)
(***************************************************************************)
role_trans_rule_read(in) ==
    Tags(<<"nrole_tr">>)
    \o InList("role_tr_rules", in, Val(in, "nrole_tr"), LAMBDA e :
          InStruct("roles", role_set_read(e)) \o InStruct("types", type_set_read(e))
          \o Tags(When(p.vers >= 12, <<"classes">>) \o <<"new_role">>))
role_allow_rule_read(in) ==
    Tags(<<"nrole_allow">>)
    \o InList("role_allow_rules", in, Val(in, "nrole_allow"), LAMBDA e :
          InStruct("roles", role_set_read(e)) \o InStruct("new_roles", role_set_read(e)))
filename_trans_rule_read(in) ==
    Tags(<<"nfilename_tr">>)
    \o InList("filename_trans_rules", in, Val(in, "nfilename_tr"), LAMBDA e :
          Tags(<<"len", "name">>) \o InStruct("stypes", type_set_read(e)) \o InStruct("ttypes", type_set_read(e))
          \o Tags(<<"tclass", "otype">> \o When(p.vers >= 21, <<"flags">>)))
range_trans_rule_read(in) ==
    Tags(<<"nrange_tr">>)
    \o InList("range_tr_rules", in, Val(in, "nrange_tr"), LAMBDA e :
          InStruct("stypes", type_set_read(e)) \o InStruct("ttypes", type_set_read(e))
          \o Tags(<<"tclasses">>) \o mls_read_semantic_range_helper("trange", e))

scope_index_read(f, in) ==
    InStruct(f, Tags(Sym) \o Tags(<<"class_perms_len">>)
                \o InList("class_perms", Sub(in, f), Val(Sub(in, f), "class_perms_len"), LAMBDA e : Tags(<<"map">>)))

avrule_decl_read(in) ==
    Tags(<<"decl_id", "enabled">>)
    \o cond_read_list(in)
    \o avrule_read_list("avrules", in)
    \o role_trans_rule_read(in)
    \o role_allow_rule_read(in)
    \o When(p.vers >= 11, filename_trans_rule_read(in))
    \o When(p.vers >= 6, range_trans_rule_read(in))
    \o scope_index_read("required", in)
    \o scope_index_read("declared", in)
    \o InStruct("symtab", FlattenSeq([i \in DOMAIN Sym |->
          LET tab == Sub(Sub(in, "symtab"), Sym[i])
          IN  InStruct(Sym[i], Tags(<<"nprim", "nel">>)
                               \o InList("table", tab, Val(tab, "nel"), LAMBDA e : read_f(Sym[i], e)))]))

\* At most one declaration of a block is enabled.
avrule_block_read(in) ==
    Tags(<<"num_blocks">>) \o Check(Val(in, "num_blocks") # 0)
    \o InList("global", in, Val(in, "num_blocks"), LAMBDA b :
          Tags(<<"num_decls">>) \o InList("decls", b, Val(b, "num_decls"), avrule_decl_read)
          \o Check(Cardinality({i \in DOMAIN Sub(b, "decls") : Val(Sub(b, "decls")[i], "enabled") = 1}) <= 1))

scope_read(s, in) ==
    Tags(<<"len", "key", "scope", "decl_ids_len", "decl_ids">>)
    \o Check(Declared(s, Val(in, "key")))
    \o Check(Val(in, "decl_ids_len") # 0)
scopes_read(in) ==
    FlattenSeq([i \in DOMAIN Sym |->
        LET f == Sym[i]
        IN  InStruct(f, Tags(<<"nel">>)
                        \o InList("scopes", Sub(in, f), Val(Sub(in, f), "nel"), LAMBDA e : scope_read(Sym[i], e)))])

(***************************************************************************)
(* Contexts of objects, and the rest.                                      *)
(***************************************************************************)
ocontext_read_selinux(kind, in) ==
    Tags(CASE kind = "isid"             -> <<"sid">>
           [] kind \in {"fs", "netif"}  -> <<"len", "name">>
           [] kind = "port"             -> <<"protocol", "low_port", "high_port">>
           [] kind \in {"node", "node6"} -> <<"addr", "mask">>
           [] kind = "fsuse"            -> <<"behavior", "len", "name">>
           [] kind = "ibpkey"           -> <<"subnet_prefix", "low_pkey", "high_pkey">>
           [] kind = "ibendport"        -> <<"len", "port", "dev_name">>)
    \o Check(kind = "ibendport" => Val(in, "port") # 0)
    \o context_read_and_validate("context0", in)
    \o When(kind \in {"fs", "netif"}, context_read_and_validate("context1", in))

ocontext_read_xen(kind, in) ==
    Tags(CASE kind = "isid"       -> <<"sid">>
           [] kind = "pirq"       -> <<"pirq">>
           [] kind = "ioport"     -> <<"low", "high">>
           [] kind = "iomem"      -> IF p.vers >= 30 THEN <<"low64", "high64">> ELSE <<"low32", "high32">>
           [] kind = "pcidevice"  -> <<"device">>
           [] kind = "devicetree" -> <<"len", "name">>)
    \o context_read_and_validate("context0", in)

ocontext_read(kind, in) ==
    Tags(<<"nel">>)
    \o InList("ocontexts", in, Val(in, "nel"), LAMBDA e :
          IF p.target = "xen" THEN ocontext_read_xen(kind, e) ELSE ocontext_read_selinux(kind, e))

\* Neither a file system type nor, within one, a name with overlapping classes comes twice.
genfs_read(in) ==
    LET Twice(l, f, Same(_, _)) == \E i, j \in DOMAIN l : i < j /\ Val(l[i], f) = Val(l[j], f) /\ Same(l[i], l[j])
        SameClass(a, b) == 0 \in {Val(a, "sclass"), Val(b, "sclass")} \/ Val(a, "sclass") = Val(b, "sclass")
    IN  Tags(<<"nel">>)
        \o InList("genfs", in, Val(in, "nel"), LAMBDA g :
              Tags(<<"len", "fstype", "nel2">>)
              \o InList("head", g, Val(g, "nel2"), LAMBDA e :
                    Tags(<<"len", "name", "sclass">>) \o context_read_and_validate("context0", e))
              \o Check(~Twice(Sub(g, "head"), "name", SameClass)))
        \o Check(~Twice(Sub(in, "genfs"), "fstype", LAMBDA a, b : TRUE))

range_read(in) ==
    LET new_rangetr == KernAt(21)
    IN  Tags(<<"nel">>)
        \o InList("range_tr", in, Val(in, "nel"), LAMBDA e :
              Tags(<<"source_type", "target_type">> \o When(new_rangetr, <<"target_class">>))
              \o Check(/\ value_isvalid(Val(e, "source_type"), got.symtab["types"].nprim)
                       /\ value_isvalid(Val(e, "target_type"), got.symtab["types"].nprim)
                       /\ new_rangetr => value_isvalid(Val(e, "target_class"), got.symtab["classes"].nprim))
              \o mls_read_range_helper("range", e))

(***************************************************************************)
(* policydb_read: its sections, in order.                                  *)
(***************************************************************************)
\* p is what the header says.
HeaderOf(in) == [type   |-> IF Val(in, "magic") = "POLICYDB_MAGIC" THEN "KERN" ELSE Val(in, "policy_type"),
                 vers   |-> Val(in, "policyvers"),
                 target |-> IF Val(in, "magic") = "POLICYDB_MAGIC" THEN Val(in, "string") ELSE "selinux",
                 mls    |-> Val(in, "config").mls]
header_read(in) ==
    Tags(<<"magic", "len", "string">> \o When(~Kern, <<"policy_type">>)
         \o <<"policyvers", "config", "sym_num", "ocon_num">>
         \o When(p.type = "MOD", <<"len", "name", "len", "version">>))
    \o Check(/\ p.vers \in IF Kern THEN 15..34 ELSE 4..22
             /\ policydb_lookup_compat(p.vers, p.type, p.target)
                    = {[sym_num |-> Val(in, "sym_num"), ocon_num |-> Val(in, "ocon_num")]})

maps_read(in) == Tags(When(AnyAt(22, 7), <<"policycaps">>) \o When(KernAt(23), <<"permissive_map">>))

\* No bit of the map of a type beyond the last type.
type_attr_map_read(in) ==
    Tags([i \in 1..got.symtab["types"].nprim |-> "type_attr_map"])
    \o Check(\A i \in DOMAIN in : \A v \in in[i].v : v <= got.symtab["types"].nprim)

ReadOrder == <<"maps">> \o [i \in 1..info.sym_num |-> Sym[i]]
    \o (IF Kern THEN <<"te_avtab">> \o When(p.vers >= 16, <<"cond_list">>) \o <<"role_tr", "role_allow">>
                     \o When(p.vers >= 25, <<"filename_trans">>)
        ELSE <<"global", "scope">>)
    \o <<"index">>
    \o [i \in 1..info.ocon_num |-> Ocon[p.target][i]]
    \o <<"genfs">>
    \o When(KernAt(19) \/ (p.type = "BASE" /\ p.vers = 5), <<"range_tr">>)
    \o When(KernAt(20), <<"type_attr_map">>)

policydb_read(s, in) ==
    CASE s = "maps"           -> maps_read(in)
      [] s \in ToSet(Sym)     -> symtab_read(s, in)
      [] s = "te_avtab"       -> avtab_read(in)
      [] s = "cond_list"      -> cond_read_list(in)
      [] s = "role_tr"        -> role_trans_read(in)
      [] s = "role_allow"     -> role_allow_read(in)
      [] s = "filename_trans" -> filename_trans_read(in)
      [] s = "global"         -> avrule_block_read(in)
      [] s = "scope"          -> scopes_read(in)
      [] s = "genfs"          -> genfs_read(in)
      [] s = "range_tr"       -> range_read(in)
      [] s = "type_attr_map"  -> type_attr_map_read(in)
      [] OTHER                -> ocontext_read(s, in)

(***************************************************************************)
(* What is kept.  A field the format lacks is 0, as calloc left it, or what *)
(* the reader puts in its place.                                            *)
(***************************************************************************)
NoLevel == [sens |-> 0, cat |-> {}]
NoRange == [low |-> NoLevel, high |-> NoLevel]
NoSemanticLevel == [sens |-> 0, cats |-> <<>>]
NoSemanticRange == [low |-> NoSemanticLevel, high |-> NoSemanticLevel]
NoTypeSet == [types |-> {}, negset |-> {}, flags |-> {}]

Absent(f, c) ==
    CASE f = "expr" /\ HasTag(c, "attr")       -> [names |-> {}, type_names |-> NoTypeSet]
      [] f \in {"context0", "context1"}        -> [range |-> NoRange]
      [] f = "role_tr"                         -> [tclass |-> ProcessClass]
      [] f = "role_tr_rules"                   -> [classes |-> {ProcessClass}]
      [] f = "range_tr"                        -> [target_class |-> ProcessClass]
      [] f \in {"filename_trans_rules", "cond_list"} -> [flags |-> {}]
      [] f = "decls"                           -> [filename_trans_rules |-> <<>>, range_tr_rules |-> <<>>]
      [] f = "ocontexts" /\ HasTag(c, "low32") -> [low64 |-> At(c, "low32"), high64 |-> At(c, "high32")]
      [] OTHER                                 -> <<>>

\* An old item is one rule for every specifier.
OldRules(c) ==
    LET spec == At(c, "specified")
        used == SelectSeq(spec_order, LAMBDA s : s \in spec)
    IN  [i \in DOMAIN used |-> [source_type |-> At(c, "source_type"), target_type |-> At(c, "target_type"),
                                target_class |-> At(c, "target_class"), data |-> At(c, used[i]),
                                specified |-> {used[i]} \cup (spec \cap {"enabled"})]]

\* Symbols, after their own fields.
mls_level_to_semantic(l) ==
    LET lows  == {c \in l.cat : c - 1 \notin l.cat}
        High(c) == CHOOSE h \in l.cat : h >= c /\ c..h \subseteq l.cat /\ h + 1 \notin l.cat
        runs  == SetToSortSeq(lows, >)                  \* each run in front of the earlier ones
    IN  [sens |-> l.sens, cats |-> [i \in DOMAIN runs |-> [low |-> runs[i], high |-> High(runs[i])]]]
mls_range_to_semantic(r) == [low |-> mls_level_to_semantic(r.low), high |-> mls_level_to_semantic(r.high)]

role_kept(c) ==
    LET r == c @@ [bounds |-> 0, flavor |-> "role", roles |-> {}]
    IN  IF Kern THEN [r EXCEPT !.types = [NoTypeSet EXCEPT !.types = r.types]] ELSE r
type_kept(c) ==
    LET old == c @@ [bounds |-> 0, flavor |-> "type", flags |-> {}, types |-> {}]
        Has(q) == q \in c.properties
    IN  IF ~policydb_has_boundary_feature THEN old
        ELSE [key |-> c.key, value |-> c.value, bounds |-> c.bounds,
              types   |-> IF Kern THEN {} ELSE c.types,
              primary |-> IF ModuleAt(10) THEN c.primary ELSE IF Has("PRIMARY") THEN 1 ELSE 0,
              flavor  |-> IF Has("ALIAS") /\ ~Kern THEN "alias" ELSE IF Has("ATTRIBUTE") THEN "attrib" ELSE "type",
              flags   |-> IF Has("PERMISSIVE") /\ ~Kern THEN {"permissive"} ELSE {}]
user_kept(c) ==
    LET u == c @@ [bounds |-> 0, exp_range |-> NoRange, exp_dfltlevel |-> NoLevel,
                   range |-> NoSemanticRange, dfltlevel |-> NoSemanticLevel]
    IN  IF Kern THEN [u EXCEPT !.roles = [roles |-> u.roles, flags |-> {}]]
        ELSE IF ExpandedUserRange THEN [u EXCEPT !.range = mls_range_to_semantic(u.exp_range),
                                                 !.dfltlevel = mls_level_to_semantic(u.exp_dfltlevel)]
        ELSE u
symbol_kept(s, c) ==
    CASE s = "roles"   -> role_kept(c)
      [] s = "types"   -> type_kept(c)
      [] s = "users"   -> user_kept(c)
      [] s = "bools"   -> c @@ [flags |-> {}]
      [] s = "classes" -> c @@ [comkey |-> "", validatetrans |-> <<>>, default_user |-> "", default_role |-> "",
                                default_range |-> "", default_type |-> ""]
      [] OTHER         -> c
\* The role object_r of a file, and its scope, is dropped: roles_init has already put one there.
table_kept(s, l) ==
    LET all == [i \in DOMAIN l |-> symbol_kept(s, l[i])]
    IN  IF s = "roles" THEN SelectSeq(all, LAMBDA r : r.key # "object_r") ELSE all

RECURSIVE Load(_)
LoadList(f, l) ==
    CASE f \in {"te_avtab", "true_list", "false_list"} /\ oldvers -> FlattenSeq([j \in DOMAIN l |-> OldRules(l[j])])
      [] f = "cats" -> [j \in DOMAIN l |-> Load(l[Len(l) + 1 - j])]             \* each in front
      [] f = "ocontexts" -> [j \in DOMAIN l |->
            [t \in (DOMAIN Load(l[j]) \cup DOMAIN Absent(f, l[j])) \ {"low32", "high32"} |->
                (Load(l[j]) @@ Absent(f, l[j]))[t]]]
      [] OTHER      -> [j \in DOMAIN l |-> Load(l[j]) @@ Absent(f, l[j])]
Load(c) ==
    [t \in {c[i].f : i \in DOMAIN c} \ CountTag |->
        LET e == c[CHOOSE i \in DOMAIN c : c[i].f = t]
            hi == HasTag(e.v, "sens1")
        IN  CASE e.k = "word"   -> e.v
              [] e.f = "symtab" -> [s \in ToSet(Sym) |->
                    [nprim |-> At(At(e.v, s), "nprim"), table |-> table_kept(s, LoadList("table", At(At(e.v, s), "table")))]]
              [] e.k = "struct" -> Load(e.v) @@ Absent(e.f, e.v)
              [] e.k = "list"   -> LoadList(e.f, e.v)
              [] e.k = "range"  -> [low  |-> [sens |-> At(e.v, "sens0"), cat |-> At(e.v, "cat0")],
                                    high |-> [sens |-> At(e.v, IF hi THEN "sens1" ELSE "sens0"),
                                              cat  |-> At(e.v, IF hi THEN "cat1" ELSE "cat0")]]]

policydb_filetrans_insert_InFront(l, e) ==
    LET k == {i \in DOMAIN l : l[i].name = e.name /\ l[i].ttype = e.ttype /\ l[i].tclass = e.tclass}
        i == CHOOSE n \in k : TRUE
        d == {j \in DOMAIN l[i].datum : l[i].datum[j].otype = e.otype}
    IN  CASE k = {} -> Append(l, [name |-> e.name, ttype |-> e.ttype, tclass |-> e.tclass,
                                  datum |-> <<[stypes |-> {e.stype}, otype |-> e.otype]>>])
          [] d # {}  -> [l EXCEPT ![i].datum[CHOOSE j \in d : TRUE].stypes = @ \cup {e.stype}]
          [] OTHER   -> [l EXCEPT ![i].datum = <<[stypes |-> {e.stype}, otype |-> e.otype]>> \o @]
\* One source type after the other; a source type that has a result already is ignored.
policydb_filetrans_insert(l, e) ==
    LET k == {i \in DOMAIN l : l[i].name = e.name /\ l[i].ttype = e.ttype /\ l[i].tclass = e.tclass}
        i == CHOOSE n \in k : TRUE
        d == {j \in DOMAIN l[i].datum : l[i].datum[j].otype = e.otype}
    IN  CASE k = {} -> Append(l, [name |-> e.name, ttype |-> e.ttype, tclass |-> e.tclass,
                                  datum |-> <<[stypes |-> {e.stype}, otype |-> e.otype]>>])
          [] \E j \in DOMAIN l[i].datum : e.stype \in l[i].datum[j].stypes -> l
          [] d # {}  -> [l EXCEPT ![i].datum[CHOOSE j \in d : TRUE].stypes = @ \cup {e.stype}]
          [] OTHER   -> [l EXCEPT ![i].datum = Append(@, [stypes |-> {e.stype}, otype |-> e.otype])]
filename_trans_kept(l) == IF p.vers < 33 THEN FoldLeft(policydb_filetrans_insert, <<>>, l) ELSE l
FiletransCount(l) == FoldLeft(LAMBDA n, ft : FoldLeft(LAMBDA m, d : m + Cardinality(d.stypes), n, ft.datum), 0, l)

\* File systems in the order of their type, the names of one from the longest to the shortest.
SortedBy(l, Before(_, _)) ==
    FoldLeft(LAMBDA a, e : LET n == Cardinality({i \in DOMAIN a : ~Before(e, a[i])})
                           IN  InsertAt(a, n + 1, e), <<>>, l)
genfs_kept(l) ==
    SortedBy([i \in DOMAIN l |-> [l[i] EXCEPT !.head = SortedBy(@, LAMBDA a, b : a.name > b.name)]],
             LAMBDA a, b : a.fstype < b.fstype)

\* The ranges of an old base become rules of the enabled declaration of the global block.
range_kept(l) ==
    LET Rule(r) == [stypes |-> [NoTypeSet EXCEPT !.types = {r.source_type}],
                    ttypes |-> [NoTypeSet EXCEPT !.types = {r.target_type}],
                    tclasses |-> {r.target_class}, trange |-> mls_range_to_semantic(r.range)]
        decls == got.global[1].decls
        d     == CHOOSE i \in DOMAIN decls : decls[i].enabled = 1
    IN  IF Kern THEN [got EXCEPT !.range_tr = l]
        ELSE [got EXCEPT !.global[1].decls[d].range_tr_rules = [i \in DOMAIN l |-> Rule(l[i])]]

\* A type has itself; an attribute has the types in whose map it is.
PrimaryType(v) == \E i \in DOMAIN got.symtab["types"].table :
                     got.symtab["types"].table[i].value = v /\ got.symtab["types"].table[i].primary # 0
Flavor(v) == LET tab == got.symtab["types"].table
             IN  tab[CHOOSE i \in DOMAIN tab : tab[i].value = v /\ tab[i].primary # 0].flavor
type_attr_map_kept(m) ==
    LET T    == 1..got.symtab["types"].nprim
        full == [i \in T |-> m[i] \cup (IF PrimaryType(i) THEN {i} ELSE {})]
    IN  [got EXCEPT !.type_attr_map = full,
                    !.attr_type_map = [j \in T |-> {i \in T : j \in m[i] /\ i # j}
                                          \cup (IF PrimaryType(j) /\ Flavor(j) # "attrib" THEN {j} ELSE {})]]

policydb_kept(s, in) ==
    LET c == Load(in)
    IN  CASE s = "maps"     -> [got EXCEPT !.policycaps = (c @@ [policycaps |-> {}]).policycaps,
                                           !.permissive_map = (c @@ [permissive_map |-> {}]).permissive_map]
          [] s \in ToSet(Sym) -> [got EXCEPT !.symtab[s].nprim = c.nprim, !.symtab[s].table = @ \o table_kept(s, c.table)]
          [] s = "filename_trans" -> [got EXCEPT !.filename_trans = filename_trans_kept(c.filename_trans),
                                                 !.filename_trans_count = FiletransCount(filename_trans_kept(c.filename_trans))]
          [] s = "scope"    -> [got EXCEPT !.scope = [t \in DOMAIN c |-> [scopes |->
                                    got.scope[t].scopes \o SelectSeq(c[t].scopes, LAMBDA x : ~(t = "roles" /\ x.key = "object_r"))]]]
          [] s = "genfs"    -> [got EXCEPT !.genfs = genfs_kept(c.genfs)]
          [] s = "range_tr" -> range_kept(c.range_tr)
          [] s = "type_attr_map" -> type_attr_map_kept([i \in DOMAIN in |-> in[i].v])
          [] s \in {"te_avtab", "cond_list", "role_tr", "role_allow", "global"} -> [got EXCEPT ![s] = c[s]]
          [] OTHER          -> [got EXCEPT !.ocontexts[s] = c.ocontexts]
=============================================================================
