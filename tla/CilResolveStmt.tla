---------------------------- MODULE CilResolveStmt ---------------------------
(* cil_resolve_ast.c: the names of a statement become references.            *)
(*                                                                           *)
(* Every cil_resolve_* is described by the names it looks up, in the order   *)
(* of the code, what it demands of them and what it does to the datums it    *)
(* found.  Tunables, calls, in-statements, inherited blocks and aliases are  *)
(* resolved in CilResolve.                                                   *)
EXTENDS CilResetAst

-----------------------------------------------------------------------------
(* The declarations around the statement.  Every name is declared outside of *)
(* the optional, with the flavor that is looked for; st.odd = <<name, how>>  *)
(* is the exception: it is declared nowhere ("missing"), with another flavor *)
(* of the same table ("other"), in the optional only ("inner"), or in both,  *)
(* the optional being in the block and the other declaration outside of it   *)
(* ("shadowed").  st.optional says that the optional is still there.         *)

OtherFlavor ==
    [TYPE |-> "TYPEATTRIBUTE", TYPEATTRIBUTE |-> "TYPE", ROLE |-> "ROLEATTRIBUTE", ROLEATTRIBUTE |-> "ROLE",
     USER |-> "USERATTRIBUTE", USERATTRIBUTE |-> "USER", CLASS |-> "MAP_CLASS", MAP_CLASS |-> "CLASS", CAT |-> "CATSET"]
\* a common has two permissions, a class one
Declaration(kind, odd) ==
    LET perms(n) == ("num_perms" :> Num(n)) @@ ("perms" :> <<"perms", [k \in 1..n |-> <<"perm", k - 1>>]>>)
    IN  CASE kind = "TYPE" -> cil_type_init
          [] kind = "TYPEATTRIBUTE" -> cil_typeattribute_init
          [] kind = "ROLE" -> cil_role_init
          [] kind = "ROLEATTRIBUTE" -> cil_roleattribute_init
          [] kind = "USER" -> cil_user_init
          [] kind = "USERATTRIBUTE" -> cil_userattribute_init
          [] kind \in {"CLASS", "MAP_CLASS"} -> perms(1) @@ cil_class_init
          [] kind = "COMMON" -> perms(2) @@ cil_class_init
          [] kind \in {"PERM", "MAP_PERM"} -> cil_perm_init
          [] kind = "CLASSPERMISSION" -> cil_classpermission_init
          [] kind = "SENS" -> cil_sens_init
          [] kind = "CAT" -> cil_cat_init
          [] kind = "CATSET" -> cil_catset_init
          [] kind = "LEVEL" -> cil_level_init
          [] kind = "LEVELRANGE" -> cil_levelrange_init
          [] kind = "CONTEXT" -> cil_context_init
          [] kind = "PERMISSIONX" -> cil_permissionx_init
          [] kind = "IPADDR" -> ("ip" :> Val(IF odd THEN "v6" ELSE "v4")) @@ cil_ipaddr_init
          [] kind = "SID" -> cil_sid_init
          [] kind = "BOOL" -> cil_bool_init
          [] kind = "STRING" -> "datum" :> NULL

\* the datum of that name and flavor
Declared(st, name, kind, holder, odd) ==
    LET known == {k \in DOMAIN st.h : /\ st.h[k].live /\ st.h[k].holder = holder /\ st.h[k].kind = kind
                                      /\ "datum" \in DOMAIN st.h[k].f /\ st.h[k].f["datum"] = name}
    IN  IF known # {} THEN With(st, Ref(CHOOSE k \in known : TRUE))
        ELSE With(Alloc(st, kind, holder, [Declaration(kind, odd) EXCEPT !["datum"] = name]), Ref(Last(st) + 1))

\* cil_resolve_name, for a name of the table that holds the flavor
cil_resolve_name(st, name, flavor) ==
    LET how == IF name[2] = st.odd[1] THEN st.odd[2] ELSE "plain"
        other == how = "other" /\ flavor \in DOMAIN OtherFlavor
        inner == how \in {"inner", "shadowed"} /\ st.optional
    IN  IF name = NULL THEN With(Fail(st), NULL)
        ELSE IF how = "missing" \/ (how = "inner" /\ ~st.optional) THEN With(Missing(st), NULL)
        ELSE Declared(st, name, IF other THEN OtherFlavor[flavor] ELSE flavor, IF inner THEN "inner" ELSE "outer",
                      how = "other")

\* a permission of a class, or of its common; its full name holds that of the class
FindPerm(st, class, name) ==
    LET own == st.odd # <<name[2], "missing">>
        common == Field(st, class, "common")
        of(c) == Declared(st, Name(Field(st, c, "datum")[2] \o "." \o name[2]),
                          IF st.h[c].kind = "MAP_CLASS" THEN "MAP_PERM" ELSE "PERM", st.h[c].holder, FALSE)
    IN  IF own \/ common # NULL THEN of(IF own THEN class ELSE common[2]) ELSE With(Missing(st), NULL)

-----------------------------------------------------------------------------
(* Expressions and class permissions.                                        *)

\* cil_type_used: an attribute that is not to be expanded is not expanded, whatever else is said
cil_type_used(st, v, used) ==
    LET all == Field(st, v[2], "used")[2] \union {used}
    IN  IF st.h[v[2]].kind # "TYPEATTRIBUTE" THEN st
        ELSE Put(st, v[2], "used",
                 <<"flags", IF {"EXPAND_TRUE", "EXPAND_FALSE"} \subseteq all THEN all \ {"EXPAND_TRUE"} ELSE all>>)

\* the flavor of the names in an operand of a constraint
OperandFlavor(items, flavor) ==
    LET left == IF Len(items) = 3 THEN items[2] ELSE NULL
        side(k) == {Val(k \o n) : n \in {"1", "2", "3"}}
    IN  CASE left \in side("t") -> "TYPE"
          [] left \in side("r") -> "ROLE"
          [] left \in side("u") -> "USER"
          [] OTHER -> flavor

\* a list of references for a list of names; where says how a name is found
RECURSIVE Translated(_, _, _)
Translated(st, list, where) ==
    LET items == Items(st, list)
        inside == IF where.constraint THEN [where EXCEPT !.flavor = OperandFlavor(items, @)] ELSE where
        used(datum) ==
            IF ~datum.st.ok THEN datum
            ELSE IF datum.st.h[datum.v[2]].kind = "CATSET" /\ items[1] = Val("range") THEN With(Fail(datum.st), NULL)
            ELSE IF inside.constraint /\ inside.flavor = "TYPE"
            THEN With(cil_type_used(datum.st, datum.v, "CONSTRAINT"), datum.v) ELSE datum
        found(s, name) ==
            IF inside.flavor = "PERM" THEN FindPerm(s, inside.class, name)
            ELSE used(cil_resolve_name(s, name, inside.flavor))
        done[n \in 0..Len(items)] ==
            IF n = 0 THEN With(st, <<>>)
            ELSE LET before == done[n - 1]
                     item == items[n]
                     and(next) == With(next.st, IF next.st.ok THEN Append(before.v, next.v) ELSE before.v)
                 IN  IF ~before.st.ok THEN before
                     ELSE and(CASE item[1] = "name" -> found(before.st, item)
                                [] item[1] = "own" -> Translated(before.st, item, inside)
                                [] OTHER -> With(before.st, item))
        new(all) == IF all.st.ok THEN ListOf(all.st, all.v) ELSE With(DestroyItems(all.st, all.v, FALSE), NULL)
    IN  new(done[Len(items)])
cil_resolve_expr(st, str_expr, flavor, constraint) ==
    Translated(st, str_expr, [flavor |-> flavor, class |-> 0, constraint |-> constraint])
__cil_resolve_perms(st, class, perm_strs) ==
    Translated(st, perm_strs, [flavor |-> "PERM", class |-> class, constraint |-> FALSE])

\* an entry that has its class is resolved already
cil_resolve_classperms(st, cp) ==
    LET with(perms) == Put(perms.st, cp, "perms", perms.v)
        of(class) == IF ~class.st.ok THEN class.st
                     ELSE with(__cil_resolve_perms(Put(class.st, cp, "class", class.v), class.v[2], Field(st, cp, "perm_strs")))
    IN  IF Field(st, cp, "class") # NULL THEN st ELSE of(cil_resolve_name(st, Field(st, cp, "class_str"), "CLASS"))
cil_resolve_classperms_set(st, cp_set) ==
    LET with(set) == IF set.st.ok THEN Put(set.st, cp_set, "set", set.v) ELSE set.st
    IN  with(cil_resolve_name(st, Field(st, cp_set, "set_str"), "CLASSPERMISSION"))
cil_resolve_classperms_list(st, list) ==
    LET items == Items(st, list)
        done[n \in 0..Len(items)] ==
            IF n = 0 THEN st
            ELSE IF ~done[n - 1].ok THEN done[n - 1]
            ELSE IF st.h[items[n][2]].kind = "CLASSPERMS" THEN cil_resolve_classperms(done[n - 1], items[n][2])
            ELSE cil_resolve_classperms_set(done[n - 1], items[n][2])
    IN  done[Len(items)]

-----------------------------------------------------------------------------
(* The steps of a cil_resolve_*.                                             *)

\* f = the datum of f_str, of any flavor of the table or of the one given
Find(f, flavor) == [do |-> "find", f |-> f, flavor |-> flavor, only |-> {}]
FindOnly(f, flavor) == [do |-> "find", f |-> f, flavor |-> flavor, only |-> {flavor}]
\* only when it is not known
FindUnset(f, flavor) == [do |-> "unset", f |-> f, flavor |-> flavor, only |-> {}]
\* a keyword that stands for a type, or a type
Target(f, keys) == [do |-> "target", f |-> f, flavor |-> "TYPE", only |-> {}, keys |-> keys]
\* f_str must name a datum, which is not stored; CannotBe: not of that flavor
MustFind(f, flavor) == [do |-> "must", f |-> f, flavor |-> flavor, cannot |-> {}]
MustBe(f, flavor) == [do |-> "must", f |-> f, flavor |-> flavor, cannot |-> {OtherFlavor[flavor]}]
\* the named object, or the one in the statement, if any, resolved in place
FindOrFill(f, flavor) == [do |-> "anon", f |-> f, flavor |-> flavor, only |-> {}]
InPart(f) == [do |-> "part", f |-> f, flavor |-> "CATS"]
Names(f, g, flavor) == [do |-> "expr", f |-> f, g |-> g, flavor |-> flavor, constraint |-> FALSE]
Constraint == [do |-> "expr", f |-> "str_expr", g |-> "datum_expr", flavor |-> "NONE", constraint |-> TRUE]
Entries(f) == [do |-> "classperms", f |-> f]
\* names of one flavor, in a new list that is kept when one cannot be found, each datum marked with the flags
Each(f, g, flavor, only, flags) ==
    [do |-> "each", f |-> f, g |-> g, flavor |-> flavor, only |-> only, flags |-> flags, keep |-> TRUE, must |-> FALSE]
\* the list of an order is dropped; a class that is missing is an error, also in an optional
Order(flavor) ==
    [do |-> "each", f |-> "strs", g |-> "datums", flavor |-> flavor, only |-> {flavor}, flags |-> {}, keep |-> FALSE,
     must |-> flavor = "CLASS"]
\* what is done to the datum that f_str names
Effect(f, flavor, what) == [do |-> "effect", f |-> f, flavor |-> flavor, what |-> what]
AppendsTo(g, from) == [how |-> "append", g |-> g, from |-> from]
AppendsAll(g, from) == [how |-> "appendall", g |-> g, from |-> from]
Sets(g, from) == [how |-> "set", g |-> g, from |-> from]
\* it may not have a value yet
SetsOnce(g, from) == [how |-> "once", g |-> g, from |-> from]
Marks(flag) == [how |-> "mark", flag |-> flag]

-----------------------------------------------------------------------------
cil_resolve_permissionx == <<Find("obj", "CLASS")>>
cil_resolve_cats == <<Names("str_expr", "datum_expr", "CAT")>>
cil_resolve_level == <<[do |-> "stopif", f |-> "sens"], Find("sens", "SENS"), InPart("cats")>>
cil_resolve_levelrange == <<FindOrFill("low", "LEVEL"), FindOrFill("high", "LEVEL")>>
cil_resolve_context ==
    <<FindOnly("user", "USER"), FindOnly("role", "ROLE"), FindOnly("type", "TYPE"), FindOrFill("range", "LEVELRANGE")>>

Selves == {"self", "notself", "other"}
\* the attributes of a rule on self are not marked
cil_resolve_avrule(rule) ==
    LET used == IF rule["rule_kind"] = Val("neverallow") THEN "NEVERALLOW" ELSE "AVRULE"
    IN  <<Find("src", "TYPE"), Target("tgt", Selves)>>
            \o (IF rule["tgt_str"][2] \in Selves THEN <<>>
                ELSE <<Effect("src", "TYPE", Marks(used)), Effect("tgt", "TYPE", Marks(used))>>)
            \o IF rule["is_extended"] = Val("0") THEN <<Entries("classperms")>> ELSE <<FindOrFill("permx", "PERMISSIONX")>>
cil_resolve_deny_rule == <<Find("src", "TYPE"), Target("tgt", Selves), Entries("classperms")>>
cil_resolve_type_rule == <<Find("src", "TYPE"), Target("tgt", {"self"}), Find("obj", "CLASS"), FindOnly("result", "TYPE")>>
cil_resolve_typeattributeset ==
    <<MustBe("attr", "TYPEATTRIBUTE"), Names("str_expr", "datum_expr", "TYPE"),
      Effect("attr", "TYPEATTRIBUTE", AppendsTo("expr_list", "datum_expr"))>>
cil_resolve_expandtypeattribute(expand) ==
    <<Each("attr_strs", "attr_datums", "TYPEATTRIBUTE", {"TYPEATTRIBUTE"}, {IF expand THEN "EXPAND_TRUE" ELSE "EXPAND_FALSE"})>>
cil_resolve_typepermissive == <<FindOnly("type", "TYPE")>>
cil_resolve_nametypetransition ==
    <<Find("src", "TYPE"), Target("tgt", {"self"}), Find("obj", "CLASS"), FindUnset("name", "STRING"),
      FindOnly("result", "TYPE")>>
cil_resolve_rangetransition ==
    <<Find("src", "TYPE"), Find("exec", "TYPE"), Find("obj", "CLASS"), FindOrFill("range", "LEVELRANGE")>>
cil_resolve_classpermissionset ==
    <<MustFind("set", "CLASSPERMISSION"), Entries("classperms"), Find("set", "CLASSPERMISSION"),
      Effect("set", "CLASSPERMISSION", AppendsAll("classperms", "classperms"))>>
cil_resolve_classmapping == <<Find("map_class", "MAP_CLASS"), [do |-> "mapperm"], Entries("classperms"), [do |-> "mapped"]>>
\* the permissions of the class come after those of the common
cil_resolve_classcommon ==
    <<MustBe("class", "CLASS"), MustFind("common", "COMMON"), Effect("class", "CLASS", SetsOnce("common", "common_str")),
      Find("class", "CLASS"), Find("common", "COMMON"), [do |-> "common"]>>
cil_resolve_userrole == <<Find("user", "USER"), Find("role", "ROLE")>>
cil_resolve_userlevel ==
    <<FindOnly("user", "USER"), FindOrFill("level", "LEVEL"), Effect("user", "USER", Sets("dftlevel", "level"))>>
cil_resolve_userrange ==
    <<FindOnly("user", "USER"), FindOrFill("range", "LEVELRANGE"), Effect("user", "USER", Sets("range", "range"))>>
cil_resolve_userprefix == <<FindOnly("user", "USER")>>
cil_resolve_selinuxuser == <<FindOnly("user", "USER"), FindOrFill("range", "LEVELRANGE")>>
cil_resolve_userattributeset ==
    <<FindOnly("attr", "USERATTRIBUTE"), Names("str_expr", "datum_expr", "USER"),
      Effect("attr", "USERATTRIBUTE", AppendsTo("expr_list", "datum_expr"))>>
cil_resolve_roletype == <<Find("role", "ROLE"), Find("type", "TYPE")>>
cil_resolve_roletransition == <<Find("src", "ROLE"), Find("tgt", "TYPE"), Find("obj", "CLASS"), FindOnly("result", "ROLE")>>
cil_resolve_roleallow == <<Find("src", "ROLE"), Find("tgt", "ROLE")>>
cil_resolve_roleattributeset ==
    <<MustBe("attr", "ROLEATTRIBUTE"), Names("str_expr", "datum_expr", "ROLE"),
      Effect("attr", "ROLEATTRIBUTE", AppendsTo("expr_list", "datum_expr"))>>
\* neither may be an attribute; the statement keeps no reference
cil_resolve_bounds(flavor) ==
    <<MustBe("parent", flavor), MustBe("child", flavor), Effect("child", flavor, SetsOnce("bounds", "parent_str"))>>
cil_resolve_sidorder == <<Order("SID")>>
cil_resolve_classorder == <<Order("CLASS")>>
cil_resolve_catorder == <<Order("CAT")>>
cil_resolve_sensitivityorder == <<Order("SENS")>>
cil_resolve_catset == <<InPart("cats")>>
cil_resolve_senscat ==
    <<MustFind("sens", "SENS"), InPart("cats"), Effect("sens", "SENS", AppendsTo("cats_list", "cats"))>>
cil_resolve_constrain == <<Entries("classperms"), Constraint>>
cil_resolve_validatetrans == <<Find("class", "CLASS"), Constraint>>
cil_resolve_filecon == <<FindUnset("path", "STRING"), FindOrFill("context", "CONTEXT")>>
cil_resolve_ibpkeycon == <<FindOrFill("context", "CONTEXT")>>
cil_resolve_portcon == <<FindOrFill("context", "CONTEXT")>>
cil_resolve_genfscon == <<FindOrFill("context", "CONTEXT")>>
\* an address and a mask of different families are refused
cil_resolve_nodecon ==
    <<FindOrFill("addr", "IPADDR"), FindOrFill("mask", "IPADDR"), FindOrFill("context", "CONTEXT"), [do |-> "families"]>>
cil_resolve_netifcon == <<FindOrFill("if_context", "CONTEXT"), FindOrFill("packet_context", "CONTEXT")>>
cil_resolve_ibendportcon == <<FindOrFill("context", "CONTEXT")>>
cil_resolve_pirqcon == <<FindOrFill("context", "CONTEXT")>>
cil_resolve_iomemcon == <<FindOrFill("context", "CONTEXT")>>
cil_resolve_ioportcon == <<FindOrFill("context", "CONTEXT")>>
cil_resolve_pcidevicecon == <<FindOrFill("context", "CONTEXT")>>
cil_resolve_devicetreecon == <<FindOrFill("context", "CONTEXT")>>
cil_resolve_fsuse == <<FindOrFill("context", "CONTEXT")>>
cil_resolve_sidcontext ==
    <<Find("sid", "SID"), FindOrFill("context", "CONTEXT"), Effect("sid", "SID", SetsOnce("context", "context"))>>
cil_resolve_default == <<Each("class_strs", "class_datums", "CLASS", {}, {})>>
cil_resolve_defaultrange == <<Each("class_strs", "class_datums", "CLASS", {}, {})>>
cil_resolve_boolif == <<Names("str_expr", "datum_expr", "BOOL")>>

\* __cil_resolve_ast_node: the function of every flavor in the passes from MISC1 on, nothing for the others
resolve_func ==
            [SIDORDER |-> cil_resolve_sidorder, CLASSORDER |-> cil_resolve_classorder, CATORDER |-> cil_resolve_catorder,
             SENSITIVITYORDER |-> cil_resolve_sensitivityorder, BOOLEANIF |-> cil_resolve_boolif,
             CATSET |-> cil_resolve_catset, SENSCAT |-> cil_resolve_senscat, CLASSCOMMON |-> cil_resolve_classcommon,
             TYPEATTRIBUTESET |-> cil_resolve_typeattributeset, TYPEBOUNDS |-> cil_resolve_bounds("TYPE"),
             TYPEPERMISSIVE |-> cil_resolve_typepermissive, NAMETYPETRANSITION |-> cil_resolve_nametypetransition,
             RANGETRANSITION |-> cil_resolve_rangetransition, CLASSPERMISSIONSET |-> cil_resolve_classpermissionset,
             CLASSMAPPING |-> cil_resolve_classmapping, PERMISSIONX |-> cil_resolve_permissionx,
             DENY_RULE |-> cil_resolve_deny_rule, TYPE_RULE |-> cil_resolve_type_rule, USERROLE |-> cil_resolve_userrole,
             USERLEVEL |-> cil_resolve_userlevel, USERRANGE |-> cil_resolve_userrange,
             USERBOUNDS |-> cil_resolve_bounds("USER"), USERPREFIX |-> cil_resolve_userprefix,
             SELINUXUSER |-> cil_resolve_selinuxuser, SELINUXUSERDEFAULT |-> cil_resolve_selinuxuser,
             ROLEATTRIBUTESET |-> cil_resolve_roleattributeset, ROLETYPE |-> cil_resolve_roletype,
             ROLETRANSITION |-> cil_resolve_roletransition, ROLEALLOW |-> cil_resolve_roleallow,
             ROLEBOUNDS |-> cil_resolve_bounds("ROLE"), LEVEL |-> cil_resolve_level, LEVELRANGE |-> cil_resolve_levelrange,
             CONSTRAIN |-> cil_resolve_constrain, MLSCONSTRAIN |-> cil_resolve_constrain,
             VALIDATETRANS |-> cil_resolve_validatetrans, MLSVALIDATETRANS |-> cil_resolve_validatetrans,
             CONTEXT |-> cil_resolve_context, FILECON |-> cil_resolve_filecon, IBPKEYCON |-> cil_resolve_ibpkeycon,
             PORTCON |-> cil_resolve_portcon, NODECON |-> cil_resolve_nodecon, GENFSCON |-> cil_resolve_genfscon,
             NETIFCON |-> cil_resolve_netifcon, IBENDPORTCON |-> cil_resolve_ibendportcon, PIRQCON |-> cil_resolve_pirqcon,
             IOMEMCON |-> cil_resolve_iomemcon, IOPORTCON |-> cil_resolve_ioportcon,
             PCIDEVICECON |-> cil_resolve_pcidevicecon, DEVICETREECON |-> cil_resolve_devicetreecon,
             FSUSE |-> cil_resolve_fsuse, SIDCONTEXT |-> cil_resolve_sidcontext, DEFAULTUSER |-> cil_resolve_default,
             DEFAULTROLE |-> cil_resolve_default, DEFAULTTYPE |-> cil_resolve_default,
             DEFAULTRANGE |-> cil_resolve_defaultrange, USERATTRIBUTESET |-> cil_resolve_userattributeset]
__cil_resolve_ast_node(kind, f) ==
    LET from(functions) == IF kind \in DOMAIN functions THEN functions[kind] ELSE <<>>
    IN  CASE kind \in {"AVRULE", "AVRULEX"} -> cil_resolve_avrule(f)
          [] kind = "EXPANDTYPEATTRIBUTE" -> cil_resolve_expandtypeattribute(f["expand"] = Val("true"))
          [] OTHER -> from(resolve_func)

-----------------------------------------------------------------------------
(* The interpreter of the descriptions.                                      *)

ResolveInPlace == [LEVEL |-> cil_resolve_level, LEVELRANGE |-> cil_resolve_levelrange, CONTEXT |-> cil_resolve_context,
                   PERMISSIONX |-> cil_resolve_permissionx, IPADDR |-> <<>>, CATS |-> cil_resolve_cats]

\* names of one flavor, one after the other
EachName(st, strs, step) ==
    LET items == SelectSeq(Items(st, strs), LAMBDA v : v # Name("unordered"))
        done[n \in 0..Len(items)] ==
            IF n = 0 THEN With(st, <<>>)
            ELSE LET before == done[n - 1]
                     marked(found) == IF step.flags = {} THEN found.st
                                      ELSE cil_type_used(found.st, found.v, CHOOSE flag \in step.flags : TRUE)
                     and(found) ==
                         IF ~found.st.ok THEN With(IF step.must THEN Fail(before.st) ELSE found.st, before.v)
                         ELSE IF step.only # {} /\ found.st.h[found.v[2]].kind \notin step.only
                         THEN With(Fail(found.st), before.v)
                         ELSE With(marked(found), Append(before.v, found.v))
                 IN  IF ~before.st.ok THEN before ELSE and(cil_resolve_name(before.st, items[n], step.flavor))
    IN  done[Len(items)]

\* a pointer to what is in the field of the statement, or the datum it names
Given(st, id, from) == <<"ref", Field(st, id, from)[2]>>
AppendEntries(st, datum, entries) ==
    LET all[n \in 0..Len(entries)] ==
            IF n = 0 THEN st ELSE AppendTo(all[n - 1], datum, "classperms", <<"ref", entries[n][2]>>)
    IN  all[Len(entries)]

DoEffect(st, id, datum, what) ==
    CASE what.how = "append" -> AppendTo(st, datum, what.g, Given(st, id, what.from))
      [] what.how = "appendall" -> AppendEntries(st, datum, Items(st, Field(st, id, what.from)))
      [] what.how = "mark" -> cil_type_used(st, Ref(datum), what.flag)
      [] what.how = "set" -> Put(st, datum, what.g, Given(st, id, what.from))
      [] what.how = "once" ->
             IF Field(st, datum, what.g) # NULL THEN Fail(st)
             ELSE IF Field(st, id, what.from)[1] = "name"
             THEN LET set(found) == Put(found.st, datum, what.g, found.v)
                  IN  set(cil_resolve_name(st, Field(st, id, what.from), IF what.g = "common" THEN "COMMON" ELSE st.h[datum].kind))
             ELSE Put(st, datum, what.g, Given(st, id, what.from))

RECURSIVE ResolveSteps(_, _, _), ResolveStep(_, _, _)
ResolveSteps(st, id, steps) ==
    IF steps = <<>> \/ ~st.ok \/ (Head(steps).do = "stopif" /\ Field(st, id, Head(steps).f) # NULL) THEN st
    ELSE ResolveSteps(ResolveStep(st, id, Head(steps)), id, Tail(steps))
ResolveStep(st, id, step) ==
    LET str(f) == Field(st, id, f \o "_str")
        \* what is done with the datum that was looked up
        uses(found, kind) ==
            CASE ~found.st.ok -> found.st
              [] step.do = "must" -> IF kind \in step.cannot THEN Fail(found.st) ELSE found.st
              [] step.do = "effect" -> DoEffect(found.st, id, found.v[2], step.what)
              [] OTHER -> IF step.only # {} /\ kind \notin step.only THEN Fail(found.st) ELSE Put(found.st, id, step.f, found.v)
        looked(found) == uses(found, IF found.st.ok THEN found.st.h[found.v[2]].kind ELSE "none")
        v == Field(st, id, step.f)
    IN  CASE step.do = "stopif" \/ (step.do = "unset" /\ v # NULL) -> st
          [] step.do = "target" /\ str(step.f)[2] \in step.keys -> Put(st, id, step.f, Val(str(step.f)[2]))
          [] step.do \in {"anon", "part"} /\ (step.do = "part" \/ str(step.f) = NULL) ->
                 IF v = NULL THEN st ELSE ResolveSteps(st, v[2], ResolveInPlace[step.flavor])
          [] step.do \in {"find", "unset", "target", "must", "effect", "anon"} ->
                 looked(cil_resolve_name(st, str(step.f), step.flavor))
          [] step.do = "expr" ->
                 LET set(expr) == Put(expr.st, id, step.g, expr.v)
                 IN  set(cil_resolve_expr(st, v, step.flavor, step.constraint))
          [] step.do = "classperms" -> cil_resolve_classperms_list(st, v)
          [] step.do = "each" ->
                 LET list(all) == Alloc(all.st, "LIST", "part", all.v)
                     set(all) == IF all.st.ok \/ step.keep THEN Put(list(all), id, step.g, Own(Last(all.st) + 1))
                                 ELSE Put(all.st, id, step.g, NULL)
                 IN  set(EachName(st, v, step))
          [] step.do = "mapperm" ->
                 LET set(perm) == IF perm.st.ok THEN Put(perm.st, id, "map_perm", perm.v) ELSE perm.st
                 IN  set(FindPerm(st, Field(st, id, "map_class")[2], Field(st, id, "map_perm_str")))
          [] step.do = "mapped" ->
                 AppendEntries(st, Field(st, id, "map_perm")[2], Items(st, Field(st, id, "classperms")))
          [] step.do = "common" ->
                 LET class == Field(st, id, "class")[2]
                     f == st.h[class].f
                     added == Field(st, Field(st, id, "common")[2], "num_perms")[2]
                     num_perms == f["num_perms"][2] + added
                     moved == [k \in DOMAIN f["perms"][2] |-> <<f["perms"][2][k][1], f["perms"][2][k][2] + added>>]
                     s1 == Put(Put(st, class, "perms", <<"perms", moved>>), class, "num_perms", Num(num_perms))
                 IN  IF num_perms > CIL_PERMS_PER_CLASS THEN Fail(s1) ELSE s1
          [] step.do = "families" ->
                 LET ip(f) == Field(st, Field(st, id, f)[2], "ip")
                 IN  IF ip("addr") # ip("mask") THEN Fail(st) ELSE st

\* one statement in its pass
Resolve(st, id) == ResolveSteps(st, id, __cil_resolve_ast_node(st.h[id].kind, st.h[id].f))
==============================================================================
