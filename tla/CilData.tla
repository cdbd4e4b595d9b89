------------------------------- MODULE CilData -------------------------------
(* The data of a CIL statement as the compiler keeps it in memory.           *)
(*                                                                           *)
(* A heap is a sequence of objects; an object has a flavor, its fields, and  *)
(* says what holds it: the tree ("stmt"), a declaration of the surrounding   *)
(* policy ("inner", inside the optional, or "outer"), or the field or list   *)
(* of another object ("part").  A pointer to an object that its holder must  *)
(* free is <<"own", id>>, any other pointer to a declared datum is           *)
(* <<"ref", id>>.  Lists are objects whose fields are the numbers 1..n.      *)
(*                                                                           *)
(* Every cil_*_init is the table of its initial fields and every             *)
(* cil_destroy_* the sequence of the things it frees before the object.      *)
EXTENDS Integers, Sequences, FiniteSets, TLC

NULL == <<"null">>
Name(n) == <<"name", n>>
Val(v) == <<"val", v>>
Num(n) == <<"num", n>>
Own(id) == <<"own", id>>
Ref(id) == <<"ref", id>>

Nulls(fields) == [f \in fields |-> NULL]
\* cil_symtab_datum_init: the name of a declared datum, NULL when anonymous
Datum(fields) == Nulls(fields \union {"datum"})
No == Val("false")

-----------------------------------------------------------------------------
(* cil.c: initial fields of every object.                                    *)

cil_ordered_init == ("merged" :> No) @@ Nulls({"strs", "datums"})
cil_netifcon_init == Nulls({"interface_str", "if_context_str", "if_context", "packet_context_str", "packet_context"})
cil_ibendportcon_init == ("port" :> Val("0")) @@ Nulls({"dev_name_str", "context_str", "context"})
cil_context_init == Datum({"user_str", "user", "role_str", "role", "type_str", "type", "range_str", "range"})
cil_level_init == Datum({"sens_str", "sens", "cats"})
cil_levelrange_init == Datum({"low_str", "low", "high_str", "high"})
cil_sens_init == ("ordered" :> No) @@ Datum({"cats_list"})
cil_block_init == ("is_abstract" :> No) @@ Datum({"bi_nodes"})
cil_blockinherit_init == Nulls({"block_str", "block"})
cil_blockabstract_init == Nulls({"block_str", "block"})
cil_in_init == ("is_after" :> No) @@ Nulls({"block_str", "block"})
cil_class_init == ("num_perms" :> Num(0)) @@ ("perms" :> <<"perms", <<>>>>) @@ ("ordered" :> No) @@ Datum({"common"})
cil_classcommon_init == Nulls({"class_str", "class", "common_str", "common"})
cil_sid_init == ("ordered" :> No) @@ Datum({"context"})
cil_sidcontext_init == Nulls({"sid_str", "sid", "context_str", "context"})
cil_userrole_init == Nulls({"user_str", "user", "role_str", "role"})
cil_userprefix_init == Nulls({"user_str", "user", "prefix_str"})
cil_selinuxuser_init == Nulls({"name_str", "user_str", "user", "range_str", "range"})
cil_roletype_init == Nulls({"role_str", "role", "type_str", "type"})
cil_roleattribute_init == Datum({"expr_list", "roles"})
cil_roleattributeset_init == Nulls({"attr_str", "attr", "str_expr", "datum_expr"})
NoFlags == <<"flags", {}>>
cil_typeattribute_init == ("used" :> NoFlags) @@ ("keep" :> No) @@ Datum({"expr_list", "types"})
cil_typeattributeset_init == Nulls({"attr_str", "attr", "str_expr", "datum_expr"})
cil_expandtypeattribute_init == ("expand" :> Val("0")) @@ Nulls({"attr_strs", "attr_datums"})
cil_alias_init == Datum({"actual"})
cil_aliasactual_init == Nulls({"alias_str", "alias", "actual_str", "actual"})
cil_typepermissive_init == Nulls({"type_str", "type"})
cil_nametypetransition_init ==
    Nulls({"src_str", "src", "tgt_str", "tgt", "obj_str", "obj", "name_str", "name", "result_str", "result"})
cil_rangetransition_init == Nulls({"src_str", "src", "exec_str", "exec", "obj_str", "obj", "range_str", "range"})
cil_bool_init == ("value" :> Val("0")) @@ Datum({})
cil_tunable_init == ("value" :> Val("0")) @@ Datum({})
cil_condblock_init == Nulls({"flavor"})
cil_boolif_init == Nulls({"str_expr", "datum_expr", "preserved_tunable"})
cil_tunif_init == Nulls({"str_expr", "datum_expr"})
cil_avrule_init ==
    ("is_extended" :> Val("0"))
        @@ Nulls({"rule_kind", "src_str", "src", "tgt_str", "tgt", "classperms", "permx_str", "permx"})
cil_permissionx_init == Datum({"kind", "obj_str", "obj", "expr_str", "perms"})
cil_deny_rule_init == Nulls({"src_str", "src", "tgt_str", "tgt", "classperms"})
cil_type_rule_init == Nulls({"rule_kind", "src_str", "src", "tgt_str", "tgt", "obj_str", "obj", "result_str", "result"})
cil_roletransition_init == Nulls({"src_str", "src", "tgt_str", "tgt", "obj_str", "obj", "result_str", "result"})
cil_roleallow_init == Nulls({"src_str", "src", "tgt_str", "tgt"})
cil_catset_init == Datum({"cats"})
cil_senscat_init == Nulls({"sens_str", "sens", "cats"})
cil_cats_init == ("evaluated" :> No) @@ Nulls({"str_expr", "datum_expr"})
cil_filecon_init == ("type" :> Val("any")) @@ Nulls({"path_str", "path", "context_str", "context"})
cil_ibpkeycon_init ==
    ("pkey_low" :> Val("0")) @@ ("pkey_high" :> Val("0")) @@ Nulls({"subnet_prefix_str", "context_str", "context"})
cil_portcon_init ==
    ("proto" :> Val("0")) @@ ("port_low" :> Val("0")) @@ ("port_high" :> Val("0")) @@ Nulls({"context_str", "context"})
cil_nodecon_init == Nulls({"addr_str", "addr", "mask_str", "mask", "context_str", "context"})
cil_genfscon_init == ("file_type" :> Val("any")) @@ Nulls({"fs_str", "path_str", "context_str", "context"})
cil_pirqcon_init == ("pirq" :> Val("0")) @@ Nulls({"context_str", "context"})
cil_iomemcon_init == ("iomem_low" :> Val("0")) @@ ("iomem_high" :> Val("0")) @@ Nulls({"context_str", "context"})
cil_ioportcon_init == ("ioport_low" :> Val("0")) @@ ("ioport_high" :> Val("0")) @@ Nulls({"context_str", "context"})
cil_pcidevicecon_init == ("dev" :> Val("0")) @@ Nulls({"context_str", "context"})
cil_devicetreecon_init == Nulls({"path", "context_str", "context"})
cil_fsuse_init == ("type" :> Val("0")) @@ Nulls({"fs_str", "context_str", "context"})
cil_constrain_init == Nulls({"classperms", "str_expr", "datum_expr"})
cil_validatetrans_init == Nulls({"class_str", "class", "str_expr", "datum_expr"})
cil_ipaddr_init == ("ip" :> Val("0")) @@ Datum({})
cil_perm_init == ("value" :> Num(0)) @@ Datum({"classperms"})
cil_classpermission_init == Datum({"classperms"})
cil_classpermissionset_init == Nulls({"set_str", "set", "classperms"})
cil_classperms_set_init == Nulls({"set_str", "set"})
cil_classperms_init == Nulls({"class_str", "class", "perm_strs", "perms"})
cil_classmapping_init == Nulls({"map_class_str", "map_class", "map_perm_str", "map_perm", "classperms"})
cil_user_init == ("value" :> Val("0")) @@ Datum({"bounds", "roles", "dftlevel", "range"})
cil_userattribute_init == Datum({"expr_list", "users"})
cil_userattributeset_init == Nulls({"attr_str", "attr", "str_expr", "datum_expr"})
cil_userlevel_init == Nulls({"user_str", "user", "level_str", "level"})
cil_userrange_init == Nulls({"user_str", "user", "range_str", "range"})
cil_role_init == ("value" :> Val("0")) @@ Datum({"bounds", "types"})
cil_type_init == ("value" :> Val("0")) @@ Datum({"bounds"})
cil_cat_init == ("value" :> Val("0")) @@ ("ordered" :> No) @@ Datum({})
cil_call_init == ("copied" :> Val("0")) @@ Nulls({"macro_str", "macro", "args_tree", "args"})
cil_optional_init == Datum({})
cil_param_init == Nulls({"str", "flavor"})
cil_macro_init == Datum({"params"})
cil_policycap_init == Datum({})
cil_bounds_init == Nulls({"parent_str", "parent", "child_str", "child"})
cil_default_init == Nulls({"flavor", "class_strs", "class_datums", "object"})
cil_defaultrange_init == Nulls({"class_strs", "class_datums", "object_range"})
cil_handleunknown_init == Nulls({"handle_unknown"})
cil_mls_init == "value" :> Val("0")
cil_src_info_init == ("hll_line" :> Val("0")) @@ Nulls({"kind", "path"})

-----------------------------------------------------------------------------
(* The heap.                                                                 *)

\* ok and missing stand for the return code: SEPOL_OK, SEPOL_ENOENT (not ok and missing), SEPOL_ERR;
\* the declarations around a statement are described by odd and optional, see CilResolveStmt
Empty == [h |-> <<>>, ok |-> TRUE, missing |-> FALSE, faults |-> {}, odd |-> <<"", "plain">>, optional |-> FALSE]
Alloc(st, kind, holder, f) ==
    [st EXCEPT !.h = Append(@, [kind |-> kind, live |-> TRUE, holder |-> holder, f |-> f])]
Last(st) == Len(st.h)
Field(st, id, f) == st.h[id].f[f]
Put(st, id, f, v) == [st EXCEPT !.h[id].f[f] = v]
Fail(st) == [st EXCEPT !.ok = FALSE]
Missing(st) == [st EXCEPT !.ok = FALSE, !.missing = TRUE]
Free(st, id) ==
    IF st.h[id].live
    THEN [st EXCEPT !.h[id].live = FALSE]
    ELSE [st EXCEPT !.faults = @ \union {"freed twice"}]
IsPointer(v) == v[1] \in {"own", "ref"}
IsList(st, v) == IsPointer(v) /\ st.h[v[2]].kind = "LIST"
\* the items of a list field, none when it is NULL
Items(st, v) == IF v = NULL THEN <<>> ELSE st.h[v[2]].f
\* a list field after v was appended, the list being created when there is none
AppendTo(st, id, f, v) ==
    IF Field(st, id, f) = NULL
    THEN LET s1 == Alloc(st, "LIST", "part", <<v>>) IN Put(s1, id, f, Own(Last(s1)))
    ELSE [st EXCEPT !.h[Field(st, id, f)[2]].f = Append(@, v)]

-----------------------------------------------------------------------------
(* cil_build_ast.c: what each cil_destroy_* frees before the object itself.  *)
(* cil_symtab_datum_destroy takes a datum out of its table: lookups see live *)
(* objects only.                                                             *)

\* cil_list_destroy(f, CIL_FALSE) and cil_list_destroy(f, CIL_TRUE)
FreeList(f) == <<"list", f>>
FreeDeep(f) == <<"deep", f>>
\* the cells of the list, by hand
FreeItems(f) == <<"items", f>>
\* the object, when the statement did not name one
FreeAnon(f) == <<"anon", f>>
FreePart(f) == <<"part", f>>
FreeClassperms(f) == <<"classperms", f>>
IfNamed(step, other) == <<"named", step, other>>

cil_destroy_ordered == <<FreeList("strs"), FreeList("datums")>>
cil_destroy_block == <<FreeList("bi_nodes")>>
cil_destroy_blockinherit == <<>>
cil_destroy_blockabstract == <<>>
cil_destroy_in == <<>>
cil_destroy_class == <<>>
cil_destroy_perm == <<FreeList("classperms")>>
cil_destroy_classperms == <<FreeDeep("perm_strs"), FreeList("perms")>>
cil_destroy_classperms_set == <<>>
\* a named set only refers to entries that belong to classpermissionset statements
cil_destroy_classpermission == <<IfNamed(FreeList("classperms"), FreeClassperms("classperms"))>>
cil_destroy_classpermissionset == <<FreeClassperms("classperms")>>
cil_destroy_classmapping == <<FreeClassperms("classperms")>>
cil_destroy_classcommon == <<>>
cil_destroy_sid == <<>>
cil_destroy_sidcontext == <<FreeAnon("context")>>
cil_destroy_user == <<>>
cil_destroy_userattribute == <<FreeItems("expr_list")>>
cil_destroy_userattributeset == <<FreeDeep("str_expr"), FreeList("datum_expr")>>
cil_destroy_userlevel == <<FreeAnon("level")>>
cil_destroy_userrange == <<FreeAnon("range")>>
cil_destroy_userprefix == <<>>
cil_destroy_selinuxuser == <<FreeAnon("range")>>
cil_destroy_role == <<>>
cil_destroy_roletype == <<>>
cil_destroy_userrole == <<>>
cil_destroy_roletransition == <<>>
cil_destroy_roleallow == <<>>
cil_destroy_roleattribute == <<FreeItems("expr_list")>>
cil_destroy_roleattributeset == <<FreeDeep("str_expr"), FreeList("datum_expr")>>
cil_destroy_avrule(is_extended) == IF is_extended THEN <<FreeAnon("permx")>> ELSE <<FreeClassperms("classperms")>>
cil_destroy_permissionx == <<FreeDeep("expr_str")>>
cil_destroy_deny_rule == <<FreeClassperms("classperms")>>
cil_destroy_type_rule == <<>>
cil_destroy_type == <<>>
cil_destroy_typeattribute == <<FreeItems("expr_list")>>
cil_destroy_bool == <<>>
cil_destroy_tunable == <<>>
cil_destroy_boolif == <<FreeDeep("str_expr"), FreeList("datum_expr")>>
cil_destroy_tunif == <<FreeDeep("str_expr"), FreeList("datum_expr")>>
cil_destroy_condblock == <<>>
cil_destroy_alias == <<>>
cil_destroy_aliasactual == <<>>
cil_destroy_typeattributeset == <<FreeDeep("str_expr"), FreeList("datum_expr")>>
cil_destroy_expandtypeattribute == <<FreeDeep("attr_strs"), FreeList("attr_datums")>>
cil_destroy_typepermissive == <<>>
cil_destroy_typetransition == <<>>
cil_destroy_rangetransition == <<FreeAnon("range")>>
cil_destroy_sensitivity == <<FreeList("cats_list")>>
cil_destroy_category == <<>>
cil_destroy_catset == <<FreePart("cats")>>
cil_destroy_senscat == <<FreePart("cats")>>
cil_destroy_level == <<FreePart("cats")>>
cil_destroy_levelrange == <<FreeAnon("low"), FreeAnon("high")>>
cil_destroy_constrain == <<FreeClassperms("classperms"), FreeDeep("str_expr"), FreeList("datum_expr")>>
cil_destroy_validatetrans == <<FreeDeep("str_expr"), FreeList("datum_expr")>>
cil_destroy_context == <<FreeAnon("range")>>
cil_destroy_filecon == <<FreeAnon("context")>>
cil_destroy_ibpkeycon == <<FreeAnon("context")>>
cil_destroy_portcon == <<FreeAnon("context")>>
cil_destroy_nodecon == <<FreeAnon("addr"), FreeAnon("mask"), FreeAnon("context")>>
cil_destroy_genfscon == <<FreeAnon("context")>>
cil_destroy_netifcon == <<FreeAnon("if_context"), FreeAnon("packet_context")>>
cil_destroy_ibendportcon == <<FreeAnon("context")>>
cil_destroy_pirqcon == <<FreeAnon("context")>>
cil_destroy_iomemcon == <<FreeAnon("context")>>
cil_destroy_ioportcon == <<FreeAnon("context")>>
cil_destroy_pcidevicecon == <<FreeAnon("context")>>
cil_destroy_devicetreecon == <<FreeAnon("context")>>
cil_destroy_fsuse == <<FreeAnon("context")>>
cil_destroy_param == <<>>
cil_destroy_macro == <<FreeDeep("params")>>
cil_destroy_call == <<FreePart("args_tree")>>
cil_destroy_optional == <<>>
cil_destroy_policycap == <<>>
cil_destroy_ipaddr == <<>>
cil_destroy_cats == <<FreeDeep("str_expr"), FreeList("datum_expr")>>
cil_destroy_bounds == <<>>
cil_destroy_default == <<FreeDeep("class_strs"), FreeList("class_datums")>>
cil_destroy_defaultrange == <<FreeDeep("class_strs"), FreeList("class_datums")>>
cil_destroy_handleunknown == <<>>
cil_destroy_mls == <<>>
cil_destroy_src_info == <<>>

\* cil_destroy_data: the function of every flavor
cil_destroy_data == ("IN" :> cil_destroy_in) @@
    [PARAM |-> cil_destroy_param, BLOCK |-> cil_destroy_block, BLOCKINHERIT |-> cil_destroy_blockinherit,
     BLOCKABSTRACT |-> cil_destroy_blockabstract, MACRO |-> cil_destroy_macro,
     CALL |-> cil_destroy_call, OPTIONAL |-> cil_destroy_optional, BOOL |-> cil_destroy_bool,
     BOOLEANIF |-> cil_destroy_boolif, TUNABLE |-> cil_destroy_tunable, TUNABLEIF |-> cil_destroy_tunif,
     CONDBLOCK |-> cil_destroy_condblock, PERM |-> cil_destroy_perm, MAP_PERM |-> cil_destroy_perm,
     COMMON |-> cil_destroy_class, CLASS |-> cil_destroy_class, MAP_CLASS |-> cil_destroy_class,
     CLASSORDER |-> cil_destroy_ordered, CLASSPERMISSION |-> cil_destroy_classpermission,
     CLASSCOMMON |-> cil_destroy_classcommon, CLASSMAPPING |-> cil_destroy_classmapping,
     CLASSPERMS |-> cil_destroy_classperms, CLASSPERMS_SET |-> cil_destroy_classperms_set,
     CLASSPERMISSIONSET |-> cil_destroy_classpermissionset, USER |-> cil_destroy_user,
     USERATTRIBUTE |-> cil_destroy_userattribute, USERATTRIBUTESET |-> cil_destroy_userattributeset,
     USERPREFIX |-> cil_destroy_userprefix, USERROLE |-> cil_destroy_userrole, USERLEVEL |-> cil_destroy_userlevel,
     USERRANGE |-> cil_destroy_userrange, USERBOUNDS |-> cil_destroy_bounds, SELINUXUSER |-> cil_destroy_selinuxuser,
     SELINUXUSERDEFAULT |-> cil_destroy_selinuxuser, ROLE |-> cil_destroy_role,
     ROLEATTRIBUTE |-> cil_destroy_roleattribute, ROLEATTRIBUTESET |-> cil_destroy_roleattributeset,
     ROLETYPE |-> cil_destroy_roletype, ROLEBOUNDS |-> cil_destroy_bounds, TYPE |-> cil_destroy_type,
     TYPEATTRIBUTE |-> cil_destroy_typeattribute, TYPEALIAS |-> cil_destroy_alias,
     TYPEATTRIBUTESET |-> cil_destroy_typeattributeset, EXPANDTYPEATTRIBUTE |-> cil_destroy_expandtypeattribute,
     TYPEALIASACTUAL |-> cil_destroy_aliasactual, TYPEBOUNDS |-> cil_destroy_bounds,
     TYPEPERMISSIVE |-> cil_destroy_typepermissive, SENS |-> cil_destroy_sensitivity,
     SENSALIAS |-> cil_destroy_alias, SENSALIASACTUAL |-> cil_destroy_aliasactual,
     SENSITIVITYORDER |-> cil_destroy_ordered, SENSCAT |-> cil_destroy_senscat, CAT |-> cil_destroy_category,
     CATSET |-> cil_destroy_catset, CATALIAS |-> cil_destroy_alias, CATALIASACTUAL |-> cil_destroy_aliasactual,
     CATORDER |-> cil_destroy_ordered, LEVEL |-> cil_destroy_level, LEVELRANGE |-> cil_destroy_levelrange,
     SID |-> cil_destroy_sid, SIDORDER |-> cil_destroy_ordered, ROLEALLOW |-> cil_destroy_roleallow,
     AVRULE |-> cil_destroy_avrule(FALSE), AVRULEX |-> cil_destroy_avrule(TRUE),
     PERMISSIONX |-> cil_destroy_permissionx, DENY_RULE |-> cil_destroy_deny_rule,
     ROLETRANSITION |-> cil_destroy_roletransition, TYPE_RULE |-> cil_destroy_type_rule,
     NAMETYPETRANSITION |-> cil_destroy_typetransition, RANGETRANSITION |-> cil_destroy_rangetransition,
     CONSTRAIN |-> cil_destroy_constrain, MLSCONSTRAIN |-> cil_destroy_constrain,
     VALIDATETRANS |-> cil_destroy_validatetrans, MLSVALIDATETRANS |-> cil_destroy_validatetrans,
     CONTEXT |-> cil_destroy_context, IPADDR |-> cil_destroy_ipaddr, SIDCONTEXT |-> cil_destroy_sidcontext,
     FSUSE |-> cil_destroy_fsuse, FILECON |-> cil_destroy_filecon, IBPKEYCON |-> cil_destroy_ibpkeycon,
     PORTCON |-> cil_destroy_portcon, IBENDPORTCON |-> cil_destroy_ibendportcon, NODECON |-> cil_destroy_nodecon,
     GENFSCON |-> cil_destroy_genfscon, NETIFCON |-> cil_destroy_netifcon, PIRQCON |-> cil_destroy_pirqcon,
     IOMEMCON |-> cil_destroy_iomemcon, IOPORTCON |-> cil_destroy_ioportcon,
     PCIDEVICECON |-> cil_destroy_pcidevicecon, DEVICETREECON |-> cil_destroy_devicetreecon,
     POLICYCAP |-> cil_destroy_policycap, DEFAULTUSER |-> cil_destroy_default, DEFAULTROLE |-> cil_destroy_default,
     DEFAULTTYPE |-> cil_destroy_default, DEFAULTRANGE |-> cil_destroy_defaultrange,
     HANDLEUNKNOWN |-> cil_destroy_handleunknown, MLS |-> cil_destroy_mls, SRC_INFO |-> cil_destroy_src_info, CATS |-> cil_destroy_cats, TREE |-> <<>>]

RECURSIVE Destroy(_, _), DestroySteps(_, _, _), cil_list_destroy(_, _, _), DestroyItems(_, _, _), cil_destroy_classperms_list(_, _)

\* cil_list_destroy: sublists are destroyed with the list, other contents only when destroy_data
DestroyItems(st, items, destroy_data) ==
    LET without(v) == IF IsList(st, v)
                      THEN cil_list_destroy(st, v, destroy_data)
                      ELSE IF destroy_data /\ IsPointer(v) THEN Destroy(st, v[2]) ELSE st
    IN  IF items = <<>> THEN st ELSE DestroyItems(without(Head(items)), Tail(items), destroy_data)
cil_list_destroy(st, list, destroy_data) ==
    IF list = NULL THEN st ELSE Free(DestroyItems(st, Items(st, list), destroy_data), list[2])

\* cil_destroy_classperms_list: the entries and then the list
cil_destroy_classperms_list(st, list) ==
    IF list = NULL THEN st
    ELSE LET freed[n \in 0..Len(Items(st, list))] ==
                 IF n = 0 THEN st ELSE Destroy(freed[n - 1], Items(st, list)[n][2])
         IN  Free(freed[Len(Items(st, list))], list[2])

DestroySteps(st, id, steps) ==
    LET named == "datum" \in DOMAIN st.h[id].f /\ Field(st, id, "datum") # NULL
        chosen(step) == IF step[1] = "named" THEN (IF named THEN step[2] ELSE step[3]) ELSE step
        kept(what) == what[1] = "anon" /\ Field(st, id, what[2] \o "_str") # NULL
        after(what, v) ==
            CASE v = NULL \/ kept(what) -> st
              [] what[1] \in {"list", "deep"} -> cil_list_destroy(st, v, what[1] = "deep")
              [] what[1] = "items" -> Free(st, v[2])
              [] what[1] \in {"anon", "part"} -> Destroy(st, v[2])
              [] what[1] = "classperms" -> cil_destroy_classperms_list(st, v)
        step1(what) == after(what, Field(st, id, what[2]))
    IN  IF steps = <<>> THEN st ELSE DestroySteps(step1(chosen(Head(steps))), id, Tail(steps))
Destroy(st, id) == Free(DestroySteps(st, id, cil_destroy_data[st.h[id].kind]), id)

-----------------------------------------------------------------------------
(* What an object says: its fields, with what it owns in place of pointers   *)
(* and the declaration a reference points to in place of its address.        *)

RECURSIVE View(_, _), ViewOf(_, _)
ViewOf(st, v) ==
    IF v[1] = "own" THEN View(st, v[2])
    ELSE IF v[1] = "ref"
    THEN LET o == st.h[v[2]]
         IN  IF o.holder \in {"inner", "outer"}
             THEN <<"datum", o.kind, o.f["datum"], o.holder, o.live>>
             ELSE IF o.live THEN View(st, v[2]) ELSE <<"freed">>
    ELSE v
View(st, id) == <<"object", st.h[id].kind, [f \in DOMAIN st.h[id].f |-> ViewOf(st, st.h[id].f[f])]>>

\* the objects an object owns, itself included
RECURSIVE Owned(_, _)
Owned(st, id) ==
    LET o == st.h[id]
    IN  {id} \union UNION {Owned(st, o.f[f][2]) : f \in {g \in DOMAIN o.f : o.f[g][1] = "own"}}
=============================================================================
