----------------------------- MODULE CilCopyAst ------------------------------
(* cil_copy_ast.c: the copy of a statement, for an inherited block, a macro  *)
(* call or an in-statement.                                                  *)
(*                                                                           *)
(* Every cil_copy_* is described by the initial fields of the copy, by what  *)
(* it does when the destination already declares the name, and by what it    *)
(* takes from the original.  Copy runs such a description.                   *)
EXTENDS CilBuildAst

\* new->f = orig->f
Same(fields) == [do |-> "same", fields |-> fields]
\* cil_copy_list, cil_copy_expr: a new list of the same items
List(f) == [do |-> "list", f |-> f]
CopyClassperms(f) == [do |-> "classperms", f |-> f]
\* cil_copy_cats
Cats(f) == [do |-> "filled", f |-> f, flavor |-> "CATS"]
\* the name, or a copy of the object that was filled in place
Filled(f, flavor) == [do |-> "filled", f |-> f, flavor |-> flavor]

Copying(init, steps) == [init |-> init, existing |-> "none", steps |-> steps]
\* the declaration of the destination is used, is an error, or is left to cil_add_decl_to_symtab
Reusing(init, steps) == [init |-> init, existing |-> "reuse", steps |-> steps]
Refusing(init, steps) == [init |-> init, existing |-> "error", steps |-> steps]
Redeclaring(init) == [init |-> init, existing |-> "redeclare", steps |-> <<>>]

-----------------------------------------------------------------------------
cil_copy_classperms == Copying(cil_classperms_init, <<Same({"class_str"}), List("perm_strs")>>)
cil_copy_classperms_set == Copying(cil_classperms_set_init, <<Same({"set_str"})>>)
cil_copy_cats == <<List("str_expr"), List("datum_expr")>>
cil_copy_fill_permissionx == <<Same({"kind", "obj_str"}), List("expr_str")>>
cil_copy_fill_level == <<Same({"sens_str"}), Cats("cats")>>
cil_copy_fill_levelrange == <<Filled("low", "LEVEL"), Filled("high", "LEVEL")>>
cil_copy_fill_context == <<Same({"user_str", "role_str", "type_str"}), Filled("range", "LEVELRANGE")>>
cil_copy_fill_ipaddr == <<Same({"ip"})>>
CopyFill == [LEVEL |-> cil_copy_fill_level, LEVELRANGE |-> cil_copy_fill_levelrange, CONTEXT |-> cil_copy_fill_context,
             PERMISSIONX |-> cil_copy_fill_permissionx, IPADDR |-> cil_copy_fill_ipaddr, CATS |-> cil_copy_cats,
             TREE |-> <<Same({"tree"})>>]

cil_copy_ordered == Copying(cil_ordered_init, <<List("strs"), List("datums")>>)
cil_copy_block == Reusing(cil_block_init, <<>>)
cil_copy_blockabstract == Copying(cil_blockabstract_init, <<Same({"block_str", "block"})>>)
cil_copy_blockinherit == Copying(cil_blockinherit_init, <<Same({"block_str", "block"})>>)
cil_copy_policycap == Reusing(cil_policycap_init, <<>>)
\* the permissions of a class are copied with it, cil_copy_perm keeping their names only
cil_copy_perm == "names"
cil_copy_class == Refusing(cil_class_init, <<[do |-> cil_copy_perm]>>)
cil_copy_classmapping ==
    Copying(cil_classmapping_init,
            <<Same({"map_class_str", "map_class", "map_perm_str", "map_perm"}), CopyClassperms("classperms")>>)
cil_copy_classpermission == Refusing(cil_classpermission_init, <<CopyClassperms("classperms")>>)
cil_copy_classpermissionset ==
    Copying(cil_classpermissionset_init, <<Same({"set_str", "set"}), CopyClassperms("classperms")>>)
cil_copy_classcommon == Copying(cil_classcommon_init, <<Same({"class_str", "class", "common_str", "common"})>>)
cil_copy_sid == Reusing(cil_sid_init, <<>>)
cil_copy_sidcontext == Copying(cil_sidcontext_init, <<Filled("context", "CONTEXT")>>)
cil_copy_user == Reusing(cil_user_init, <<>>)
cil_copy_userattribute == Reusing(cil_userattribute_init, <<>>)
cil_copy_userattributeset ==
    Copying(cil_userattributeset_init, <<Same({"attr_str"}), List("str_expr"), List("datum_expr")>>)
cil_copy_userrole == Copying(cil_userrole_init, <<Same({"user_str", "role_str"})>>)
cil_copy_userlevel == Copying(cil_userlevel_init, <<Same({"user_str"}), Filled("level", "LEVEL")>>)
cil_copy_userrange == Copying(cil_userrange_init, <<Same({"user_str"}), Filled("range", "LEVELRANGE")>>)
cil_copy_userprefix == Copying(cil_userprefix_init, <<Same({"user_str", "prefix_str"})>>)
cil_copy_role == Reusing(cil_role_init, <<>>)
cil_copy_roletype == Copying(cil_roletype_init, <<Same({"role_str", "type_str"})>>)
cil_copy_roleattribute == Reusing(cil_roleattribute_init, <<>>)
cil_copy_roleattributeset ==
    Copying(cil_roleattributeset_init, <<Same({"attr_str"}), List("str_expr"), List("datum_expr")>>)
cil_copy_roleallow == Copying(cil_roleallow_init, <<Same({"src_str", "tgt_str"})>>)
cil_copy_type == Redeclaring(cil_type_init)
cil_copy_typepermissive == Copying(cil_typepermissive_init, <<Same({"type_str"})>>)
cil_copy_typeattribute == Redeclaring(cil_typeattribute_init)
cil_copy_typeattributeset ==
    Copying(cil_typeattributeset_init, <<Same({"attr_str"}), List("str_expr"), List("datum_expr")>>)
cil_copy_expandtypeattribute ==
    Copying(cil_expandtypeattribute_init, <<List("attr_strs"), List("attr_datums"), Same({"expand"})>>)
cil_copy_alias == Refusing(cil_alias_init, <<>>)
cil_copy_aliasactual == Copying(cil_aliasactual_init, <<Same({"alias_str", "alias", "actual_str", "actual"})>>)
cil_copy_roletransition == Copying(cil_roletransition_init, <<Same({"src_str", "tgt_str", "obj_str", "result_str"})>>)
cil_copy_nametypetransition ==
    Copying(cil_nametypetransition_init, <<Same({"src_str", "tgt_str", "obj_str", "name_str", "name", "result_str"})>>)
\* Mutant: a name is forgotten.
cil_copy_rangetransition_short ==
    Copying(cil_rangetransition_init, <<Same({"src_str", "obj_str"}), Filled("range", "LEVELRANGE")>>)
cil_copy_rangetransition ==
    Copying(cil_rangetransition_init, <<Same({"src_str", "exec_str", "obj_str"}), Filled("range", "LEVELRANGE")>>)
cil_copy_bool == Refusing(cil_bool_init, <<Same({"value"})>>)
cil_copy_tunable == Refusing(cil_tunable_init, <<Same({"value"})>>)
cil_copy_avrule(is_extended) ==
    Copying(cil_avrule_init,
            <<Same({"is_extended", "rule_kind", "src_str", "tgt_str"}),
              IF is_extended THEN Filled("permx", "PERMISSIONX") ELSE CopyClassperms("classperms")>>)
cil_copy_permissionx == Refusing(cil_permissionx_init, cil_copy_fill_permissionx)
cil_copy_deny_rule == Copying(cil_deny_rule_init, <<Same({"src_str", "tgt_str"}), CopyClassperms("classperms")>>)
cil_copy_type_rule ==
    Copying(cil_type_rule_init, <<Same({"rule_kind", "src_str", "tgt_str", "obj_str", "result_str"})>>)
cil_copy_sens == Reusing(cil_sens_init, <<>>)
cil_copy_cat == Reusing(cil_cat_init, <<>>)
cil_copy_catset == Refusing(cil_catset_init, <<Cats("cats")>>)
cil_copy_senscat == Copying(cil_senscat_init, <<Same({"sens_str"}), Cats("cats")>>)
cil_copy_level == Refusing(cil_level_init, cil_copy_fill_level)
cil_copy_levelrange == Refusing(cil_levelrange_init, cil_copy_fill_levelrange)
cil_copy_context == Refusing(cil_context_init, cil_copy_fill_context)
cil_copy_netifcon ==
    Copying(cil_netifcon_init,
            <<Same({"interface_str"}), Filled("if_context", "CONTEXT"), Filled("packet_context", "CONTEXT")>>)
cil_copy_genfscon == Copying(cil_genfscon_init, <<Same({"fs_str", "path_str"}), Filled("context", "CONTEXT")>>)
cil_copy_filecon == Copying(cil_filecon_init, <<Same({"path_str", "path", "type"}), Filled("context", "CONTEXT")>>)
cil_copy_nodecon ==
    Copying(cil_nodecon_init, <<Filled("addr", "IPADDR"), Filled("mask", "IPADDR"), Filled("context", "CONTEXT")>>)
cil_copy_ibpkeycon ==
    Copying(cil_ibpkeycon_init, <<Same({"subnet_prefix_str", "pkey_low", "pkey_high"}), Filled("context", "CONTEXT")>>)
cil_copy_ibendportcon == Copying(cil_ibendportcon_init, <<Same({"dev_name_str", "port"}), Filled("context", "CONTEXT")>>)
cil_copy_portcon == Copying(cil_portcon_init, <<Same({"proto", "port_low", "port_high"}), Filled("context", "CONTEXT")>>)
cil_copy_pirqcon == Copying(cil_pirqcon_init, <<Same({"pirq"}), Filled("context", "CONTEXT")>>)
cil_copy_iomemcon == Copying(cil_iomemcon_init, <<Same({"iomem_low", "iomem_high"}), Filled("context", "CONTEXT")>>)
cil_copy_ioportcon == Copying(cil_ioportcon_init, <<Same({"ioport_low", "ioport_high"}), Filled("context", "CONTEXT")>>)
cil_copy_pcidevicecon == Copying(cil_pcidevicecon_init, <<Same({"dev"}), Filled("context", "CONTEXT")>>)
cil_copy_devicetreecon == Copying(cil_devicetreecon_init, <<Same({"path"}), Filled("context", "CONTEXT")>>)
cil_copy_fsuse == Copying(cil_fsuse_init, <<Same({"type", "fs_str"}), Filled("context", "CONTEXT")>>)
cil_copy_constrain == Copying(cil_constrain_init, <<CopyClassperms("classperms"), List("str_expr"), List("datum_expr")>>)
cil_copy_validatetrans == Copying(cil_validatetrans_init, <<Same({"class_str"}), List("str_expr"), List("datum_expr")>>)
\* the tree of the arguments is copied with cil_copy_ast
cil_copy_call == Copying(cil_call_init, <<Same({"macro_str", "macro"}), Filled("args_tree", "TREE"), Same({"copied"})>>)
\* a macro the destination has already is not copied
cil_copy_macro == [init |-> cil_macro_init, existing |-> "skip", steps |-> <<List("params")>>]
cil_copy_optional == Redeclaring(cil_optional_init)
cil_copy_ipaddr == Refusing(cil_ipaddr_init, cil_copy_fill_ipaddr)
cil_copy_condblock == Copying(cil_condblock_init, <<Same({"flavor"})>>)
cil_copy_boolif == Copying(cil_boolif_init, <<List("str_expr"), List("datum_expr"), Same({"preserved_tunable"})>>)
cil_copy_tunif == Copying(cil_tunif_init, <<List("str_expr"), List("datum_expr")>>)
cil_copy_default == Copying(cil_default_init, <<Same({"flavor"}), List("class_strs"), Same({"object"})>>)
cil_copy_defaultrange == Copying(cil_defaultrange_init, <<List("class_strs"), Same({"object_range"})>>)
cil_copy_handleunknown == Copying(cil_handleunknown_init, <<Same({"handle_unknown"})>>)
cil_copy_mls == Copying(cil_mls_init, <<Same({"value"})>>)
cil_copy_bounds == Copying(cil_bounds_init, <<Same({"parent_str", "child_str"})>>)
cil_copy_src_info == Copying(cil_src_info_init, <<Same({"kind", "hll_line", "path"})>>)

\* __cil_copy_node_helper: the function of every flavor; the others cannot be copied
copy_func ==
    [BLOCK |-> cil_copy_block, BLOCKABSTRACT |-> cil_copy_blockabstract, BLOCKINHERIT |-> cil_copy_blockinherit,
     POLICYCAP |-> cil_copy_policycap, CLASSMAPPING |-> cil_copy_classmapping, CLASS |-> cil_copy_class,
     COMMON |-> cil_copy_class, MAP_CLASS |-> cil_copy_class, CLASSORDER |-> cil_copy_ordered,
     CLASSPERMISSION |-> cil_copy_classpermission, CLASSPERMISSIONSET |-> cil_copy_classpermissionset,
     CLASSCOMMON |-> cil_copy_classcommon, SID |-> cil_copy_sid, SIDCONTEXT |-> cil_copy_sidcontext,
     SIDORDER |-> cil_copy_ordered, USER |-> cil_copy_user, USERATTRIBUTE |-> cil_copy_userattribute,
     USERATTRIBUTESET |-> cil_copy_userattributeset, USERROLE |-> cil_copy_userrole, USERLEVEL |-> cil_copy_userlevel,
     USERRANGE |-> cil_copy_userrange, USERBOUNDS |-> cil_copy_bounds, USERPREFIX |-> cil_copy_userprefix,
     ROLE |-> cil_copy_role, ROLETYPE |-> cil_copy_roletype, ROLEBOUNDS |-> cil_copy_bounds,
     ROLEATTRIBUTE |-> cil_copy_roleattribute, ROLEATTRIBUTESET |-> cil_copy_roleattributeset,
     ROLEALLOW |-> cil_copy_roleallow, TYPE |-> cil_copy_type, TYPEBOUNDS |-> cil_copy_bounds,
     TYPEPERMISSIVE |-> cil_copy_typepermissive, TYPEATTRIBUTE |-> cil_copy_typeattribute,
     TYPEATTRIBUTESET |-> cil_copy_typeattributeset, EXPANDTYPEATTRIBUTE |-> cil_copy_expandtypeattribute,
     TYPEALIAS |-> cil_copy_alias, TYPEALIASACTUAL |-> cil_copy_aliasactual, ROLETRANSITION |-> cil_copy_roletransition,
     NAMETYPETRANSITION |-> cil_copy_nametypetransition, RANGETRANSITION |-> cil_copy_rangetransition,
     TUNABLE |-> cil_copy_tunable, BOOL |-> cil_copy_bool, AVRULE |-> cil_copy_avrule(FALSE),
     AVRULEX |-> cil_copy_avrule(TRUE), PERMISSIONX |-> cil_copy_permissionx, DENY_RULE |-> cil_copy_deny_rule,
     TYPE_RULE |-> cil_copy_type_rule, SENS |-> cil_copy_sens, SENSALIAS |-> cil_copy_alias,
     SENSALIASACTUAL |-> cil_copy_aliasactual, CAT |-> cil_copy_cat, CATALIAS |-> cil_copy_alias,
     CATALIASACTUAL |-> cil_copy_aliasactual, CATSET |-> cil_copy_catset, SENSCAT |-> cil_copy_senscat,
     CATORDER |-> cil_copy_ordered, SENSITIVITYORDER |-> cil_copy_ordered, LEVEL |-> cil_copy_level,
     LEVELRANGE |-> cil_copy_levelrange, CONTEXT |-> cil_copy_context, NETIFCON |-> cil_copy_netifcon,
     GENFSCON |-> cil_copy_genfscon, FILECON |-> cil_copy_filecon, NODECON |-> cil_copy_nodecon,
     IBPKEYCON |-> cil_copy_ibpkeycon, IBENDPORTCON |-> cil_copy_ibendportcon, PORTCON |-> cil_copy_portcon,
     PIRQCON |-> cil_copy_pirqcon, IOMEMCON |-> cil_copy_iomemcon, IOPORTCON |-> cil_copy_ioportcon,
     PCIDEVICECON |-> cil_copy_pcidevicecon, DEVICETREECON |-> cil_copy_devicetreecon, FSUSE |-> cil_copy_fsuse,
     CONSTRAIN |-> cil_copy_constrain, MLSCONSTRAIN |-> cil_copy_constrain, VALIDATETRANS |-> cil_copy_validatetrans,
     MLSVALIDATETRANS |-> cil_copy_validatetrans, CALL |-> cil_copy_call, MACRO |-> cil_copy_macro,
     OPTIONAL |-> cil_copy_optional, IPADDR |-> cil_copy_ipaddr, CONDBLOCK |-> cil_copy_condblock,
     BOOLEANIF |-> cil_copy_boolif, TUNABLEIF |-> cil_copy_tunif, DEFAULTUSER |-> cil_copy_default,
     DEFAULTROLE |-> cil_copy_default, DEFAULTTYPE |-> cil_copy_default, DEFAULTRANGE |-> cil_copy_defaultrange,
     HANDLEUNKNOWN |-> cil_copy_handleunknown, MLS |-> cil_copy_mls, SRC_INFO |-> cil_copy_src_info]

-----------------------------------------------------------------------------
(* The interpreter of the descriptions.                                      *)

\* cil_copy_list: sublists and parameters are copied, other items shared
RECURSIVE cil_copy_list(_, _)
cil_copy_list(st, list) ==
    LET items == Items(st, list)
        copied[n \in 0..Len(items)] ==
            IF n = 0 THEN With(st, <<>>)
            ELSE LET item == items[n]
                     before == copied[n - 1]
                     and(new) == With(new.st, Append(before.v, new.v))
                 IN  and(IF IsList(st, item) THEN cil_copy_list(before.st, item)
                         ELSE IF item[1] = "own"
                         THEN With(Alloc(before.st, st.h[item[2]].kind, "part", st.h[item[2]].f), Own(Last(before.st) + 1))
                         ELSE With(before.st, item))
        copy(all) == ListOf(all.st, all.v)
    IN  IF list = NULL THEN With(st, NULL) ELSE copy(copied[Len(items)])

RECURSIVE CopySteps(_, _, _, _), CopyStep(_, _, _, _), CopyObject(_, _, _, _, _)
\* a new object of the same flavor with what the steps take from the original
CopyObject(st, orig, init, steps, holder) ==
    With(CopySteps(Alloc(st, st.h[orig].kind, holder, init), Last(st) + 1, orig, steps), Own(Last(st) + 1))
CopySteps(st, new, orig, steps) ==
    IF steps = <<>> THEN st ELSE CopySteps(CopyStep(st, new, orig, Head(steps)), new, orig, Tail(steps))
CopyStep(st, new, orig, step) ==
    LET from == st.h[orig].f
        set(copied) == Put(copied.st, new, step.f, copied.v)
    IN  CASE step.do = "same" ->
                 [st EXCEPT !.h[new].f = [f \in DOMAIN @ |-> IF f \in step.fields THEN from[f] ELSE @[f]]]
          [] step.do = "list" -> set(cil_copy_list(st, from[step.f]))
          [] step.do = "filled" ->
                 IF step.f \o "_str" \in DOMAIN from /\ from[step.f \o "_str"] # NULL
                 THEN Put(st, new, step.f \o "_str", from[step.f \o "_str"])
                 ELSE IF from[step.f] = NULL THEN st
                 ELSE Put(CopyObject(st, from[step.f][2], InPlace[step.flavor], CopyFill[step.flavor], "part").st,
                          new, step.f, Own(Last(st) + 1))
          [] step.do = "names" ->
                 Put(st, new, "perms",
                     <<"perms", [k \in DOMAIN from["perms"][2] |-> <<from["perms"][2][k][1], 0>>]>>)
          [] step.do = "classperms" ->
                 LET items == Items(st, from[step.f])
                     copied[n \in 0..Len(items)] ==
                         IF n = 0 THEN With(st, <<>>)
                         ELSE LET like(how) == CopyObject(copied[n - 1].st, items[n][2], how.init, how.steps, "part")
                                  and(entry) == With(entry.st, Append(copied[n - 1].v, entry.v))
                              IN  and(like(IF st.h[items[n][2]].kind = "CLASSPERMS"
                                           THEN cil_copy_classperms ELSE cil_copy_classperms_set))
                     list(all) == ListOf(all.st, all.v)
                 IN  IF from[step.f] = NULL THEN st ELSE set(list(copied[Len(items)]))

\* what becomes of the declaration when the destination has the name already
CopyDeclares(kind, existing, exists) ==
    CASE existing = "none" \/ ~exists -> "copy"
      [] kind = "BLOCK" -> "share"
      [] existing \in {"reuse", "redeclare"} -> IF cil_allow_multiple_decls(kind) THEN existing ELSE "error"
      [] OTHER -> existing

\* __cil_copy_node_helper under a blockinherit: the copy, or NULL when there is nothing new;
\* existing is the datum that has the name in the destination, 0 when there is none.  After
\* SEPOL_EEXIST the datum that was to be inserted is freed, also when it is the existing one
__cil_copy_node_helper(st, orig, existing, holder) ==
    LET kind == st.h[orig].kind
        declared(copied) == IF "datum" \in DOMAIN st.h[orig].f
                            THEN With(Put(copied.st, copied.v[2], "datum", st.h[orig].f["datum"]), copied.v) ELSE copied
        inserted(how, copied) ==
            CASE how = "copy" -> declared(copied)
              [] how = "error" -> With(Fail(st), NULL)
              [] how \in {"share", "skip"} -> With(st, NULL)
              [] how = "redeclare" -> With(Free(copied.st, copied.v[2]), NULL)
              [] how = "reuse" -> With([Free(st, existing) EXCEPT !.faults = @ \union {"declaration freed"}], NULL)
        by(functions) ==
            IF kind = "BLOCKABSTRACT" THEN With(st, NULL)
            ELSE IF kind \notin DOMAIN functions THEN With(Fail(st), NULL)
            ELSE inserted(CopyDeclares(kind, functions[kind].existing, existing # 0),
                          CopyObject(st, orig, functions[kind].init, functions[kind].steps, holder))
    IN  by(copy_func)
=============================================================================
