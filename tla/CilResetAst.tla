----------------------------- MODULE CilResetAst -----------------------------
(* cil_reset_ast.c: what is forgotten about a statement when an optional is  *)
(* disabled and the policy is resolved again.  Every cil_reset_* is a        *)
(* sequence of the fields it clears and how.                                 *)
EXTENDS CilCopyAst

\* f = NULL
Null(f) == <<"null", f>>
\* f = CIL_FALSE
Clear(f) == <<"false", f>>
Unflag(f) == <<"unflag", f>>
\* cil_list_destroy(&f, CIL_FALSE)
Drop(f) == <<"list", f>>
\* the cells of the list, by hand
DropItems(f) == <<"items", f>>
\* every entry of a list of class permissions
ResetClassperms(f) == <<"classperms", f>>
\* NULL when the statement names the object, else the object is reset in place
ResetAnon(f) == <<"anon", f>>
\* reset in place, when there is one
ResetPart(f) == <<"part", f>>

-----------------------------------------------------------------------------
cil_reset_ordered == <<Clear("merged"), Drop("datums")>>
\* the permissions of the common that came before those of the class are taken away again
cil_reset_class == <<<<"common", "common">>, Clear("ordered")>>
cil_reset_perm == <<Drop("classperms")>>
cil_reset_classperms == <<Null("class"), Drop("perms")>>
cil_reset_classpermission == <<Drop("classperms")>>
cil_reset_classperms_set == <<Null("set")>>
cil_reset_classpermissionset == <<ResetClassperms("classperms")>>
cil_reset_classmapping == <<ResetClassperms("classperms")>>
cil_reset_alias == <<Null("actual")>>
cil_reset_user == <<Null("bounds"), Null("dftlevel"), Null("range")>>
cil_reset_userattr == <<DropItems("expr_list")>>
cil_reset_userattributeset == <<Drop("datum_expr")>>
cil_reset_selinuxuser == <<Null("user"), ResetAnon("range")>>
cil_reset_role == <<Null("bounds")>>
cil_reset_roleattr == <<DropItems("expr_list")>>
cil_reset_roleattributeset == <<Drop("datum_expr")>>
cil_reset_type == <<Null("bounds")>>
\* Mutant: the uses are kept.
cil_reset_typeattr_keeping == <<DropItems("expr_list"), Clear("keep")>>
cil_reset_typeattr == <<DropItems("expr_list"), Unflag("used"), Clear("keep")>>
cil_reset_typeattributeset == <<Drop("datum_expr")>>
cil_reset_expandtypeattribute == <<Drop("attr_datums")>>
cil_reset_avrule == <<ResetClassperms("classperms")>>
cil_reset_deny_rule == <<ResetClassperms("classperms")>>
cil_reset_rangetransition == <<ResetAnon("range")>>
cil_reset_sens == <<Drop("cats_list"), Clear("ordered")>>
cil_reset_cat == <<Clear("ordered")>>
cil_reset_cats == <<Clear("evaluated"), Drop("datum_expr")>>
cil_reset_senscat == <<ResetPart("cats")>>
cil_reset_catset == <<ResetPart("cats")>>
cil_reset_level == <<Null("sens"), ResetPart("cats")>>
cil_reset_levelrange == <<ResetAnon("low"), ResetAnon("high")>>
cil_reset_userlevel == <<ResetAnon("level")>>
cil_reset_userrange == <<ResetAnon("range")>>
cil_reset_context == <<ResetAnon("range")>>
cil_reset_sidcontext == <<ResetAnon("context")>>
cil_reset_filecon == <<ResetAnon("context")>>
cil_reset_ibpkeycon == <<ResetAnon("context")>>
cil_reset_portcon == <<ResetAnon("context")>>
cil_reset_nodecon == <<ResetAnon("context")>>
cil_reset_genfscon == <<ResetAnon("context")>>
cil_reset_netifcon == <<ResetAnon("if_context"), ResetAnon("packet_context")>>
cil_reset_ibendportcon == <<ResetAnon("context")>>
cil_reset_pirqcon == <<ResetAnon("context")>>
cil_reset_iomemcon == <<ResetAnon("context")>>
cil_reset_ioportcon == <<ResetAnon("context")>>
cil_reset_pcidevicecon == <<ResetAnon("context")>>
cil_reset_devicetreecon == <<ResetAnon("context")>>
cil_reset_fsuse == <<ResetAnon("context")>>
cil_reset_sid == <<Null("context"), Clear("ordered")>>
cil_reset_constrain == <<ResetClassperms("classperms"), Drop("datum_expr")>>
cil_reset_validatetrans == <<Drop("datum_expr")>>
cil_reset_default == <<Drop("class_datums")>>
cil_reset_defaultrange == <<Drop("class_datums")>>
cil_reset_booleanif == <<Drop("datum_expr")>>

\* the objects that are reset in place
ResetInPlace ==
    [CLASSPERMS |-> cil_reset_classperms, CLASSPERMS_SET |-> cil_reset_classperms_set, CATS |-> cil_reset_cats,
     LEVEL |-> cil_reset_level, LEVELRANGE |-> cil_reset_levelrange, CONTEXT |-> cil_reset_context]
\* __cil_reset_node: the function of every flavor; the other flavors are left as they are
__cil_reset_node ==
    [CLASS |-> cil_reset_class, PERM |-> cil_reset_perm, MAP_PERM |-> cil_reset_perm,
     CLASSPERMISSION |-> cil_reset_classpermission, CLASSPERMISSIONSET |-> cil_reset_classpermissionset,
     CLASSMAPPING |-> cil_reset_classmapping, TYPEALIAS |-> cil_reset_alias, SENSALIAS |-> cil_reset_alias,
     CATALIAS |-> cil_reset_alias, USERRANGE |-> cil_reset_userrange, USERLEVEL |-> cil_reset_userlevel,
     USER |-> cil_reset_user, USERATTRIBUTE |-> cil_reset_userattr, USERATTRIBUTESET |-> cil_reset_userattributeset,
     SELINUXUSERDEFAULT |-> cil_reset_selinuxuser, SELINUXUSER |-> cil_reset_selinuxuser, ROLE |-> cil_reset_role,
     ROLEATTRIBUTE |-> cil_reset_roleattr, ROLEATTRIBUTESET |-> cil_reset_roleattributeset, TYPE |-> cil_reset_type,
     TYPEATTRIBUTE |-> cil_reset_typeattr, TYPEATTRIBUTESET |-> cil_reset_typeattributeset,
     EXPANDTYPEATTRIBUTE |-> cil_reset_expandtypeattribute, RANGETRANSITION |-> cil_reset_rangetransition,
     AVRULE |-> cil_reset_avrule, DENY_RULE |-> cil_reset_deny_rule, SENS |-> cil_reset_sens, CAT |-> cil_reset_cat,
     SENSCAT |-> cil_reset_senscat, CATSET |-> cil_reset_catset, LEVEL |-> cil_reset_level,
     LEVELRANGE |-> cil_reset_levelrange, CONTEXT |-> cil_reset_context, SIDCONTEXT |-> cil_reset_sidcontext,
     FILECON |-> cil_reset_filecon, IBPKEYCON |-> cil_reset_ibpkeycon, IBENDPORTCON |-> cil_reset_ibendportcon,
     PORTCON |-> cil_reset_portcon, NODECON |-> cil_reset_nodecon, GENFSCON |-> cil_reset_genfscon,
     NETIFCON |-> cil_reset_netifcon, PIRQCON |-> cil_reset_pirqcon, IOMEMCON |-> cil_reset_iomemcon,
     IOPORTCON |-> cil_reset_ioportcon, PCIDEVICECON |-> cil_reset_pcidevicecon,
     DEVICETREECON |-> cil_reset_devicetreecon, FSUSE |-> cil_reset_fsuse, SID |-> cil_reset_sid,
     CONSTRAIN |-> cil_reset_constrain, MLSCONSTRAIN |-> cil_reset_constrain, VALIDATETRANS |-> cil_reset_validatetrans,
     MLSVALIDATETRANS |-> cil_reset_validatetrans, DEFAULTUSER |-> cil_reset_default, DEFAULTROLE |-> cil_reset_default,
     DEFAULTTYPE |-> cil_reset_default, DEFAULTRANGE |-> cil_reset_defaultrange, BOOLEANIF |-> cil_reset_booleanif,
     SIDORDER |-> cil_reset_ordered, CLASSORDER |-> cil_reset_ordered, CATORDER |-> cil_reset_ordered,
     SENSITIVITYORDER |-> cil_reset_ordered]

-----------------------------------------------------------------------------
RECURSIVE ResetSteps(_, _, _), ResetStep(_, _, _), cil_reset_classperms_list(_, _)
ResetSteps(st, id, steps) == IF steps = <<>> THEN st ELSE ResetSteps(ResetStep(st, id, Head(steps)), id, Tail(steps))
ResetStep(st, id, step) ==
    LET v == Field(st, id, step[2])
        inPlace == ResetSteps(st, v[2], ResetInPlace[st.h[v[2]].kind])
    IN  CASE step[1] = "null" -> Put(st, id, step[2], NULL)
          [] step[1] = "false" -> Put(st, id, step[2], No)
          [] step[1] = "unflag" -> Put(st, id, step[2], NoFlags)
          [] step[1] = "list" -> Put(cil_list_destroy(st, v, FALSE), id, step[2], NULL)
          [] step[1] = "items" -> Put(IF v = NULL THEN st ELSE Free(st, v[2]), id, step[2], NULL)
          [] step[1] = "classperms" -> cil_reset_classperms_list(st, v)
          [] step[1] = "part" -> IF v = NULL THEN st ELSE inPlace
          [] step[1] = "anon" ->
                 IF Field(st, id, step[2] \o "_str") # NULL THEN Put(st, id, step[2], NULL)
                 ELSE IF v = NULL THEN st ELSE inPlace
          [] step[1] = "common" ->
                 LET f == st.h[id].f
                     num_common_perms == f["num_perms"][2] - Len(f["perms"][2])
                     own == [k \in DOMAIN f["perms"][2] |->
                                <<f["perms"][2][k][1], f["perms"][2][k][2] - num_common_perms>>]
                 IN  IF v = NULL THEN st
                     ELSE [st EXCEPT !.h[id].f = [@ EXCEPT !["perms"] = <<"perms", own>>, !["num_perms"] = Num(Len(own)),
                                                           !["common"] = NULL]]
\* an anonymous set, the argument of a macro call, is reset with the entry that names it: the set is read
cil_reset_classperms_list(st, list) ==
    LET items == Items(st, list)
        ofSet(s, set) == IF ~s.h[set].live THEN [s EXCEPT !.faults = @ \union {"freed set read"}]
                         ELSE IF Field(s, set, "datum") = NULL
                         THEN cil_reset_classperms_list(s, Field(s, set, "classperms")) ELSE s
        reset[n \in 0..Len(items)] ==
            IF n = 0 THEN st
            ELSE LET s == reset[n - 1]
                     id == items[n][2]
                     s1 == IF s.h[id].kind = "CLASSPERMS_SET" /\ Field(s, id, "set") # NULL
                           THEN ofSet(s, Field(s, id, "set")[2]) ELSE s
                 IN  ResetSteps(s1, id, ResetInPlace[s.h[id].kind])
    IN  reset[Len(items)]

\* __cil_reset_node on one statement or declaration
ResetNode(st, id) ==
    IF st.h[id].kind \in DOMAIN __cil_reset_node THEN ResetSteps(st, id, __cil_reset_node[st.h[id].kind]) ELSE st
\* cil_reset_ast: every statement and declaration of the tree
cil_reset_ast(st) ==
    LET nodes == {k \in DOMAIN st.h : st.h[k].live /\ st.h[k].holder # "part"}
        reset[n \in 0..Len(st.h)] ==
            IF n = 0 THEN st ELSE IF n \in nodes THEN ResetNode(reset[n - 1], n) ELSE reset[n - 1]
    IN  reset[Len(st.h)]
=============================================================================
