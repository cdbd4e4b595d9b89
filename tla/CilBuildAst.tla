----------------------------- MODULE CilBuildAst -----------------------------
(* cil_build_ast.c: from the parsed list of a statement to its object.       *)
(*                                                                           *)
(* A parsed node is a string <<"s", name>> or a list <<"l", nodes>>; the     *)
(* first node of a statement is its keyword.  Every cil_gen_* is described   *)
(* by the flavor and the initial fields of its object, the syntax it demands *)
(* and what it stores, in the order of the code; the numbers are positions   *)
(* in the list.  Build runs such a description: when a step fails what was   *)
(* built is destroyed, as at the exit label of every cil_gen_*.              *)
EXTENDS CilData

CONSTANTS PreserveTunables,     \* db->preserve_tunables
          MultipleDecls,        \* db->multiple_decls
          Taken,                \* the names the enclosing block already declares
          StringParams,         \* the string parameters of the enclosing macro
          Numbers,              \* the strings that are numbers
          Addresses,            \* the strings that are IP addresses
          CIL_PERMS_PER_CLASS   \* the permissions a class may have

-----------------------------------------------------------------------------
(* Syntax: for every position the forms the node may have.                   *)
S == {"string"}
L == {"list"}
E == {"empty"}
NL == {"lists"}
NS == {"strings"}
END == {"end"}

Form(node) == IF node[1] = "s" THEN "string" ELSE IF node[2] = <<>> THEN "empty" ELSE "list"

\* __cil_verify_syntax: a node that fits goes on; a repetition takes all the nodes that are left
__cil_verify_syntax(nodes, s) ==
    LET many(k) == {f \in {"string", "list"} : (f \o "s") \in s[k]}
        fits(k) == k <= Len(s) /\ k <= Len(nodes) /\ Form(nodes[k]) \in s[k]
        stop == CHOOSE k \in 1..(Len(nodes) + 1) : ~fits(k) /\ \A j \in 1..(k - 1) : fits(j)
        rest == {Form(nodes[k]) : k \in stop..Len(nodes)}
    IN  IF stop > Len(nodes)
        THEN stop <= Len(s) /\ "end" \in s[stop]
        ELSE /\ stop < Len(s) /\ many(stop) # {} /\ rest \subseteq many(stop)
             /\ "end" \in s[stop + 1]

-----------------------------------------------------------------------------
(* The steps of a cil_gen_* or cil_fill_*.                                   *)

Str(i, f) == [do |-> "str", i |-> i, f |-> f]
Key(i, f, keys) == [do |-> "key", i |-> i, f |-> f, keys |-> keys]
Const(f, v) == [do |-> "const", f |-> f, v |-> v]
\* cil_fill_integer, cil_fill_integer64
Integer(i, f) == [do |-> "int", i |-> i, f |-> f]
\* one number or a pair of them
Ints(i, low, high) == [do |-> "ints", i |-> i, low |-> low, high |-> high]
\* cil_gen_node: the declaration of the object
Declare(i) == [do |-> "declare", i |-> i]
\* cil_gen_declared_string: a string that is not a macro parameter is declared at once
DeclareString(i, f) == [do |-> "string", i |-> i, f |-> f]
Expr(i, f) == [do |-> "expr", i |-> i, f |-> f]
ConstraintExpr(i, f) == [do |-> "cons", i |-> i, f |-> f]
\* cil_fill_list
Strings(i, f) == [do |-> "strings", i |-> i, f |-> f]
\* unordered may only be the first of several, and only for classes
Unordered(i) == [do |-> "unordered", i |-> i]
\* one string or a list of them
StringOrList(i, f) == [do |-> "strlist", i |-> i, f |-> f]
\* the name of an object, or the object itself, filled in place
Anon(i, f, flavor) == [do |-> "anon", i |-> i, f |-> f, flavor |-> flavor]
\* an object filled in place
Part(i, f, flavor) == [do |-> "part", i |-> i, f |-> f, flavor |-> flavor]
\* the fields of the object itself, from a list
Fill(i) == [do |-> "fill", i |-> i]
\* cil_verify_conditional_blocks, from position i on
CondBlocks(i) == [do |-> "blocks", i |-> i]
\* source or target, and which end of its range
DefaultRange(i, f) == [do |-> "range", i |-> i, f |-> f]
Classperms(i, f) == [do |-> "classperms", i |-> i, f |-> f]
Perms(i) == [do |-> "perms", i |-> i]
Params(i, f) == [do |-> "params", i |-> i, f |-> f]

Gen(flavor, init, syntax, steps) == [flavor |-> flavor, init |-> init, syntax |-> syntax, steps |-> steps]
Filling(syntax, steps) == [syntax |-> syntax, steps |-> steps]

-----------------------------------------------------------------------------
cil_fill_level(nodes) ==
    Filling(<<S, S \union L \union END, END>>,
            <<Str(1, "sens_str")>> \o IF Len(nodes) > 1 THEN <<Part(2, "cats", "CATS")>> ELSE <<>>)
cil_fill_levelrange == Filling(<<S \union L, S \union L, END>>, <<Anon(1, "low", "LEVEL"), Anon(2, "high", "LEVEL")>>)
cil_fill_context ==
    Filling(<<S, S, S, S \union L, END>>,
            <<Str(1, "user_str"), Str(2, "role_str"), Str(3, "type_str"), Anon(4, "range", "LEVELRANGE")>>)
cil_fill_permissionx ==
    Filling(<<S, S, L, END>>, <<Key(1, "kind", {"ioctl", "nlmsg"}), Str(2, "obj_str"), Expr(3, "expr_str")>>)
cil_fill_perms == Expr(2, "perm_strs")
cil_fill_classperms == Gen("CLASSPERMS", cil_classperms_init, <<S, L, END>>, <<Str(1, "class_str"), cil_fill_perms>>)
cil_fill_classperms_set == Gen("CLASSPERMS_SET", cil_classperms_set_init, <<S, END>>, <<Str(1, "set_str")>>)
\* what follows the address is not looked at
cil_fill_ipaddr == Filling(<<S, NS \union NL \union END, END>>, <<Key(1, "ip", Addresses)>>)
cil_fill_cats == Gen("CATS", cil_cats_init, <<S \union L, END>>, <<Expr(1, "str_expr")>>)

cil_gen_ordered(flavor) == Gen(flavor, cil_ordered_init, <<S, L, END>>, <<Strings(2, "strs"), Unordered(2)>>)
cil_gen_block(is_abstract) ==
    Gen("BLOCK", cil_block_init, <<S, S, NL \union END, END>>, <<Const("is_abstract", Val(is_abstract)), Declare(2)>>)
cil_gen_blockinherit == Gen("BLOCKINHERIT", cil_blockinherit_init, <<S, S, END>>, <<Str(2, "block_str")>>)
cil_gen_blockabstract == Gen("BLOCKABSTRACT", cil_blockabstract_init, <<S, S, END>>, <<Str(2, "block_str")>>)
cil_gen_in(a) ==
    Gen("IN", cil_in_init, <<S, S, S \union NL, NL \union END, END>>,
        IF Len(a) > 2 /\ a[3][1] = "s"
        THEN <<Key(2, "is_after", {"before", "after"}), Str(3, "block_str")>>
        ELSE <<Const("is_after", No), Str(2, "block_str")>>)
cil_gen_class == Gen("CLASS", cil_class_init, <<S, S, L \union E, END>>, <<Declare(2), Perms(3)>>)
cil_gen_map_class == Gen("MAP_CLASS", cil_class_init, <<S, S, L, END>>, <<Declare(2), Perms(3)>>)
cil_gen_common == Gen("COMMON", cil_class_init, <<S, S, L, END>>, <<Declare(2), Perms(3)>>)
cil_gen_classpermission == Gen("CLASSPERMISSION", cil_classpermission_init, <<S, S, END>>, <<Declare(2)>>)
cil_gen_classpermissionset ==
    Gen("CLASSPERMISSIONSET", cil_classpermissionset_init, <<S, S, S \union L, END>>,
        <<Str(2, "set_str"), Classperms(3, "classperms")>>)
cil_gen_classmapping ==
    Gen("CLASSMAPPING", cil_classmapping_init, <<S, S, S, S \union L, END>>,
        <<Str(2, "map_class_str"), Str(3, "map_perm_str"), Classperms(4, "classperms")>>)
cil_gen_classcommon ==
    Gen("CLASSCOMMON", cil_classcommon_init, <<S, S, S, END>>, <<Str(2, "class_str"), Str(3, "common_str")>>)
cil_gen_sid == Gen("SID", cil_sid_init, <<S, S, END>>, <<Declare(2)>>)
cil_gen_sidcontext ==
    Gen("SIDCONTEXT", cil_sidcontext_init, <<S, S, S \union L, END>>, <<Str(2, "sid_str"), Anon(3, "context", "CONTEXT")>>)
cil_gen_user == Gen("USER", cil_user_init, <<S, S, END>>, <<Declare(2)>>)
cil_gen_userattribute == Gen("USERATTRIBUTE", cil_userattribute_init, <<S, S, END>>, <<Declare(2)>>)
cil_gen_userattributeset ==
    Gen("USERATTRIBUTESET", cil_userattributeset_init, <<S, S, S \union L, END>>, <<Str(2, "attr_str"), Expr(3, "str_expr")>>)
cil_gen_userlevel ==
    Gen("USERLEVEL", cil_userlevel_init, <<S, S, S \union L, END>>, <<Str(2, "user_str"), Anon(3, "level", "LEVEL")>>)
cil_gen_userrange ==
    Gen("USERRANGE", cil_userrange_init, <<S, S, S \union L, END>>, <<Str(2, "user_str"), Anon(3, "range", "LEVELRANGE")>>)
cil_gen_userprefix == Gen("USERPREFIX", cil_userprefix_init, <<S, S, S, END>>, <<Str(2, "user_str"), Str(3, "prefix_str")>>)
cil_gen_selinuxuser ==
    Gen("SELINUXUSER", cil_selinuxuser_init, <<S, S, S, S \union L, END>>,
        <<Str(2, "name_str"), Str(3, "user_str"), Anon(4, "range", "LEVELRANGE")>>)
cil_gen_selinuxuserdefault ==
    Gen("SELINUXUSERDEFAULT", cil_selinuxuser_init, <<S, S, S \union L, END>>,
        <<Const("name_str", Name("__default__")), Str(2, "user_str"), Anon(3, "range", "LEVELRANGE")>>)
cil_gen_role == Gen("ROLE", cil_role_init, <<S, S, END>>, <<Declare(2)>>)
cil_gen_roletype == Gen("ROLETYPE", cil_roletype_init, <<S, S, S, END>>, <<Str(2, "role_str"), Str(3, "type_str")>>)
cil_gen_userrole == Gen("USERROLE", cil_userrole_init, <<S, S, S, END>>, <<Str(2, "user_str"), Str(3, "role_str")>>)
cil_gen_roletransition ==
    Gen("ROLETRANSITION", cil_roletransition_init, <<S, S, S, S, S, END>>,
        <<Str(2, "src_str"), Str(3, "tgt_str"), Str(4, "obj_str"), Str(5, "result_str")>>)
cil_gen_roleallow == Gen("ROLEALLOW", cil_roleallow_init, <<S, S, S, END>>, <<Str(2, "src_str"), Str(3, "tgt_str")>>)
cil_gen_roleattribute == Gen("ROLEATTRIBUTE", cil_roleattribute_init, <<S, S, END>>, <<Declare(2)>>)
cil_gen_roleattributeset ==
    Gen("ROLEATTRIBUTESET", cil_roleattributeset_init, <<S, S, S \union L, END>>, <<Str(2, "attr_str"), Expr(3, "str_expr")>>)
cil_gen_avrule(rule_kind) ==
    Gen("AVRULE", cil_avrule_init, <<S, S, S, S \union L, END>>,
        <<Const("is_extended", Val("0")), Const("rule_kind", Val(rule_kind)), Str(2, "src_str"), Str(3, "tgt_str"),
          Classperms(4, "classperms")>>)
cil_gen_permissionx ==
    Gen("PERMISSIONX", cil_permissionx_init, <<S, S, L, END>>, <<Declare(2), Fill(3)>>)
cil_gen_avrulex(rule_kind) ==
    Gen("AVRULEX", cil_avrule_init, <<S, S, S, S \union L, END>>,
        <<Const("is_extended", Val("1")), Const("rule_kind", Val(rule_kind)), Str(2, "src_str"), Str(3, "tgt_str"),
          Anon(4, "permx", "PERMISSIONX")>>)
cil_gen_deny_rule ==
    Gen("DENY_RULE", cil_deny_rule_init, <<S, S, S, S \union L, END>>,
        <<Str(2, "src_str"), Str(3, "tgt_str"), Classperms(4, "classperms")>>)
cil_gen_type_rule(rule_kind) ==
    Gen("TYPE_RULE", cil_type_rule_init, <<S, S, S, S, S, END>>,
        <<Const("rule_kind", Val(rule_kind)), Str(2, "src_str"), Str(3, "tgt_str"), Str(4, "obj_str"), Str(5, "result_str")>>)
cil_gen_type == Gen("TYPE", cil_type_init, <<S, S, END>>, <<Declare(2)>>)
cil_gen_typeattribute == Gen("TYPEATTRIBUTE", cil_typeattribute_init, <<S, S, END>>, <<Declare(2)>>)
cil_gen_bool == Gen("BOOL", cil_bool_init, <<S, S, S, END>>, <<Key(3, "value", {"true", "false"}), Declare(2)>>)
cil_gen_tunable == Gen("TUNABLE", cil_tunable_init, <<S, S, S, END>>, <<Key(3, "value", {"true", "false"}), Declare(2)>>)
cil_gen_boolif(tunableif) ==
    Gen("BOOLEANIF", cil_boolif_init, <<S, S \union L, L, L \union END, END>>,
        <<Const("preserved_tunable", Val(tunableif)), Expr(2, "str_expr"), CondBlocks(3)>>)
cil_gen_tunif == Gen("TUNABLEIF", cil_tunif_init, <<S, S \union L, L, L \union END, END>>, <<Expr(2, "str_expr"), CondBlocks(3)>>)
cil_gen_condblock(flavor) == Gen("CONDBLOCK", cil_condblock_init, <<S, NL, END>>, <<Const("flavor", Val(flavor))>>)
cil_gen_alias(flavor) == Gen(flavor, cil_alias_init, <<S, S, END>>, <<Declare(2)>>)
cil_gen_aliasactual(flavor) ==
    Gen(flavor, cil_aliasactual_init, <<S, S, S, END>>, <<Str(2, "alias_str"), Str(3, "actual_str")>>)
cil_gen_typeattributeset ==
    Gen("TYPEATTRIBUTESET", cil_typeattributeset_init, <<S, S, S \union L, END>>, <<Str(2, "attr_str"), Expr(3, "str_expr")>>)
cil_gen_expandtypeattribute ==
    Gen("EXPANDTYPEATTRIBUTE", cil_expandtypeattribute_init, <<S, S \union L, S, END>>,
        <<StringOrList(2, "attr_strs"), Key(3, "expand", {"true", "false"})>>)
cil_gen_typepermissive == Gen("TYPEPERMISSIVE", cil_typepermissive_init, <<S, S, END>>, <<Str(2, "type_str")>>)
\* with a name it is another statement; the name "*" stands for none
cil_gen_typetransition(a) ==
    LET syntax == <<S, S, S, S, S, S \union END, END>>
        first == <<Str(2, "src_str"), Str(3, "tgt_str"), Str(4, "obj_str")>>
        star == Len(a) = 6 /\ a[5] = <<"s", "*">>
    IN  IF Len(a) = 6 /\ ~star
        THEN Gen("NAMETYPETRANSITION", cil_nametypetransition_init, syntax,
                 first \o <<Str(5, "name_str"), DeclareString(5, "name"), Str(6, "result_str")>>)
        ELSE Gen("TYPE_RULE", cil_type_rule_init, syntax,
                 <<Const("rule_kind", Val("transition"))>> \o first \o <<Str(IF star THEN 6 ELSE 5, "result_str")>>)
cil_gen_rangetransition ==
    Gen("RANGETRANSITION", cil_rangetransition_init, <<S, S, S, S, S \union L, END>>,
        <<Str(2, "src_str"), Str(3, "exec_str"), Str(4, "obj_str"), Anon(5, "range", "LEVELRANGE")>>)
cil_gen_sensitivity == Gen("SENS", cil_sens_init, <<S, S, END>>, <<Declare(2)>>)
cil_gen_category == Gen("CAT", cil_cat_init, <<S, S, END>>, <<Declare(2)>>)
cil_gen_catset == Gen("CATSET", cil_catset_init, <<S, S, L, END>>, <<Declare(2), Part(3, "cats", "CATS")>>)
cil_gen_senscat ==
    Gen("SENSCAT", cil_senscat_init, <<S, S, S \union L, END>>, <<Str(2, "sens_str"), Part(3, "cats", "CATS")>>)
cil_gen_level == Gen("LEVEL", cil_level_init, <<S, S, L, END>>, <<Declare(2), Fill(3)>>)
cil_gen_levelrange == Gen("LEVELRANGE", cil_levelrange_init, <<S, S, L, END>>, <<Declare(2), Fill(3)>>)
cil_gen_constrain(flavor) ==
    Gen(flavor, cil_constrain_init, <<S, S \union L, L, END>>, <<Classperms(2, "classperms"), ConstraintExpr(3, "str_expr")>>)
cil_gen_validatetrans(flavor) ==
    Gen(flavor, cil_validatetrans_init, <<S, S, L, END>>, <<Str(2, "class_str"), ConstraintExpr(3, "str_expr")>>)
cil_gen_context == Gen("CONTEXT", cil_context_init, <<S, S, L, END>>, <<Declare(2), Fill(3)>>)
FileTypes == {"any", "file", "dir", "char", "block", "socket", "pipe", "symlink"}
\* an empty context, or a list of one element, is no context
cil_gen_filecon(a) ==
    Gen("FILECON", cil_filecon_init, <<S, S, S, S \union L \union E, END>>,
        <<Str(2, "path_str"), DeclareString(2, "path"), Key(3, "type", FileTypes)>>
            \o IF Len(a) = 4 /\ a[4][1] = "l" /\ Len(a[4][2]) < 2 THEN <<>> ELSE <<Anon(4, "context", "CONTEXT")>>)
cil_gen_ibpkeycon ==
    Gen("IBPKEYCON", cil_ibpkeycon_init, <<S, S, S \union L, S \union L, END>>,
        <<Str(2, "subnet_prefix_str"), Ints(3, "pkey_low", "pkey_high"), Anon(4, "context", "CONTEXT")>>)
cil_gen_portcon ==
    Gen("PORTCON", cil_portcon_init, <<S, S, S \union L, S \union L, END>>,
        <<Key(2, "proto", {"udp", "tcp", "dccp", "sctp"}), Ints(3, "port_low", "port_high"), Anon(4, "context", "CONTEXT")>>)
cil_gen_nodecon ==
    Gen("NODECON", cil_nodecon_init, <<S, S \union L, S \union L, S \union L, END>>,
        <<Anon(2, "addr", "IPADDR"), Anon(3, "mask", "IPADDR"), Anon(4, "context", "CONTEXT")>>)
cil_gen_genfscon(a) ==
    Gen("GENFSCON", cil_genfscon_init, <<S, S, S, S \union L, S \union L \union END, END>>,
        <<Str(2, "fs_str"), Str(3, "path_str")>>
            \o IF Len(a) > 4
               THEN <<Key(4, "file_type", FileTypes), Anon(5, "context", "CONTEXT")>>
               ELSE <<Anon(4, "context", "CONTEXT")>>)
cil_gen_netifcon ==
    Gen("NETIFCON", cil_netifcon_init, <<S, S, S \union L, S \union L, END>>,
        <<Str(2, "interface_str"), Anon(3, "if_context", "CONTEXT"), Anon(4, "packet_context", "CONTEXT")>>)
cil_gen_ibendportcon ==
    Gen("IBENDPORTCON", cil_ibendportcon_init, <<S, S, S, S \union L, END>>,
        <<Str(2, "dev_name_str"), Integer(3, "port"), Anon(4, "context", "CONTEXT")>>)
cil_gen_pirqcon ==
    Gen("PIRQCON", cil_pirqcon_init, <<S, S, S \union L, END>>, <<Integer(2, "pirq"), Anon(3, "context", "CONTEXT")>>)
cil_gen_iomemcon ==
    Gen("IOMEMCON", cil_iomemcon_init, <<S, S \union L, S \union L, END>>,
        <<Ints(2, "iomem_low", "iomem_high"), Anon(3, "context", "CONTEXT")>>)
cil_gen_ioportcon ==
    Gen("IOPORTCON", cil_ioportcon_init, <<S, S \union L, S \union L, END>>,
        <<Ints(2, "ioport_low", "ioport_high"), Anon(3, "context", "CONTEXT")>>)
cil_gen_pcidevicecon ==
    Gen("PCIDEVICECON", cil_pcidevicecon_init, <<S, S, S \union L, END>>, <<Integer(2, "dev"), Anon(3, "context", "CONTEXT")>>)
cil_gen_devicetreecon ==
    Gen("DEVICETREECON", cil_devicetreecon_init, <<S, S, S \union L, END>>, <<Str(2, "path"), Anon(3, "context", "CONTEXT")>>)
cil_gen_fsuse ==
    Gen("FSUSE", cil_fsuse_init, <<S, S, S, S \union L, END>>,
        <<Key(2, "type", {"xattr", "task", "trans"}), Str(3, "fs_str"), Anon(4, "context", "CONTEXT")>>)
cil_gen_macro == Gen("MACRO", cil_macro_init, <<S, S, L \union E, NL \union END, END>>, <<Params(3, "params"), Declare(2)>>)
cil_gen_call(a) ==
    Gen("CALL", cil_call_init, <<S, S, L \union E \union END, END>>,
        <<Str(2, "macro_str")>> \o IF Len(a) > 2 THEN <<Part(3, "args_tree", "TREE")>> ELSE <<>>)
cil_gen_optional == Gen("OPTIONAL", cil_optional_init, <<S, S, NL \union END, END>>, <<Declare(2)>>)
cil_gen_policycap == Gen("POLICYCAP", cil_policycap_init, <<S, S, END>>, <<Declare(2)>>)
cil_gen_ipaddr == Gen("IPADDR", cil_ipaddr_init, <<S, S, S, END>>, <<Key(3, "ip", Addresses), Declare(2)>>)
cil_gen_bounds(flavor) ==
    Gen([USER |-> "USERBOUNDS", ROLE |-> "ROLEBOUNDS", TYPE |-> "TYPEBOUNDS"][flavor], cil_bounds_init, <<S, S, S, END>>,
        <<Str(2, "parent_str"), Str(3, "child_str")>>)
cil_gen_default(flavor) ==
    Gen(flavor, cil_default_init, <<S, S \union L, S, END>>,
        <<Const("flavor", Val(flavor)), StringOrList(2, "class_strs"), Key(3, "object", {"source", "target"})>>)
\* glblub stands alone, source and target take an end of the range
cil_gen_defaultrange(a) ==
    LET whole == Len(a) > 2 /\ a[3] = <<"s", "glblub">>
    IN  Gen("DEFAULTRANGE", cil_defaultrange_init, <<S, S \union L, S, S \union END, END>>,
            <<StringOrList(2, "class_strs")>>
                \o IF whole
                   THEN <<Key(3, "object_range", {"glblub"})>>
                   ELSE <<DefaultRange(3, "object_range")>>)
cil_gen_handleunknown ==
    Gen("HANDLEUNKNOWN", cil_handleunknown_init, <<S, S, END>>, <<Key(2, "handle_unknown", {"allow", "deny", "reject"})>>)
cil_gen_mls == Gen("MLS", cil_mls_init, <<S, S, END>>, <<Key(2, "value", {"true", "false"})>>)
cil_gen_src_info ==
    Gen("SRC_INFO", cil_src_info_init, <<S, S, S, S, NL \union END, END>>,
        <<Key(2, "kind", {"cil", "lms", "lmx"}), Integer(3, "hll_line"), Str(4, "path")>>)

-----------------------------------------------------------------------------
(* Expressions.  A built value comes with the heap it was built in.          *)

With(st, v) == [st |-> st, v |-> v]
\* cil_list_append of every item to a new list; of a failed one what it held is destroyed
ListOf(st, items) ==
    IF st.ok
    THEN LET s1 == Alloc(st, "LIST", "part", items) IN With(s1, Own(Last(s1)))
    ELSE With(DestroyItems(st, items, TRUE), NULL)

__cil_get_expr_operator_flavor(node) ==
    IF node[1] = "s" /\ node[2] \in {"and", "or", "not", "eq", "neq", "xor", "all", "range"} THEN node[2] ELSE "none"

cil_verify_expr_syntax(nodes, op, expr_flavor) ==
    LET operand == S \union L
    IN  CASE op = "not" -> __cil_verify_syntax(nodes, <<S, operand, END>>)
          [] op \in {"and", "or", "xor"} -> __cil_verify_syntax(nodes, <<S, operand, operand, END>>)
          [] op \in {"eq", "neq"} ->
                 expr_flavor \in {"BOOLEANIF", "TUNABLEIF"} /\ __cil_verify_syntax(nodes, <<S, operand, operand, END>>)
          [] op = "all" -> expr_flavor \notin {"BOOLEANIF", "TUNABLEIF"} /\ __cil_verify_syntax(nodes, <<S, END>>)
          [] op = "range" -> expr_flavor \in {"CATS", "PERMISSIONX"} /\ __cil_verify_syntax(nodes, <<S, S, S, END>>)
          [] op = "none" -> __cil_verify_syntax(nodes, <<NS \union NL, END>>)

RECURSIVE __cil_fill_expr(_, _, _), __cil_fill_expr_helper(_, _, _)
__cil_fill_expr(st, node, flavor) ==
    IF node[1] = "l" THEN __cil_fill_expr_helper(st, node[2], flavor)
    ELSE IF __cil_get_expr_operator_flavor(node) = "none" THEN With(st, Name(node[2]))
    ELSE With(Fail(st), NULL)
__cil_fill_expr_helper(st, nodes, flavor) ==
    LET op == __cil_get_expr_operator_flavor(nodes[1])
        operands == IF op = "none" THEN nodes ELSE Tail(nodes)
        filled[n \in 0..Len(operands)] ==
            IF n = 0 THEN With(st, IF op = "none" THEN <<>> ELSE <<Val(op)>>)
            ELSE IF ~filled[n - 1].st.ok THEN filled[n - 1]
            ELSE LET and(next) == With(next.st, IF next.st.ok THEN Append(filled[n - 1].v, next.v) ELSE filled[n - 1].v)
                 IN  and(__cil_fill_expr(filled[n - 1].st, operands[n], flavor))
        list(all) == ListOf(all.st, all.v)
    IN  IF cil_verify_expr_syntax(nodes, op, flavor) THEN list(filled[Len(operands)]) ELSE With(Fail(st), NULL)
cil_gen_expr(st, node, flavor) ==
    IF node[1] = "l"
    THEN __cil_fill_expr_helper(st, node[2], flavor)
    ELSE LET list(one) == ListOf(one.st, IF one.st.ok THEN <<one.v>> ELSE <<>>) IN list(__cil_fill_expr(st, node, flavor))

\* cil_fill_list: strings only
cil_fill_list(st, nodes) ==
    IF __cil_verify_syntax(nodes, <<NS, END>>)
    THEN ListOf(st, [k \in 1..Len(nodes) |-> Name(nodes[k][2])])
    ELSE With(Fail(st), NULL)

Operands(kinds, digits) == UNION {{k \o d : d \in digits} : k \in kinds}
__cil_get_constraint_operand_flavor(node) ==
    IF node[1] = "l" THEN "list"
    ELSE IF node[2] \in Operands({"t", "r", "u"}, {"1", "2", "3"}) \union Operands({"l", "h"}, {"1", "2"})
    THEN node[2] ELSE "string"

cil_verify_constraint_leaf_expr_syntax(l, r, op, expr_flavor) ==
    CASE r \in {"string", "list"} ->
             /\ l \notin {"l1", "l2", "h1", "h2"}
             /\ l \in {"u3", "r3", "t3"} => expr_flavor \in {"VALIDATETRANS", "MLSVALIDATETRANS"}
      [] r \in {"u1", "r1", "t1", "u3", "r3", "t3"} -> FALSE
      [] r = "u2" -> op \in {"eq", "neq"} /\ l = "u1"
      [] r = "r2" -> l = "r1"
      [] r = "t2" -> op \in {"eq", "neq"} /\ l = "t1"
      [] r = "l2" -> l \in {"l1", "h1"}
      [] r = "h2" -> l \in {"l1", "l2", "h1"}
      [] r = "h1" -> l = "l1"
      [] r = "l1" -> TRUE

cil_verify_constraint_expr_syntax(nodes, op) ==
    CASE op = "not" -> __cil_verify_syntax(nodes, <<S, L, END>>)
      [] op \in {"and", "or"} -> __cil_verify_syntax(nodes, <<S, L, L, END>>)
      [] op \in {"eq", "neq"} -> __cil_verify_syntax(nodes, <<S, S, S \union L, END>>)
      [] op \in {"dom", "domby", "incomp"} -> __cil_verify_syntax(nodes, <<S, S, S, END>>)
      [] OTHER -> FALSE

__cil_fill_constraint_leaf_expr(st, nodes, expr_flavor, op) ==
    LET l == __cil_get_constraint_operand_flavor(nodes[2])
        r == __cil_get_constraint_operand_flavor(nodes[3])
        list(right) == ListOf(right.st, <<Val(op), Val(l)>> \o IF right.st.ok THEN <<right.v>> ELSE <<>>)
    IN  IF l \in {"string", "list"} \/ ~cil_verify_constraint_leaf_expr_syntax(l, r, op, expr_flavor)
        THEN With(Fail(st), NULL)
        ELSE list(CASE r = "string" -> With(st, Name(nodes[3][2]))
                    [] r = "list" -> cil_fill_list(st, nodes[3][2])
                    [] OTHER -> With(st, Val(r)))

RECURSIVE __cil_fill_constraint_expr(_, _, _)
__cil_fill_constraint_expr(st, nodes, flavor) ==
    LET op == IF nodes[1][1] = "s" THEN nodes[1][2] ELSE "none"
        joined(left, right) ==
            IF right.st.ok THEN ListOf(right.st, <<Val(op), left.v, right.v>>)
            ELSE With(cil_list_destroy(right.st, left.v, TRUE), NULL)
        from(left) ==
            IF ~left.st.ok THEN left
            ELSE IF op = "not" THEN ListOf(left.st, <<Val(op), left.v>>)
            ELSE joined(left, __cil_fill_constraint_expr(left.st, nodes[3][2], flavor))
    IN  IF ~cil_verify_constraint_expr_syntax(nodes, op) THEN With(Fail(st), NULL)
        ELSE IF op \notin {"not", "and", "or"} THEN __cil_fill_constraint_leaf_expr(st, nodes, flavor, op)
        ELSE from(__cil_fill_constraint_expr(st, nodes[2][2], flavor))
cil_gen_constraint_expr(st, node, flavor) ==
    IF node[1] = "l" THEN __cil_fill_constraint_expr(st, node[2], flavor) ELSE With(Fail(st), NULL)

-----------------------------------------------------------------------------
(* The interpreter of the descriptions.                                      *)

InPlace == [LEVEL |-> cil_level_init, LEVELRANGE |-> cil_levelrange_init, CONTEXT |-> cil_context_init,
            PERMISSIONX |-> cil_permissionx_init, IPADDR |-> cil_ipaddr_init, CATS |-> cil_cats_init,
            TREE |-> [tree |-> NULL]]
FillOf(flavor, nodes) ==
    CASE flavor = "LEVEL" -> cil_fill_level(nodes)
      [] flavor = "LEVELRANGE" -> cil_fill_levelrange
      [] flavor = "CONTEXT" -> cil_fill_context
      [] flavor = "PERMISSIONX" -> cil_fill_permissionx
      [] flavor = "IPADDR" -> cil_fill_ipaddr

\* __cil_is_reserved_name: the operators of the expressions a name of the flavor may be used in
Reserved(flavor) ==
    LET all == {"and", "or", "not", "xor"}
    IN  CASE flavor \in {"BOOL", "TUNABLE"} -> all \union {"eq", "neq"}
          [] flavor \in {"PERM", "MAP_PERM", "USER", "USERATTRIBUTE", "ROLE", "ROLEATTRIBUTE"} -> all \union {"all"}
          [] flavor \in {"TYPE", "TYPEATTRIBUTE", "TYPEALIAS"} -> all \union {"all", "self", "notself", "other"}
          [] flavor \in {"CAT", "CATSET", "CATALIAS", "PERMISSIONX"} -> all \union {"all", "range"}
          [] flavor = "CLASS" -> {"unordered"}
          [] OTHER -> {}
\* cil_verify_name: the letters of a name are left out; a number is not a name
cil_verify_name(name, flavor) == name \notin Reserved(flavor) \union Numbers \union Addresses

\* cil_allow_multiple_decls, for a previous declaration of the same flavor
cil_allow_multiple_decls(flavor) ==
    flavor = "OPTIONAL" \/ (MultipleDecls /\ flavor \in {"TYPE", "TYPEATTRIBUTE", "ROLE"})

\* cil_gen_declared_string: the datum of a string, made when there is none, NULL for a parameter
cil_gen_declared_string(st, name) ==
    LET known == {k \in DOMAIN st.h : st.h[k].kind = "STRING" /\ st.h[k].f["datum"] = Name(name)}
    IN  IF name \in StringParams THEN With(st, NULL)
        ELSE IF known # {} THEN With(st, Ref(CHOOSE k \in known : TRUE))
        ELSE LET s1 == Alloc(st, "STRING", "outer", "datum" :> Name(name)) IN With(s1, Ref(Last(s1)))

\* cil_verify_conditional_blocks: true and false, each at most once
cil_verify_conditional_blocks(nodes) ==
    LET kind(k) == nodes[k][2][1]
    IN  /\ \A k \in DOMAIN nodes : kind(k) \in {<<"s", "true">>, <<"s", "false">>}
        /\ \A j, k \in DOMAIN nodes : j # k => kind(j) # kind(k)

ParamKinds == {"type", "role", "user", "sensitivity", "category", "catset", "level", "levelrange", "class", "ipaddr",
               "classmap", "classpermission", "boolean", "string", "name"}
\* the parameters of a macro: a kind, a name that is none of the names before it
MacroParams(st, nodes) ==
    LET legal(k) == /\ nodes[k][1] = "l" /\ __cil_verify_syntax(nodes[k][2], <<S, S, END>>)
                    /\ nodes[k][2][1][2] \in ParamKinds
                    /\ cil_verify_name(nodes[k][2][2][2], "PARAM")
                    /\ \A j \in 1..(k - 1) : nodes[j][2][2] # nodes[k][2][2]
        added[n \in 0..Len(nodes)] ==
            IF n = 0 THEN With(st, <<>>)
            ELSE IF ~added[n - 1].st.ok THEN added[n - 1]
            ELSE IF ~legal(n) THEN With(Fail(added[n - 1].st), added[n - 1].v)
            ELSE LET s1 == Alloc(added[n - 1].st, "PARAM", "part",
                                 [str |-> Name(nodes[n][2][2][2]), flavor |-> Val(nodes[n][2][1][2])])
                 IN  With(s1, Append(added[n - 1].v, Own(Last(s1))))
        list(all) == ListOf(all.st, all.v)
    IN  IF nodes = <<>> THEN With(st, NULL) ELSE list(added[Len(nodes)])

\* cil_gen_perm_nodes and cil_gen_perm: the permissions are numbered in the order they are listed
cil_gen_perm_nodes(st, id, nodes) ==
    LET flavor == IF st.h[id].kind = "MAP_CLASS" THEN "MAP_PERM" ELSE "PERM"
    IN  IF /\ \A k \in DOMAIN nodes : nodes[k][1] = "s" /\ cil_verify_name(nodes[k][2], flavor)
           /\ \A j, k \in DOMAIN nodes : j # k => nodes[j] # nodes[k]
           /\ st.h[id].kind = "MAP_CLASS" \/ Len(nodes) <= CIL_PERMS_PER_CLASS
        THEN [st EXCEPT !.h[id].f["num_perms"] = Num(Len(nodes)),
                        !.h[id].f["perms"] = <<"perms", [k \in DOMAIN nodes |-> <<nodes[k][2], k - 1>>]>>]
        ELSE Fail(st)

RECURSIVE Run(_, _, _, _), Step(_, _, _, _), Build(_, _, _, _), cil_fill_classperms_list(_, _)
\* what cannot be finished is destroyed, and what was declared before: the node then holds the first datum
Build(st, gen, nodes, holder) ==
    IF ~__cil_verify_syntax(nodes, gen.syntax) THEN With(Fail(st), NULL)
    ELSE LET new == Last(st) + 1
             again(s) == "datum" \in DOMAIN gen.init /\ Field(s, new, "datum") \in {Name(n) : n \in Taken}
             kept(s) == IF s.ok /\ ~again(s) THEN With(s, Own(new)) ELSE With(Destroy(s, new), NULL)
         IN  kept(Run(Alloc(st, gen.flavor, holder, gen.init), new, gen.steps, nodes))
Run(st, id, steps, nodes) ==
    IF steps = <<>> \/ ~st.ok THEN st ELSE Run(Step(st, id, Head(steps), nodes), id, Tail(steps), nodes)
Step(st, id, step, nodes) ==
    LET node == nodes[step.i]
        flavor == st.h[id].kind
        set(built) == IF built.st.ok THEN Put(built.st, id, step.f, built.v) ELSE built.st
        value == CASE step.do = "string" -> cil_gen_declared_string(st, node[2])
                   [] step.do = "expr" -> cil_gen_expr(st, node, flavor)
                   [] step.do = "cons" -> cil_gen_constraint_expr(st, node, flavor)
                   [] step.do = "strlist" /\ node[1] = "s" -> ListOf(st, <<Name(node[2])>>)
                   [] step.do = "strings" \/ (step.do = "strlist" /\ node[1] = "l") -> cil_fill_list(st, node[2])
                   [] step.do = "classperms" -> cil_fill_classperms_list(st, node)
                   [] step.do = "params" -> MacroParams(st, node[2])
        \* cil_*_init of an object in its field, and the steps that fill it
        new == Last(st) + 1
        held == Put(Alloc(st, step.flavor, "part", InPlace[step.flavor]), id, step.f, Own(new))
        filled(s, to, fill, from) ==
            IF __cil_verify_syntax(from, fill.syntax) THEN Run(s, to, fill.steps, from) ELSE Fail(s)
        inPlace(fill, from) == filled(held, new, fill, from)
        number(n, f, s) == IF n[1] = "s" /\ n[2] \in Numbers THEN Put(s, id, f, Val(n[2])) ELSE Fail(s)
    IN  CASE step.do = "const" -> Put(st, id, step.f, step.v)
          [] step.do = "str" -> Put(st, id, step.f, Name(node[2]))
          [] step.do = "key" ->
                 IF node[1] = "s" /\ node[2] \in step.keys THEN Put(st, id, step.f, Val(node[2])) ELSE Fail(st)
          [] step.do = "int" -> number(node, step.f, st)
          [] step.do = "ints" ->
                 IF node[1] = "s" THEN number(node, step.high, number(node, step.low, st))
                 ELSE IF Len(node[2]) = 2 THEN number(node[2][2], step.high, number(node[2][1], step.low, st))
                 ELSE Fail(st)
          [] step.do = "declare" ->
                 IF \/ ~cil_verify_name(node[2], flavor)
                    \/ node[2] \in Taken /\ ~cil_allow_multiple_decls(flavor)
                 THEN Fail(st) ELSE Put(st, id, "datum", Name(node[2]))
          [] step.do \in {"string", "expr", "cons", "strings", "strlist", "classperms", "params"} -> set(value)
          [] step.do = "unordered" ->
                 IF \A k \in DOMAIN node[2] :
                        node[2][k][2] = "unordered" => flavor = "CLASSORDER" /\ k = 1 /\ Len(node[2]) > 1
                 THEN st ELSE Fail(st)
          [] step.do = "anon" ->
                 IF node[1] = "s" /\ ~(step.flavor = "IPADDR" /\ node[2] \in Addresses)
                 THEN Put(st, id, step.f \o "_str", Name(node[2]))
                 ELSE LET from == IF node[1] = "l" THEN node[2] ELSE <<node>>
                      IN  inPlace(FillOf(step.flavor, from), from)
          [] step.do = "part" ->
                 inPlace(IF step.flavor = "CATS" THEN cil_fill_cats
                         ELSE Filling(<<S \union L \union E, END>>, <<Const("tree", <<"tree", node>>)>>), <<node>>)
          [] step.do = "fill" ->
                 filled(st, id, FillOf(flavor, node[2]), node[2])
          [] step.do = "perms" -> cil_gen_perm_nodes(st, id, node[2])
          [] step.do = "blocks" ->
                 IF cil_verify_conditional_blocks(SubSeq(nodes, step.i, Len(nodes))) THEN st ELSE Fail(st)
          [] step.do = "range" ->
                 IF /\ node[2] \in {"source", "target"}
                    /\ Len(nodes) > step.i /\ nodes[step.i + 1][2] \in {"low", "high", "low-high"}
                 THEN Put(st, id, step.f, Val(node[2] \o "_" \o nodes[step.i + 1][2])) ELSE Fail(st)
\* the name of a set, or a class and its permissions
cil_fill_classperms_list(st, node) ==
    LET list(entry) == ListOf(entry.st, IF entry.st.ok THEN <<entry.v>> ELSE <<>>)
        of(fill, nodes) == list(Build(st, fill, nodes, "part"))
    IN  IF node[1] = "l" /\ node[2][1][1] = "l" THEN With(Fail(st), NULL)
        ELSE of(IF node[1] = "s" THEN cil_fill_classperms_set ELSE cil_fill_classperms,
                IF node[1] = "s" THEN <<node>> ELSE node[2])

-----------------------------------------------------------------------------
(* Statements.                                                               *)

\* the keyword of every statement whose form does not depend on its arguments
Keywords ==
    ("<src_info>" :> cil_gen_src_info) @@
    [block |-> cil_gen_block("false"), blockinherit |-> cil_gen_blockinherit, blockabstract |-> cil_gen_blockabstract,
     class |-> cil_gen_class, classorder |-> cil_gen_ordered("CLASSORDER"), classmap |-> cil_gen_map_class,
     classmapping |-> cil_gen_classmapping, classpermission |-> cil_gen_classpermission,
     classpermissionset |-> cil_gen_classpermissionset, common |-> cil_gen_common, classcommon |-> cil_gen_classcommon,
     sid |-> cil_gen_sid, sidcontext |-> cil_gen_sidcontext, sidorder |-> cil_gen_ordered("SIDORDER"),
     user |-> cil_gen_user, userattribute |-> cil_gen_userattribute, userattributeset |-> cil_gen_userattributeset,
     userlevel |-> cil_gen_userlevel, userrange |-> cil_gen_userrange, userbounds |-> cil_gen_bounds("USER"),
     userprefix |-> cil_gen_userprefix, selinuxuser |-> cil_gen_selinuxuser,
     selinuxuserdefault |-> cil_gen_selinuxuserdefault, type |-> cil_gen_type, typeattribute |-> cil_gen_typeattribute,
     typeattributeset |-> cil_gen_typeattributeset, expandtypeattribute |-> cil_gen_expandtypeattribute,
     typealias |-> cil_gen_alias("TYPEALIAS"), typealiasactual |-> cil_gen_aliasactual("TYPEALIASACTUAL"),
     typebounds |-> cil_gen_bounds("TYPE"), typepermissive |-> cil_gen_typepermissive,
     rangetransition |-> cil_gen_rangetransition, role |-> cil_gen_role, userrole |-> cil_gen_userrole,
     roletype |-> cil_gen_roletype, roletransition |-> cil_gen_roletransition, roleallow |-> cil_gen_roleallow,
     roleattribute |-> cil_gen_roleattribute, roleattributeset |-> cil_gen_roleattributeset,
     rolebounds |-> cil_gen_bounds("ROLE"), boolean |-> cil_gen_bool, booleanif |-> cil_gen_boolif("0"),
     tunable |-> IF PreserveTunables THEN cil_gen_bool ELSE cil_gen_tunable,
     tunableif |-> IF PreserveTunables THEN cil_gen_boolif("1") ELSE cil_gen_tunif,
     true |-> cil_gen_condblock("CONDTRUE"), false |-> cil_gen_condblock("CONDFALSE"),
     allow |-> cil_gen_avrule("allow"), auditallow |-> cil_gen_avrule("auditallow"),
     dontaudit |-> cil_gen_avrule("dontaudit"), neverallow |-> cil_gen_avrule("neverallow"),
     allowx |-> cil_gen_avrulex("allow"), auditallowx |-> cil_gen_avrulex("auditallow"),
     dontauditx |-> cil_gen_avrulex("dontaudit"), neverallowx |-> cil_gen_avrulex("neverallow"),
     permissionx |-> cil_gen_permissionx, deny |-> cil_gen_deny_rule, typechange |-> cil_gen_type_rule("change"),
     typemember |-> cil_gen_type_rule("member"), sensitivity |-> cil_gen_sensitivity,
     sensitivityalias |-> cil_gen_alias("SENSALIAS"), sensitivityaliasactual |-> cil_gen_aliasactual("SENSALIASACTUAL"),
     category |-> cil_gen_category, categoryalias |-> cil_gen_alias("CATALIAS"),
     categoryaliasactual |-> cil_gen_aliasactual("CATALIASACTUAL"), categoryset |-> cil_gen_catset,
     categoryorder |-> cil_gen_ordered("CATORDER"), sensitivityorder |-> cil_gen_ordered("SENSITIVITYORDER"),
     sensitivitycategory |-> cil_gen_senscat, level |-> cil_gen_level, levelrange |-> cil_gen_levelrange,
     constrain |-> cil_gen_constrain("CONSTRAIN"), mlsconstrain |-> cil_gen_constrain("MLSCONSTRAIN"),
     validatetrans |-> cil_gen_validatetrans("VALIDATETRANS"),
     mlsvalidatetrans |-> cil_gen_validatetrans("MLSVALIDATETRANS"), context |-> cil_gen_context,
     ibpkeycon |-> cil_gen_ibpkeycon, ibendportcon |-> cil_gen_ibendportcon, portcon |-> cil_gen_portcon,
     nodecon |-> cil_gen_nodecon, netifcon |-> cil_gen_netifcon, pirqcon |-> cil_gen_pirqcon,
     iomemcon |-> cil_gen_iomemcon, ioportcon |-> cil_gen_ioportcon, pcidevicecon |-> cil_gen_pcidevicecon,
     devicetreecon |-> cil_gen_devicetreecon, fsuse |-> cil_gen_fsuse, macro |-> cil_gen_macro,
     policycap |-> cil_gen_policycap, optional |-> cil_gen_optional, ipaddr |-> cil_gen_ipaddr,
     defaultuser |-> cil_gen_default("DEFAULTUSER"), defaultrole |-> cil_gen_default("DEFAULTROLE"),
     defaulttype |-> cil_gen_default("DEFAULTTYPE"), handleunknown |-> cil_gen_handleunknown, mls |-> cil_gen_mls]

\* parse_statement: the cil_gen_* of the keyword
parse_statement(nodes) ==
    LET k == nodes[1][2]
    IN  CASE k = "in" -> cil_gen_in(nodes)
          [] k = "typetransition" -> cil_gen_typetransition(nodes)
          [] k = "filecon" -> cil_gen_filecon(nodes)
          [] k = "genfscon" -> cil_gen_genfscon(nodes)
          [] k = "call" -> cil_gen_call(nodes)
          [] k = "defaultrange" -> cil_gen_defaultrange(nodes)
          [] OTHER -> Keywords[k]

\* check_for_illegal_statement, in a policy version with conditional extended rules;
\* "after" is an in-statement that is merged after inheritance
check_for_illegal_statement(keyword, where) ==
    \/ where = "tunableif" /\ keyword = "tunable"
    \/ where \in {"in", "after"} /\ keyword \in {"tunable", "in"}
    \/ where = "after" /\ keyword \in {"blockinherit", "blockabstract"}
    \/ where = "macro" /\ keyword \in {"tunable", "in", "block", "blockinherit", "blockabstract", "macro"}
    \/ where = "optional" /\ keyword \in {"tunable", "in", "block", "blockabstract", "macro"}
    \/ /\ where = "booleanif"
       /\ keyword \notin {"tunableif", "call", "true", "false", "allow", "dontaudit", "auditallow", "typetransition",
                          "typechange", "typemember", "allowx", "dontauditx", "auditallowx"}

\* __cil_build_ast_node_helper: the object of a statement, or a failure; true and false stand in a conditional
__cil_build_ast_node_helper(st, nodes, where, holder) ==
    IF \/ check_for_illegal_statement(nodes[1][2], where)
       \/ nodes[1][2] \in {"true", "false"} /\ where \notin {"booleanif", "tunableif"}
    THEN With(Fail(st), NULL)
    ELSE Build(st, parse_statement(nodes), nodes, holder)
=============================================================================
