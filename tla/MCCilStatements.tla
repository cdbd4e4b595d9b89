--------------------------- MODULE MCCilStatements ---------------------------
(* At least one well-formed statement of every keyword, and everything that  *)
(* differs from it in one node.  The names say what they stand for: t a type *)
(* or attribute, r a role, u a user, k a class, p a permission, s a          *)
(* sensitivity, c a category, lv, lr, cx, px, ip a named level, range,       *)
(* context, extended permission or address.                                  *)
EXTENDS CilStatements

N(name) == <<"s", name>>
P(nodes) == <<"l", nodes>>
Two(a, b) == P(<<N(a), N(b)>>)

MCTaken == {"dup"}
MCStringParams == {"str"}
MCNumbers == {"1", "2"}
MCAddresses == {"v4", "v6"}

Level == P(<<N("s"), Two("c1", "c2")>>)
Range == P(<<Level, N("lv")>>)
Context == P(<<N("u"), N("r"), N("t"), Range>>)
Classperm == P(<<N("k"), P(<<N("and"), N("p"), P(<<N("not"), N("p2")>>)>>)>>)
Permx == P(<<N("ioctl"), N("k"), Two("1", "2")>>)
Types == P(<<N("or"), N("t1"), Two("t2", "t3")>>)
Cons == P(<<N("and"), P(<<N("eq"), N("t1"), N("t")>>), P(<<N("neq"), N("r1"), Two("r", "r2")>>)>>)
Dom == P(<<N("not"), P(<<N("dom"), N("l1"), N("h2")>>)>>)
NamedContext == N("cx")

Declarations ==
    {<<N(k), N("new")>> : k \in {"type", "typeattribute", "typealias", "role", "roleattribute", "user", "userattribute", "sid",
                                 "sensitivity", "sensitivityalias", "category", "categoryalias", "classpermission", "policycap",
                                 "block", "optional"}}
    \union {<<N(k), N("dup")>> : k \in {"type", "optional", "user", "sid"}}
    \union {<<N("boolean"), N("new"), N("true")>>, <<N("tunable"), N("new"), N("false")>>, <<N("ipaddr"), N("new"), N("v4")>>,
            <<N("class"), N("new"), Two("p", "p2")>>, <<N("classmap"), N("new"), Two("p", "p2")>>,
            <<N("common"), N("new"), Two("p", "p2")>>, <<N("level"), N("new"), Level>>, <<N("levelrange"), N("new"), Range>>,
            <<N("context"), N("new"), Context>>, <<N("categoryset"), N("new"), P(<<N("range"), N("c1"), N("c2")>>)>>,
            <<N("permissionx"), N("new"), Permx>>,
            <<N("macro"), N("new"), P(<<Two("type", "x"), Two("string", "y")>>)>>}

Rules ==
    {<<N("allow"), N("t1"), N("t2"), Classperm>>, <<N("neverallow"), N("t1"), N("t2"), N("set")>>,
     <<N("dontaudit"), N("t1"), N("self"), Classperm>>, <<N("auditallow"), N("t1"), N("notself"), N("set")>>,
     <<N("allowx"), N("t1"), N("t2"), Permx>>, <<N("dontauditx"), N("t1"), N("t2"), N("px")>>,
     <<N("auditallowx"), N("t1"), N("t2"), N("px")>>, <<N("neverallowx"), N("t1"), N("other"), Permx>>,
     <<N("deny"), N("t1"), N("t2"), Classperm>>,
     <<N("typetransition"), N("t1"), N("t2"), N("k"), N("t3")>>, <<N("typetransition"), N("t1"), N("t2"), N("k"), N("*"), N("t3")>>,
     <<N("typetransition"), N("t1"), N("self"), N("k"), N("file"), N("t3")>>,
     <<N("typetransition"), N("t1"), N("t2"), N("k"), N("str"), N("t3")>>,
     <<N("typechange"), N("t1"), N("t2"), N("k"), N("t3")>>, <<N("typemember"), N("t1"), N("self"), N("k"), N("t3")>>,
     <<N("rangetransition"), N("t1"), N("t2"), N("k"), Range>>, <<N("rangetransition"), N("t1"), N("t2"), N("k"), N("lr")>>,
     <<N("roletransition"), N("r"), N("t1"), N("k"), N("r2")>>, <<N("roleallow"), N("r"), N("r2")>>,
     <<N("constrain"), Classperm, Cons>>, <<N("constrain"), N("set"), Cons>>, <<N("mlsconstrain"), Classperm, Dom>>,
     <<N("validatetrans"), N("k"), Cons>>, <<N("mlsvalidatetrans"), N("k"), Dom>>}

Uses ==
    {<<N("classpermissionset"), N("set"), Classperm>>, <<N("classmapping"), N("k"), N("p"), Classperm>>,
     <<N("classmapping"), N("k"), N("p"), N("set")>>, <<N("classcommon"), N("k"), N("com")>>,
     <<N("userattributeset"), N("u"), P(<<N("not"), N("u2")>>)>>, <<N("userlevel"), N("u"), Level>>, <<N("userlevel"), N("u"), N("lv")>>,
     <<N("userrange"), N("u"), Range>>, <<N("userrange"), N("u"), N("lr")>>, <<N("userbounds"), N("u"), N("u2")>>,
     <<N("userprefix"), N("u"), N("prefix")>>, <<N("selinuxuser"), N("name"), N("u"), Range>>,
     <<N("selinuxuserdefault"), N("u"), N("lr")>>, <<N("userrole"), N("u"), N("r")>>, <<N("roletype"), N("r"), N("t1")>>,
     <<N("roleattributeset"), N("r"), Two("r1", "r2")>>, <<N("rolebounds"), N("r"), N("r2")>>,
     <<N("typeattributeset"), N("t"), Types>>, <<N("typeattributeset"), N("t"), N("t1")>>,
     <<N("expandtypeattribute"), Two("t1", "t2"), N("true")>>, <<N("expandtypeattribute"), N("t1"), N("false")>>,
     <<N("typebounds"), N("t1"), N("t2")>>, <<N("typepermissive"), N("t1")>>,
     <<N("sensitivitycategory"), N("s"), P(<<N("range"), N("c1"), N("c2")>>)>>,
     <<N("categoryorder"), Two("c1", "c2")>>, <<N("sensitivityorder"), Two("s", "s2")>>, <<N("sidorder"), Two("sid", "sid2")>>,
     <<N("classorder"), Two("k", "k2")>>, <<N("classorder"), Two("unordered", "k2")>>,
     <<N("defaultuser"), N("k"), N("source")>>, <<N("defaultrole"), Two("k", "k2"), N("target")>>,
     <<N("defaulttype"), N("k"), N("target")>>, <<N("defaultrange"), N("k"), N("source"), N("low")>>,
     <<N("defaultrange"), Two("k", "k2"), N("glblub")>>,
     <<N("booleanif"), P(<<N("eq"), N("b"), N("b2")>>), P(<<N("true"), P(<<>>)>>), P(<<N("false"), P(<<>>)>>)>>,
     <<N("typealiasactual"), N("al"), N("t")>>, <<N("sensitivityaliasactual"), N("al"), N("s")>>,
     <<N("categoryaliasactual"), N("al"), N("c")>>,
     <<N("blockinherit"), N("blk")>>, <<N("blockabstract"), N("blk")>>, <<N("in"), N("blk"), P(<<>>)>>,
     <<N("in"), N("after"), N("blk"), P(<<>>)>>, <<N("call"), N("mac"), Two("t1", "t2")>>, <<N("call"), N("mac")>>,
     <<N("tunableif"), N("b"), P(<<N("true"), P(<<>>)>>)>>, <<N("handleunknown"), N("allow")>>, <<N("mls"), N("true")>>,
     <<N("<src_info>"), N("lms"), N("1"), N("path")>>}

Labels ==
    {<<N("sidcontext"), N("sid"), Context>>, <<N("sidcontext"), N("sid"), NamedContext>>,
     <<N("filecon"), N("path"), N("dir"), Context>>, <<N("filecon"), N("str"), N("file"), NamedContext>>,
     <<N("filecon"), N("path"), N("any"), P(<<>>)>>,
     <<N("ibpkeycon"), N("prefix"), Two("1", "2"), Context>>, <<N("ibendportcon"), N("dev"), N("1"), NamedContext>>,
     <<N("portcon"), N("tcp"), N("1"), Context>>, <<N("portcon"), N("udp"), Two("1", "2"), NamedContext>>,
     <<N("nodecon"), N("ip"), N("v4"), Context>>, <<N("nodecon"), P(<<N("v4")>>), P(<<N("v6")>>), NamedContext>>,
     <<N("genfscon"), N("fs"), N("path"), Context>>, <<N("genfscon"), N("fs"), N("path"), N("dir"), NamedContext>>,
     <<N("netifcon"), N("eth"), Context, NamedContext>>, <<N("pirqcon"), N("1"), NamedContext>>,
     <<N("iomemcon"), Two("1", "2"), NamedContext>>, <<N("ioportcon"), N("1"), Context>>,
     <<N("pcidevicecon"), N("1"), NamedContext>>, <<N("devicetreecon"), N("path"), NamedContext>>,
     <<N("fsuse"), N("xattr"), N("fs"), Context>>}
Good == Declarations \union Rules \union Uses \union Labels

\* a node with one place changed
RECURSIVE Mangled(_), MangledSeq(_)
MangledSeq(nodes) ==
    UNION {{[nodes EXCEPT ![k] = n] : n \in Mangled(nodes[k])} : k \in DOMAIN nodes}
Mangled(node) ==
    {N("and"), P(<<>>)} \union IF node[1] = "l" THEN {P(x) : x \in MangledSeq(node[2])} ELSE {}
Shortened(nodes) == SubSeq(nodes, 1, Len(nodes) - 1)
Bad == UNION {{<<nodes[1]>> \o rest : rest \in MangledSeq(Tail(nodes)) \union {Append(Tail(nodes), N("and")), Shortened(Tail(nodes))}} :
                  nodes \in Good}

RECURSIVE Leaves(_)
Leaves(node) == IF node[1] = "s" THEN {node[2]} ELSE UNION {Leaves(node[2][k]) : k \in DOMAIN node[2]}
Declarable == {"t", "t1", "t2", "t3", "r", "r1", "r2", "u", "u2", "k", "k2", "p", "p2", "s", "s2", "c1", "c2", "lv", "lr", "cx", "px",
               "ip", "sid", "sid2", "set", "com", "b", "b2"}
\* names that another flavor of the same table may have
Flavored == {"t", "t1", "t2", "t3", "r", "r1", "r2", "u", "u2", "k", "k2", "c1", "c2", "ip"}
Case(nodes, where, odd) == [nodes |-> nodes, where |-> where, odd |-> odd]
Plain == <<"", "plain">>
MCCases ==
    {Case(nodes, "block", odd) : nodes \in Good, odd \in {Plain}}
    \union UNION {{Case(nodes, "block", <<name, how>>) : name \in Declarable \intersect Leaves(P(Tail(nodes))),
                                                       how \in {"missing", "inner", "shadowed"}} : nodes \in Good}
    \union UNION {{Case(nodes, "block", <<name, "other">>) : name \in Flavored \intersect Leaves(P(Tail(nodes)))} : nodes \in Good}
    \union {Case(nodes, "root", Plain) : nodes \in Bad}
    \union {Case(nodes, where, Plain) : nodes \in Good, where \in {"booleanif", "tunableif", "macro", "in", "after"}}
\* flavors whose copy differs from the original
MCNotCopied == {"SIDCONTEXT", "GENFSCON", "CLASS", "MAP_CLASS", "COMMON", "ROLE"}
==============================================================================
