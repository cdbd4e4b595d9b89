----------------------------- MODULE MCRecords ------------------------------
(***************************************************************************)
(* A policy with the roles object_r, r and s (s dominates r), the types t  *)
(* (also known as `alias') and o, an attribute, and two loaded users:      *)
(* 1 has r, 2 has r and s.  Clients hand in records that are good, that    *)
(* name things the policy lacks, that are spelt in another way than the    *)
(* policy prints, and whose numbers do not fit their field.                *)
(***************************************************************************)
EXTENDS Records, TLC

MCParseAddr == (0 :> ("10.1" :> 1 @@ "10.0.0.1" :> 1 @@ "255.0" :> 2))
               @@ (1 :> ("::1" :> 1 @@ "0::1" :> 1 @@ "ff::" :> 2))
MCPrintAddr == (0 :> (1 :> "10.0.0.1" @@ 2 :> "255.0")) @@ (1 :> (1 :> "::1" @@ 2 :> "ff::"))
MCParsePrefix == "fe80::" :> 1 @@ "fe80::7" :> 1 @@ "fe81::" :> 2
MCPrintPrefix == 1 :> "fe80::" @@ 2 :> "fe81::"
MCCut == <<1, 2, 2>>

MCRoleNames == <<"object_r", "r", "s">>
MCDominates == <<{1}, {2}, {2, 3}>>
MCRoleTypes == <<{}, {1, 2}, {1}>>
MCTypeNames == <<"t", "o", "attr">>
MCTypeTable == "t" :> 1 @@ "alias" :> 1 @@ "o" :> 2 @@ "attr" :> 3
MCAttributes == {3}

Span(l, h) == [low |-> l, high |-> h]
MCMlsOf == "s0" :> Span(1, 1) @@ "s0-s0" :> Span(1, 1) @@ "s1" :> Span(2, 2)
           @@ "s0-s1" :> Span(1, 2)
MCMlsString == Span(1, 1) :> "s0" @@ Span(2, 2) :> "s1" @@ Span(1, 2) :> "s0-s1"

MCCondTruth == "c1" :> {{1}, {1, 2}} @@ "c2" :> {{1}, {2}}

-----------------------------------------------------------------------------
Object(m) == IF m THEN <<1, "object_r", "t", "s0">> ELSE <<1, "object_r", "t">>
Con(str) == sepol_context_from_string(str)

\* In a policy without MLS only the last two of these can be accepted.
Contexts == {Con(<<1, "r", "alias", "s0-s0">>),
             Con(<<2, "s", "t", "s0-s1">>),
             Con(<<3, "r", "o", "s0">>),
             Con(<<2, "r", "attr", "s0">>),
             Con(<<1, "object_r", "t">>),
             Con(<<3, "r", "alias">>)}
OneContext == {Con(<<1, "object_r", "o", "s1">>), Con(<<1, "r", "t">>)}

Port(low, high, proto, con) ==
    sepol_port_set_con(sepol_port_set_proto(
        sepol_port_set_range(sepol_port_create, low, high), proto), con)
MCPortData == {Port(0, 1, SEPOL_PROTO_TCP, c) : c \in Contexts}
              \cup {Port(r[1], r[2], p, c) : r \in {<<1, 4>>, <<1, 5>>, <<0, 1>>},
                                             p \in {SEPOL_PROTO_SCTP, 4}, c \in OneContext}

Node(proto, addr, mask, con) ==
    sepol_node_set_con(sepol_node_set_mask(sepol_node_set_addr(
        sepol_node_set_proto(sepol_node_create, proto), proto, addr), proto, mask), con)
MCNodeData == {Node(SEPOL_PROTO_IP4, a, "255.0", c) : a \in {"10.1", "10.0.0.1"}, c \in OneContext}
              \cup {Node(SEPOL_PROTO_IP6, "0::1", "ff::", c) : c \in OneContext}
              \cup {Node(SEPOL_PROTO_IP4, "255.0", "255.0", c) : c \in OneContext}

Iface(name, ifcon, msgcon) ==
    sepol_iface_set_msgcon(sepol_iface_set_ifcon(
        sepol_iface_set_name(sepol_iface_create, name), ifcon), msgcon)
MCIfaceData == {Iface(n, c, d) : n \in {1, 2, 3}, c \in OneContext, d \in OneContext}

Ibpkey(prefix, low, high, con) ==
    sepol_ibpkey_set_con(sepol_ibpkey_set_range(
        sepol_ibpkey_set_subnet_prefix(sepol_ibpkey_create, prefix), low, high), con)
MCIbpkeyData == {Ibpkey(p, 0, 1, c) : p \in {"fe80::7", "fe81::"}, c \in OneContext}
                \cup {Ibpkey("fe80::", 0, h, c) : h \in {4, 5}, c \in OneContext}

Ibendport(name, port, con) ==
    sepol_ibendport_set_con(sepol_ibendport_set_port(
        sepol_ibendport_set_ibdev_name(sepol_ibendport_create, name), port), con)
MCIbendportData == {Ibendport(n, p, c) : n \in {1, 2, 3}, p \in {1, 3}, c \in OneContext}

Bool(name, value) == sepol_bool_set_value(sepol_bool_set_name(sepol_bool_create, name), value)
MCBoolData == {Bool(n, v) : n \in {1, 2}, v \in {0, 1, 2}} \cup {Bool(3, 1)}

User(name, roles) == sepol_user_set_roles(sepol_user_set_name(sepol_user_create, name), roles)
Leveled(u, level, range) == sepol_user_set_mlsrange(sepol_user_set_mlslevel(u, level), range)
MCUserData == {Leveled(User(n, <<"s", "s">>), "s0-s0", "s0-s1") : n \in {2, 3}}
              \cup {Leveled(User(n, <<"r", "x">>), "s0", "s0") : n \in {2, 3}}
              \cup {Leveled(User(2, <<"r">>), "s0", "s9"), sepol_user_set_mlsrange(User(3, <<"r">>), "s0"),
                    User(2, <<"s">>), User(3, <<"r", "s">>), User(3, <<"s", "x">>)}

Loaded(name, roles, m) ==
    [name |-> name, roles |-> roles, cache |-> roles,
     level |-> IF m THEN 1 ELSE 0, range |-> IF m THEN Span(1, 2) ELSE NoRange]
MCLoadedUsers == [m \in BOOLEAN |-> <<Loaded(1, {2}, m), Loaded(2, {2, 3}, m)>>]
MCLoadedBools == <<[name |-> 2, state |-> 0], [name |-> 1, state |-> 1]>>
MCLoadedIfaces == [m \in BOOLEAN |-> <<Iface(1, Con(Object(m)), Con(Object(m))),
                                       Iface(2, Con(Object(m)), Con(Object(m)))>>]
MCLoadedPorts == [m \in BOOLEAN |-> <<Port(0, 1, SEPOL_PROTO_TCP, Con(Object(m)))>>]
=============================================================================
