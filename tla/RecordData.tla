----------------------------- MODULE RecordData -----------------------------
(***************************************************************************)
(* The records of the local customisation interface (the _record.c files): *)
(* what a client builds, compares and hands to the policy.  A record owns  *)
(* copies of everything put into it, so it is a value here; a key is a     *)
(* record with the identifying fields only, and every comparison is stated *)
(* once for keys and records.  Strings are members of small sets, names    *)
(* numbers in the order of strcmp; the functions that parse, print and cut *)
(* them are CONSTANTS, with what the C library guarantees as assumptions.  *)
(***************************************************************************)
EXTENDS Integers, Sequences, FiniteSets, FiniteSetsExt

CONSTANTS NULL, Refused,
          ParseAddr,     \* inet_pton: strings of a protocol to their number
          PrintAddr,     \* inet_ntop
          ParsePrefix,   \* inet_pton, then the first eight bytes
          PrintPrefix,   \* the eight bytes, zeros, then inet_ntop
          Cut            \* names to their first IB_DEVICE_NAME_MAX - 1 bytes

\* What is printed parses back, and a name that was cut is short enough.
ASSUME PrintedParsesBack ==
    /\ DOMAIN ParseAddr = {0, 1}
    /\ \A p \in DOMAIN ParseAddr : \A s \in DOMAIN ParseAddr[p] :
           /\ ParseAddr[p][s] \in Int
           /\ PrintAddr[p][ParseAddr[p][s]] \in DOMAIN ParseAddr[p]
           /\ ParseAddr[p][PrintAddr[p][ParseAddr[p][s]]] = ParseAddr[p][s]
    /\ \A s \in DOMAIN ParsePrefix :
           /\ ParsePrefix[s] \in Int
           /\ PrintPrefix[ParsePrefix[s]] \in DOMAIN ParsePrefix
           /\ ParsePrefix[PrintPrefix[ParsePrefix[s]]] = ParsePrefix[s]
ASSUME CutOnce == \A n \in DOMAIN Cut : /\ Cut[n] \in DOMAIN Cut \cap Int
                                        /\ Cut[Cut[n]] = Cut[n]

SEPOL_PROTO_UDP == 0
SEPOL_PROTO_TCP == 1
SEPOL_PROTO_DCCP == 2
SEPOL_PROTO_SCTP == 3
SEPOL_PROTO_IP4 == 0
SEPOL_PROTO_IP6 == 1

\* The order of two sequences of numbers, as -1, 0 or 1.
Compare(a, b) ==
    LET differ == {i \in DOMAIN a : a[i] # b[i]}
    IN IF differ = {} THEN 0
       ELSE IF a[Min(differ)] < b[Min(differ)] THEN -1 ELSE 1

-----------------------------------------------------------------------------
(***************************************************************************)
(* context_record.c.  A context string is the sequence of its parts: it is *)
(* split at the first three colons, so that the MLS part keeps its own.    *)
(***************************************************************************)
ContextType == [user : Int, role : STRING, type : STRING, mls : STRING \cup {NULL}]
sepol_context_create == [user |-> NULL, role |-> NULL, type |-> NULL, mls |-> NULL]
sepol_context_set_user(c, s) == [c EXCEPT !.user = s]
sepol_context_set_role(c, s) == [c EXCEPT !.role = s]
sepol_context_set_type(c, s) == [c EXCEPT !.type = s]
sepol_context_set_mls(c, s) == [c EXCEPT !.mls = s]

NoContext == <<"<<none>>">>
sepol_context_from_string(str) ==
    IF str = NoContext THEN NULL
    ELSE IF Len(str) < 3 THEN Refused
    ELSE LET u == sepol_context_set_user(sepol_context_create, str[1])
             r == sepol_context_set_role(u, str[2])
             t == sepol_context_set_type(r, str[3])
         IN IF Len(str) = 3 THEN t ELSE sepol_context_set_mls(t, str[4])

sepol_context_to_string(c) ==
    <<c.user, c.role, c.type>> \o (IF c.mls = NULL THEN <<>> ELSE <<c.mls>>)

sepol_context_clone(c) ==
    IF c = NULL THEN NULL
    ELSE [sepol_context_create EXCEPT !.user = c.user, !.role = c.role,
                                      !.type = c.type, !.mls = c.mls]

-----------------------------------------------------------------------------
\* port_record.c
PortType == [low : Int, high : Int, proto : Int, con : ContextType]
sepol_port_create == [low |-> 0, high |-> 0, proto |-> SEPOL_PROTO_UDP, con |-> NULL]
sepol_port_set_range(p, low, high) == [p EXCEPT !.low = low, !.high = high]
sepol_port_set_proto(p, proto) == [p EXCEPT !.proto = proto]
sepol_port_set_con(p, con) == [p EXCEPT !.con = sepol_context_clone(con)]
sepol_port_key_create(low, high, proto) == [low |-> low, high |-> high, proto |-> proto]
sepol_port_key_extract(p) == sepol_port_key_create(p.low, p.high, p.proto)
sepol_port_compare(p, k) == Compare(<<p.low, p.high, p.proto>>, <<k.low, k.high, k.proto>>)
sepol_port_clone(p) ==
    [sepol_port_create EXCEPT !.low = p.low, !.high = p.high, !.proto = p.proto,
                              !.con = sepol_context_clone(p.con)]

\* iface_record.c
IfaceType == [name : Int, netif_con : ContextType, netmsg_con : ContextType]
sepol_iface_create == [name |-> NULL, netif_con |-> NULL, netmsg_con |-> NULL]
sepol_iface_set_name(i, name) == [i EXCEPT !.name = name]
sepol_iface_set_ifcon(i, con) == [i EXCEPT !.netif_con = sepol_context_clone(con)]
sepol_iface_set_msgcon(i, con) == [i EXCEPT !.netmsg_con = sepol_context_clone(con)]
sepol_iface_key_create(name) == [name |-> name]
sepol_iface_key_extract(i) == sepol_iface_key_create(i.name)
sepol_iface_compare(i, k) == Compare(<<i.name>>, <<k.name>>)
sepol_iface_clone(i) ==
    sepol_iface_set_msgcon(
        sepol_iface_set_ifcon(sepol_iface_set_name(sepol_iface_create, i.name), i.netif_con),
        i.netmsg_con)

-----------------------------------------------------------------------------
(***************************************************************************)
(* node_record.c.  An address is its length in bytes and the number that   *)
(* memcmp orders it by.                                                    *)
(***************************************************************************)
node_alloc_addr(proto) == IF proto = SEPOL_PROTO_IP4 THEN 4 ELSE 16
node_parse_addr(s, proto) ==
    IF proto \in DOMAIN ParseAddr /\ s \in DOMAIN ParseAddr[proto]
    THEN [sz |-> node_alloc_addr(proto), bytes |-> ParseAddr[proto][s]] ELSE Refused
node_expand_addr(a, proto) == PrintAddr[proto][a.bytes]

Addresses(proto) == {node_parse_addr(s, proto) : s \in DOMAIN ParseAddr[proto]}
NodeKeysOf(p) == [addr : Addresses(p), mask : Addresses(p), proto : {p}]
NodeTypeOf(p) == [addr : Addresses(p), mask : Addresses(p), proto : {p}, con : ContextType]
NodeType == NodeTypeOf(SEPOL_PROTO_IP4) \cup NodeTypeOf(SEPOL_PROTO_IP6)
sepol_node_create ==
    [addr |-> NULL, mask |-> NULL, proto |-> SEPOL_PROTO_IP4, con |-> NULL]
sepol_node_set_proto(n, proto) == [n EXCEPT !.proto = proto]
sepol_node_set_addr(n, proto, s) == [n EXCEPT !.addr = node_parse_addr(s, proto)]
sepol_node_set_mask(n, proto, s) == [n EXCEPT !.mask = node_parse_addr(s, proto)]
sepol_node_set_con(n, con) == [n EXCEPT !.con = sepol_context_clone(con)]
sepol_node_get_addr(n) == node_expand_addr(n.addr, n.proto)
sepol_node_get_mask(n) == node_expand_addr(n.mask, n.proto)
sepol_node_key_create(addr, mask, proto) ==
    [addr |-> node_parse_addr(addr, proto), mask |-> node_parse_addr(mask, proto),
     proto |-> proto]
sepol_node_key_extract(n) == [addr |-> n.addr, mask |-> n.mask, proto |-> n.proto]
sepol_node_compare(n, k) ==
    IF n.addr.sz < k.addr.sz \/ n.mask.sz < k.mask.sz THEN -1
    ELSE IF n.addr.sz > k.addr.sz \/ n.mask.sz > k.mask.sz THEN 1
    ELSE Compare(<<n.mask.bytes, n.addr.bytes>>, <<k.mask.bytes, k.addr.bytes>>)
sepol_node_clone(n) ==
    [sepol_node_create EXCEPT !.addr = n.addr, !.mask = n.mask, !.proto = n.proto,
                              !.con = sepol_context_clone(n.con)]

-----------------------------------------------------------------------------
\* ibpkey_record.c
ibpkey_parse_subnet_prefix(s) == IF s \in DOMAIN ParsePrefix THEN ParsePrefix[s] ELSE Refused
ibpkey_expand_subnet_prefix(prefix) == PrintPrefix[prefix]

Prefixes == {ParsePrefix[s] : s \in DOMAIN ParsePrefix}
IbpkeyType == [subnet_prefix : Prefixes, low : Int, high : Int, con : ContextType]
sepol_ibpkey_create == [subnet_prefix |-> 0, low |-> 0, high |-> 0, con |-> NULL]
sepol_ibpkey_set_range(p, low, high) == [p EXCEPT !.low = low, !.high = high]
sepol_ibpkey_set_subnet_prefix(p, s) ==
    [p EXCEPT !.subnet_prefix = ibpkey_parse_subnet_prefix(s)]
sepol_ibpkey_set_con(p, con) == [p EXCEPT !.con = sepol_context_clone(con)]
sepol_ibpkey_key_create(s, low, high) ==
    [subnet_prefix |-> ibpkey_parse_subnet_prefix(s), low |-> low, high |-> high]
\* The key is made from the printed prefix.
sepol_ibpkey_key_extract(p) ==
    sepol_ibpkey_key_create(ibpkey_expand_subnet_prefix(p.subnet_prefix), p.low, p.high)
sepol_ibpkey_compare(p, k) ==
    Compare(<<p.subnet_prefix, p.low, p.high>>, <<k.subnet_prefix, k.low, k.high>>)
sepol_ibpkey_clone(p) ==
    [sepol_ibpkey_create EXCEPT !.subnet_prefix = p.subnet_prefix, !.low = p.low,
                                !.high = p.high, !.con = sepol_context_clone(p.con)]

\* ibendport_record.c
CutNames == {Cut[n] : n \in DOMAIN Cut}
IbendportType == [ibdev_name : CutNames, port : Int, con : ContextType]
sepol_ibendport_create == [ibdev_name |-> NULL, port |-> 0, con |-> NULL]
sepol_ibendport_set_ibdev_name(e, name) == [e EXCEPT !.ibdev_name = Cut[name]]
sepol_ibendport_get_ibdev_name(e) == Cut[e.ibdev_name]
sepol_ibendport_set_port(e, port) == [e EXCEPT !.port = port]
sepol_ibendport_set_con(e, con) == [e EXCEPT !.con = sepol_context_clone(con)]
sepol_ibendport_key_create(name, port) == [ibdev_name |-> Cut[name], port |-> port]
sepol_ibendport_key_extract(e) == sepol_ibendport_key_create(e.ibdev_name, e.port)
sepol_ibendport_compare(e, k) == Compare(<<e.port, e.ibdev_name>>, <<k.port, k.ibdev_name>>)
sepol_ibendport_clone(e) ==
    [sepol_ibendport_create EXCEPT !.ibdev_name = Cut[e.ibdev_name], !.port = e.port,
                                   !.con = sepol_context_clone(e.con)]

-----------------------------------------------------------------------------
\* boolean_record.c
BoolType == [name : Int, value : Int]
sepol_bool_create == [name |-> NULL, value |-> 0]
sepol_bool_set_name(b, name) == [b EXCEPT !.name = name]
sepol_bool_set_value(b, value) == [b EXCEPT !.value = value]
sepol_bool_key_create(name) == [name |-> name]
sepol_bool_key_extract(b) == sepol_bool_key_create(b.name)
sepol_bool_compare(b, k) == Compare(<<b.name>>, <<k.name>>)
sepol_bool_clone(b) ==
    sepol_bool_set_value(sepol_bool_set_name(sepol_bool_create, b.name), b.value)

-----------------------------------------------------------------------------
(***************************************************************************)
(* user_record.c.  sepol_user_add_role adds a role once, set_roles takes   *)
(* the array as it is.  sepol_user_del_role moves the last role to the     *)
(* place of the one it deletes and goes on with the next place, so a       *)
(* duplicate that was moved stays.                                         *)
(***************************************************************************)
UserType == [name : Int, roles : Seq(STRING),
             mls_level : STRING \cup {NULL}, mls_range : STRING \cup {NULL}]
sepol_user_create ==
    [name |-> NULL, roles |-> <<>>, mls_level |-> NULL, mls_range |-> NULL]
sepol_user_set_name(u, name) == [u EXCEPT !.name = name]
sepol_user_set_mlslevel(u, s) == [u EXCEPT !.mls_level = s]
sepol_user_set_mlsrange(u, s) == [u EXCEPT !.mls_range = s]
sepol_user_has_role(u, role) == \E i \in DOMAIN u.roles : u.roles[i] = role
sepol_user_add_role(u, role) ==
    IF sepol_user_has_role(u, role) THEN u ELSE [u EXCEPT !.roles = Append(@, role)]
sepol_user_set_roles(u, roles) == [u EXCEPT !.roles = roles]

DeleteAt(roles, i) ==
    LET n == Len(roles) IN SubSeq([roles EXCEPT ![i] = roles[n]], 1, n - 1)
sepol_user_del_role(u, role) ==
    LET del[i \in 0 .. Len(u.roles)] ==
            IF i = 0 THEN u.roles
            ELSE IF i \in DOMAIN del[i - 1] /\ del[i - 1][i] = role
                 THEN DeleteAt(del[i - 1], i) ELSE del[i - 1]
    IN [u EXCEPT !.roles = del[Len(u.roles)]]

sepol_user_key_create(name) == [name |-> name]
sepol_user_key_extract(u) == sepol_user_key_create(u.name)
sepol_user_compare(u, k) == Compare(<<u.name>>, <<k.name>>)

\* The names at some places of a list, added one after the other.
AddRoles(u, names, places) ==
    LET add[i \in 0 .. Len(names)] ==
            IF i = 0 THEN u
            ELSE IF i \in places THEN sepol_user_add_role(add[i - 1], names[i])
            ELSE add[i - 1]
    IN add[Len(names)]
sepol_user_clone(u) ==
    [AddRoles(sepol_user_set_name(sepol_user_create, u.name), u.roles, DOMAIN u.roles)
        EXCEPT !.mls_level = u.mls_level, !.mls_range = u.mls_range]
=============================================================================
