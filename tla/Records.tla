------------------------------ MODULE Records -------------------------------
(***************************************************************************)
(* The local customisation interface of a policy: users, booleans, ports,  *)
(* nodes, interfaces, InfiniBand keys and end ports can be counted, looked *)
(* up, visited and modified through records (users.c, booleans.c, ports.c, *)
(* nodes.c, interfaces.c, ibpkeys.c, ibendports.c, context.c).             *)
(*                                                                         *)
(* An object context list is a sequence, its head first.  The hash table   *)
(* of users, p_user_val_to_name and user_val_to_struct are one sequence    *)
(* indexed by the value of a user; so are those of booleans.  Roles and    *)
(* types do not change: they are sequences of names, and a type name may   *)
(* be an alias.  A level is a number (category sets are left out); an MLS  *)
(* string may spell a range in several ways and is printed in one.         *)
(* Allocations succeed, the tables of users and booleans have no gaps (so  *)
(* that users.c:28 never refuses), a record has its contexts set, and the  *)
(* key handed to a modify function is the one extracted from the record.   *)
(***************************************************************************)
EXTENDS RecordData

CONSTANTS RoleNames, Dominates, RoleTypes,  \* roles: names, dominates, cache
          TypeNames, TypeTable, Attributes, \* types: names, table, attributes
          MlsOf, MlsString,                 \* MLS strings to ranges and back
          CondTruth,                        \* conditionals: when they hold
          PortLimit, EndportLimit,          \* stored numbers are below these
          PortData, NodeData, IfaceData, IbpkeyData, IbendportData,
          BoolData, UserData,               \* records that clients hand in
          LoadedUsers, LoadedBools, LoadedIfaces, LoadedPorts, \* the policy
          MaxCalls,                         \* bound: calls that may modify
          Unknown                           \* what is read before an array

MlsRange == [low : Nat, high : Nat]
NoRange == [low |-> 0, high |-> 0]
Point(level) == [low |-> level, high |-> level]
Injective(list) == \A i, j \in DOMAIN list : list[i] = list[j] => i = j

ASSUME LimitsPositive == PortLimit \in Nat \ {0} /\ EndportLimit \in Nat \ {0}
ASSUME RolesAssumption ==
    /\ RoleNames \in Seq(STRING) /\ Injective(RoleNames)
    /\ Dominates \in [DOMAIN RoleNames -> SUBSET DOMAIN RoleNames]
ASSUME TypesAssumption ==
    /\ TypeTable \in [DOMAIN TypeTable -> DOMAIN TypeNames]
    /\ \A t \in DOMAIN TypeNames : TypeTable[TypeNames[t]] = t
\* Every range that parses, and its lowest level, can be printed.
ASSUME MlsPrintedParsesBack ==
    /\ MlsOf \in [DOMAIN MlsOf -> MlsRange]
    /\ MlsString \in [DOMAIN MlsString -> STRING]
    /\ \A s \in DOMAIN MlsOf : /\ {MlsOf[s], Point(MlsOf[s].low)} \subseteq DOMAIN MlsString
                               /\ MlsOf[MlsString[MlsOf[s]]] = MlsOf[s]

\* Records as the functions of RecordData build them.
ASSUME DataAssumption ==
    /\ PortData \subseteq PortType /\ NodeData \subseteq NodeType
    /\ IfaceData \subseteq IfaceType /\ IbpkeyData \subseteq IbpkeyType
    /\ IbendportData \subseteq IbendportType
    /\ BoolData \subseteq BoolType /\ UserData \subseteq UserType
    /\ Unknown \notin STRING \cup {NULL}

\* A user: its roles, its cache of the roles they dominate, level and range.
UserDatum == [name : Int, roles : SUBSET DOMAIN RoleNames, cache : SUBSET DOMAIN RoleNames,
              level : Nat, range : MlsRange]
BoolDatum == [name : Int, state : {0, 1}]
Names(table) == [i \in DOMAIN table |-> table[i].name]
ASSUME LoadedAssumption ==
    /\ LoadedBools \in Seq(BoolDatum) /\ Injective(Names(LoadedBools))
    /\ \A m \in BOOLEAN :
           /\ LoadedUsers[m] \in Seq(UserDatum) /\ Injective(Names(LoadedUsers[m]))
           /\ \A i \in DOMAIN LoadedUsers[m] :
                  LET u == LoadedUsers[m][i] IN
                  /\ u.cache = u.roles
                  /\ m => /\ u.range # NoRange
                          /\ {u.range, Point(u.level)} \subseteq DOMAIN MlsString
           /\ LoadedPorts[m] \in Seq(PortType)
           /\ LoadedIfaces[m] \in Seq(IfaceType) /\ Injective(Names(LoadedIfaces[m]))

VARIABLES mls,     \* policydb.mls
          users,   \* p_users with its reverse lookup arrays
          bools,   \* p_bools
          conds,   \* the states of the conditionals
          ocon,    \* the object context lists
          ret,     \* what the last call returned
          last,    \* history: the answer expected for each key
          calls

vars == <<mls, users, bools, conds, ocon, ret, last, calls>>

\* The value of a name in a table, 0 when it is not there.
ValueIn(names, name) ==
    IF \E i \in DOMAIN names : names[i] = name
    THEN CHOOSE i \in DOMAIN names : names[i] = name ELSE 0
Narrow(n, limit) == n % limit
OBJECT_R_VAL == 1

-----------------------------------------------------------------------------
(***************************************************************************)
(* Contexts (context.c, mls.c).                                            *)
(***************************************************************************)
mls_from_string(s) == IF s \in DOMAIN MlsOf THEN MlsOf[s] ELSE NoRange
mls_to_string(r) == MlsString[r]

mls_context_isvalid(c) ==
    mls => /\ c.range.low # 0 /\ c.range.low <= c.range.high
           /\ \/ c.role = OBJECT_R_VAL
              \/ /\ users[c.user].range.low <= c.range.low
                 /\ c.range.high <= users[c.user].range.high

context_is_valid(c) ==
    /\ c.role # OBJECT_R_VAL => /\ c.type \in RoleTypes[c.role]
                                /\ c.role \in users[c.user].cache
    /\ mls_context_isvalid(c)

context_from_record(con) ==
    LET c == [user |-> ValueIn(Names(users), con.user),
              role |-> ValueIn(RoleNames, con.role),
              type |-> IF con.type \in DOMAIN TypeTable THEN TypeTable[con.type] ELSE 0,
              range |-> IF con.mls = NULL THEN NoRange ELSE mls_from_string(con.mls)]
    IN IF /\ c.user # 0 /\ c.role # 0
          /\ c.type # 0 /\ c.type \notin Attributes
          /\ mls = (con.mls # NULL)
          /\ mls => c.range # NoRange
          /\ context_is_valid(c)
       THEN c ELSE Refused

context_to_record(c) ==
    [user |-> users[c.user].name, role |-> RoleNames[c.role], type |-> TypeNames[c.type],
     mls |-> IF mls THEN mls_to_string(c.range) ELSE NULL]

-----------------------------------------------------------------------------
(***************************************************************************)
(* What the operations have in common.  A lookup takes the first entry     *)
(* that matches; a handler returns 0 until its call number h.stop, where   *)
(* it returns h.status: 1 to leave the loop, -1 to fail.                   *)
(***************************************************************************)
Entry(key, con) == IF con = Refused THEN Refused ELSE [key |-> key, con |-> con]
First(list, key) ==
    LET hits == {i \in DOMAIN list : list[i].key = key} IN IF hits = {} THEN 0 ELSE Min(hits)
Visit(records, h) ==
    IF h.stop \in DOMAIN records
    THEN [ok |-> h.status >= 0, seen |-> SubSeq(records, 1, h.stop)]
    ELSE [ok |-> TRUE, seen |-> records]

-----------------------------------------------------------------------------
(***************************************************************************)
(* Ports.  The range is narrowed when it is stored and compared as it is   *)
(* in the key.                                                             *)
(***************************************************************************)
IpProto == <<17, 6, 33, 132>>  \* UDP, TCP, DCCP, SCTP
sepol2ipproto(proto) == IF proto + 1 \in DOMAIN IpProto THEN IpProto[proto + 1] ELSE -1
ipproto2sepol(ip) == ValueIn(IpProto, ip) - 1

PortEntryKey(k) == [protocol |-> sepol2ipproto(k.proto), low |-> k.low, high |-> k.high]
port_from_record(data) ==
    LET key == [protocol |-> sepol2ipproto(data.proto),
                low |-> Narrow(data.low, PortLimit), high |-> Narrow(data.high, PortLimit)]
    IN IF key.protocol < 0 \/ key.low > key.high THEN Refused
       ELSE Entry(key, context_from_record(data.con))
port_to_record(e) ==
    sepol_port_set_con(
        sepol_port_set_range(
            sepol_port_set_proto(sepol_port_create, ipproto2sepol(e.key.protocol)),
            e.key.low, e.key.high),
        context_to_record(e.con))

PortRecords == [i \in DOMAIN ocon.port |-> port_to_record(ocon.port[i])]
sepol_port_count == Len(ocon.port)
sepol_port_exists(k) ==
    IF sepol2ipproto(k.proto) < 0 THEN Refused ELSE First(ocon.port, PortEntryKey(k)) # 0
sepol_port_query(k) ==
    IF sepol2ipproto(k.proto) < 0 THEN Refused
    ELSE IF First(ocon.port, PortEntryKey(k)) = 0 THEN NULL
    ELSE PortRecords[First(ocon.port, PortEntryKey(k))]
sepol_port_iterate(h) == Visit(PortRecords, h)

(***************************************************************************)
(* Nodes.  Each protocol has its own list.  The handler that leaves the    *)
(* first loop is called again by the second.                               *)
(***************************************************************************)
NodeList(proto) == IF proto = SEPOL_PROTO_IP4 THEN ocon.node ELSE ocon.node6
NodeEntryKey(k) == [addr |-> k.addr.bytes, mask |-> k.mask.bytes]
node_from_record(data) == Entry(NodeEntryKey(data), context_from_record(data.con))
node_to_record(e, proto) ==
    LET sized(n) == [sz |-> node_alloc_addr(proto), bytes |-> n]
        n == [sepol_node_set_proto(sepol_node_create, proto)
                EXCEPT !.addr = sized(e.key.addr), !.mask = sized(e.key.mask)]
    IN sepol_node_set_con(n, context_to_record(e.con))

NodeRecords(proto) ==
    [i \in DOMAIN NodeList(proto) |-> node_to_record(NodeList(proto)[i], proto)]
sepol_node_count == Len(ocon.node) + Len(ocon.node6)
sepol_node_exists(k) == First(NodeList(k.proto), NodeEntryKey(k)) # 0
sepol_node_query(k) ==
    IF First(NodeList(k.proto), NodeEntryKey(k)) = 0 THEN NULL
    ELSE NodeRecords(k.proto)[First(NodeList(k.proto), NodeEntryKey(k))]
sepol_node_iterate(h) ==
    LET ip4 == Visit(NodeRecords(SEPOL_PROTO_IP4), h)
        ip6 == Visit(NodeRecords(SEPOL_PROTO_IP6), [h EXCEPT !.stop = @ - Len(ip4.seen)])
    IN IF ~ip4.ok THEN ip4 ELSE [ok |-> ip6.ok, seen |-> ip4.seen \o ip6.seen]

\* Interfaces: the only object contexts that are replaced.
iface_from_record(data) ==
    LET ifcon == context_from_record(data.netif_con)
        msgcon == context_from_record(data.netmsg_con)
    IN IF ifcon = Refused \/ msgcon = Refused THEN Refused
       ELSE [key |-> data.name, con |-> ifcon, msgcon |-> msgcon]
iface_to_record(e) ==
    sepol_iface_set_msgcon(
        sepol_iface_set_ifcon(sepol_iface_set_name(sepol_iface_create, e.key),
                              context_to_record(e.con)),
        context_to_record(e.msgcon))

IfaceRecords == [i \in DOMAIN ocon.netif |-> iface_to_record(ocon.netif[i])]
sepol_iface_count == Len(ocon.netif)
sepol_iface_exists(k) == First(ocon.netif, k.name) # 0
sepol_iface_query(k) ==
    IF First(ocon.netif, k.name) = 0 THEN NULL ELSE IfaceRecords[First(ocon.netif, k.name)]
sepol_iface_iterate(h) == Visit(IfaceRecords, h)

\* InfiniBand keys.
ibpkey_from_record(data) ==
    LET key == [subnet_prefix |-> data.subnet_prefix,
                low |-> Narrow(data.low, PortLimit), high |-> Narrow(data.high, PortLimit)]
    IN IF key.low > key.high THEN Refused ELSE Entry(key, context_from_record(data.con))
ibpkey_to_record(e) ==
    sepol_ibpkey_set_con(
        sepol_ibpkey_set_range([sepol_ibpkey_create EXCEPT !.subnet_prefix = e.key.subnet_prefix],
                               e.key.low, e.key.high),
        context_to_record(e.con))

IbpkeyRecords == [i \in DOMAIN ocon.ibpkey |-> ibpkey_to_record(ocon.ibpkey[i])]
sepol_ibpkey_count == Len(ocon.ibpkey)
sepol_ibpkey_exists(k) == First(ocon.ibpkey, k) # 0
sepol_ibpkey_query(k) ==
    IF First(ocon.ibpkey, k) = 0 THEN NULL ELSE IbpkeyRecords[First(ocon.ibpkey, k)]
sepol_ibpkey_iterate(h) == Visit(IbpkeyRecords, h)

\* InfiniBand end ports.
ibendport_from_record(data) ==
    Entry([ibdev_name |-> sepol_ibendport_get_ibdev_name(data),
           port |-> Narrow(data.port, EndportLimit)], context_from_record(data.con))
ibendport_to_record(e) ==
    sepol_ibendport_set_con(
        sepol_ibendport_set_port(
            sepol_ibendport_set_ibdev_name(sepol_ibendport_create, e.key.ibdev_name),
            e.key.port),
        context_to_record(e.con))

IbendportRecords == [i \in DOMAIN ocon.ibendport |-> ibendport_to_record(ocon.ibendport[i])]
sepol_ibendport_count == Len(ocon.ibendport)
sepol_ibendport_exists(k) == First(ocon.ibendport, k) # 0
sepol_ibendport_query(k) ==
    IF First(ocon.ibendport, k) = 0 THEN NULL ELSE IbendportRecords[First(ocon.ibendport, k)]
sepol_ibendport_iterate(h) == Visit(IbendportRecords, h)

-----------------------------------------------------------------------------
\* Booleans.
bool_to_record(i) ==
    sepol_bool_set_value(sepol_bool_set_name(sepol_bool_create, bools[i].name), bools[i].state)
BoolRecords == [i \in DOMAIN bools |-> bool_to_record(i)]
sepol_bool_count == Len(bools)
sepol_bool_exists(k) == ValueIn(Names(bools), k.name) # 0
sepol_bool_query(k) ==
    IF ValueIn(Names(bools), k.name) = 0 THEN NULL
    ELSE bool_to_record(ValueIn(Names(bools), k.name))
sepol_bool_iterate(h) == Visit(BoolRecords, h)

\* The states evaluate_conds gives the conditionals.
evaluate_conds(bs) ==
    [c \in DOMAIN CondTruth |-> {bs[i].name : i \in {j \in DOMAIN bs : bs[j].state = 1}}
                                  \in CondTruth[c]]

(***************************************************************************)
(* Users.  A user whose modification was refused midway has no range; in   *)
(* an MLS policy its range names sensitivity 0, which is looked up before  *)
(* the start of p_sens_val_to_name, and the MLS strings may be anything.   *)
(***************************************************************************)
Whole(u) == mls => u.range # NoRange
user_to_record(i) ==
    LET u == users[i]
        named == AddRoles(sepol_user_set_name(sepol_user_create, u.name), RoleNames, u.roles)
        Printed(r) == IF Whole(u) THEN mls_to_string(r) ELSE Unknown
    IN IF ~mls THEN named
       ELSE sepol_user_set_mlsrange(
                sepol_user_set_mlslevel(named, Printed(Point(u.level))), Printed(u.range))

UserRecords == [i \in DOMAIN users |-> user_to_record(i)]
sepol_user_count == Len(users)
sepol_user_exists(k) == ValueIn(Names(users), k.name) # 0
sepol_user_query(k) ==
    IF ValueIn(Names(users), k.name) = 0 THEN NULL
    ELSE user_to_record(ValueIn(Names(users), k.name))
sepol_user_iterate(h) == Visit(UserRecords, h)
-----------------------------------------------------------------------------
(***************************************************************************)
(* What clients may expect of an answer: the record as it was handed in,   *)
(* with the primary name of its type, the printed form of its MLS strings, *)
(* its numbers as wide as the policy stores them and every role its roles  *)
(* dominate, in the order of their values.                                 *)
(***************************************************************************)
SaidContext(con) ==
    [con EXCEPT !.type = TypeNames[TypeTable[@]],
                !.mls = IF @ = NULL THEN NULL ELSE MlsString[MlsOf[@]]]
SaidPort(d) ==
    [d EXCEPT !.low = Narrow(@, PortLimit), !.high = Narrow(@, PortLimit), !.con = SaidContext(@)]
SaidNode(d) == [d EXCEPT !.con = SaidContext(@)]
SaidIface(d) == [d EXCEPT !.netif_con = SaidContext(@), !.netmsg_con = SaidContext(@)]
SaidIbendport(d) == [d EXCEPT !.port = Narrow(@, EndportLimit), !.con = SaidContext(@)]
Dominated(roles) ==
    UNION {Dominates[ValueIn(RoleNames, roles[i])] : i \in DOMAIN roles}
SaidRoles(roles) ==
    LET all == Dominated(roles)
    IN [i \in 1 .. Cardinality(all) |->
            RoleNames[CHOOSE r \in all : Cardinality({q \in all : q <= r}) = i]]
SaidUser(d) ==
    [d EXCEPT !.roles = SaidRoles(@),
              !.mls_level = IF @ = NULL THEN NULL
                            ELSE MlsString[Point(MlsOf[@].low)],
              !.mls_range = IF @ = NULL THEN NULL ELSE MlsString[MlsOf[@]]]
\* Of a user left half filled: its name and the roles it was given.
HalfUser(name, roles) ==
    [name |-> name, roles |-> SaidRoles(roles), mls_level |-> Unknown, mls_range |-> Unknown]
HalfFilled(k) == k \in DOMAIN last.user /\ last.user[k].mls_range = Unknown

Put(f, k, v) == [x \in DOMAIN f \cup {k} |-> IF x = k THEN v ELSE f[x]]
\* What is said of a list of records: for each key the first one.
Said(records, Key(_)) ==
    [k \in {Key(records[i]) : i \in DOMAIN records} |->
        records[Min({i \in DOMAIN records : Key(records[i]) = k})]]

\* The policy that is loaded has valid contexts.
Init ==
    /\ mls \in BOOLEAN
    /\ users = LoadedUsers[mls]
    /\ bools = LoadedBools
    /\ conds = evaluate_conds(bools)
    /\ ocon = [port |-> [i \in DOMAIN LoadedPorts[mls] |-> port_from_record(LoadedPorts[mls][i])],
               netif |-> [i \in DOMAIN LoadedIfaces[mls] |-> iface_from_record(LoadedIfaces[mls][i])],
               node |-> <<>>, node6 |-> <<>>, ibpkey |-> <<>>, ibendport |-> <<>>]
    /\ \A i \in DOMAIN ocon.port : ocon.port[i] # Refused
    /\ \A i \in DOMAIN ocon.netif : ocon.netif[i] # Refused
    /\ ret = "STATUS_SUCCESS"
    /\ last = [port |-> Said([i \in DOMAIN LoadedPorts[mls] |-> SaidPort(LoadedPorts[mls][i])],
                             sepol_port_key_extract),
               iface |-> Said([i \in DOMAIN LoadedIfaces[mls] |-> SaidIface(LoadedIfaces[mls][i])],
                              sepol_iface_key_extract),
               bool |-> Said([i \in DOMAIN bools |-> sepol_bool_clone(bool_to_record(i))],
                             sepol_bool_key_extract),
               user |-> Said([i \in DOMAIN users |-> sepol_user_clone(user_to_record(i))],
                             sepol_user_key_extract),
               node |-> <<>>, ibpkey |-> <<>>, ibendport |-> <<>>]
    /\ calls = 0

-----------------------------------------------------------------------------
(***************************************************************************)
(* The calls that modify the policy.                                       *)
(***************************************************************************)
Called(ok) ==
    /\ calls < MaxCalls
    /\ calls' = calls + 1
    /\ ret' = IF ok THEN "STATUS_SUCCESS" ELSE "STATUS_ERR"
    /\ UNCHANGED mls

\* The history of a call: only what was accepted is expected.
Expect(kind, ok, key, record) ==
    last' = IF ok THEN [last EXCEPT ![kind] = Put(@, key, record)] ELSE last

\* A new entry goes before the others, whatever their keys.
Attach(list, e) == ocon' = IF e = Refused THEN ocon ELSE [ocon EXCEPT ![list] = <<e>> \o @]

\* Mutant: a new port goes behind the others.
sepol_port_modify_Behind(data) ==
    \E e \in {port_from_record(data)} :
        /\ Called(e # Refused)
        /\ ocon' = IF e = Refused THEN ocon ELSE [ocon EXCEPT !.port = Append(@, e)]
        /\ Expect("port", e # Refused, sepol_port_key_extract(SaidPort(data)), SaidPort(data))
        /\ UNCHANGED <<users, bools, conds>>

sepol_port_modify(data) ==
    \E e \in {port_from_record(data)} :
        /\ Called(e # Refused)
        /\ Attach("port", e)
        /\ Expect("port", e # Refused, sepol_port_key_extract(SaidPort(data)), SaidPort(data))
        /\ UNCHANGED <<users, bools, conds>>

sepol_node_modify(data) ==
    \E e \in {node_from_record(data)} :
        /\ Called(e # Refused)
        /\ Attach(IF data.proto = SEPOL_PROTO_IP4 THEN "node" ELSE "node6", e)
        /\ Expect("node", e # Refused, sepol_node_key_extract(data), SaidNode(data))
        /\ UNCHANGED <<users, bools, conds>>

sepol_ibpkey_modify(data) ==
    \E e \in {ibpkey_from_record(data)} :
        /\ Called(e # Refused)
        /\ Attach("ibpkey", e)
        /\ Expect("ibpkey", e # Refused, sepol_ibpkey_key_extract(SaidPort(data)), SaidPort(data))
        /\ UNCHANGED <<users, bools, conds>>

sepol_ibendport_modify(data) ==
    \E e \in {ibendport_from_record(data)} :
        /\ Called(e # Refused)
        /\ Attach("ibendport", e)
        /\ Expect("ibendport", e # Refused, sepol_ibendport_key_extract(SaidIbendport(data)),
                  SaidIbendport(data))
        /\ UNCHANGED <<users, bools, conds>>

\* Mutant: an interface that is there already is not replaced.
Replaced_Never(list, e) == <<e>> \o list

\* The entry takes the place of the first one with its name, if there is one.
Replaced(list, e) ==
    IF First(list, e.key) = 0 THEN <<e>> \o list ELSE [list EXCEPT ![First(list, e.key)] = e]

sepol_iface_modify(data) ==
    \E e \in {iface_from_record(data)} :
        /\ Called(e # Refused)
        /\ ocon' = IF e = Refused THEN ocon ELSE [ocon EXCEPT !.netif = Replaced(@, e)]
        /\ Expect("iface", e # Refused, sepol_iface_key_extract(data), SaidIface(data))
        /\ UNCHANGED <<users, bools, conds>>

bool_update(i, value) ==
    bools' = IF i = 0 \/ value \notin {0, 1} THEN bools ELSE [bools EXCEPT ![i].state = value]

sepol_bool_set(data) ==
    \E i \in {ValueIn(Names(bools), data.name)} :
        LET ok == i # 0 /\ data.value \in {0, 1}
        IN /\ Called(ok)
           /\ bool_update(i, data.value)
           /\ conds' = IF ok THEN evaluate_conds(bools') ELSE conds
           /\ Expect("bool", ok, sepol_bool_key_extract(data), data)
           /\ UNCHANGED <<users, ocon>>

(***************************************************************************)
(* sepol_user_modify empties a user that exists before it looks at the new *)
(* data, and fills it as far as the data are good.  Only a new user has    *)
(* its cache of roles expanded.                                            *)
(***************************************************************************)
\* user_datum_destroy and user_datum_init
user_datum_init(name) ==
    [name |-> name, roles |-> {}, cache |-> {}, level |-> 0, range |-> NoRange]

sepol_user_modify(data) ==
    LET known == {n \in 0 .. Len(data.roles) :
                    \A i \in 1 .. n : ValueIn(RoleNames, data.roles[i]) # 0}
        taken == SubSeq(data.roles, 1, Max(known))
        rolesok == taken = data.roles
        level == IF data.mls_level = NULL THEN NoRange ELSE mls_from_string(data.mls_level)
        range == IF data.mls_range = NULL THEN NoRange ELSE mls_from_string(data.mls_range)
        levelok == rolesok /\ mls /\ level # NoRange
        ok == IF mls THEN levelok /\ range # NoRange
                     ELSE rolesok /\ data.mls_level = NULL /\ data.mls_range = NULL
        Filled(u) == [u EXCEPT !.roles = Dominated(taken),
                               !.level = IF levelok THEN level.low ELSE @,
                               !.range = IF ok /\ mls THEN range ELSE @]
        Expanded(u) == [u EXCEPT !.cache = u.roles]
    IN \E i \in {ValueIn(Names(users), data.name)} :
        /\ Called(ok)
        /\ users' = IF i # 0 THEN [users EXCEPT ![i] = Filled(user_datum_init(data.name))]
                    ELSE IF ok THEN Append(users, Expanded(Filled(user_datum_init(data.name))))
                    ELSE users
        /\ Expect("user", ok \/ i # 0, sepol_user_key_extract(data),
                  IF ok THEN SaidUser(data) ELSE HalfUser(data.name, taken))
        /\ UNCHANGED <<bools, conds, ocon>>

\* A client reads a user, adds or deletes a role and hands the record back.
EditUser ==
    \E i \in DOMAIN users : \E role \in {RoleNames[r] : r \in DOMAIN RoleNames} :
        /\ Whole(users[i])
        /\ \E u \in {sepol_user_query(sepol_user_key_create(users[i].name))} :
              \/ sepol_user_modify(sepol_user_add_role(u, role))
              \/ sepol_user_modify(sepol_user_del_role(u, role))

Next ==
    \/ \E d \in PortData : sepol_port_modify(sepol_port_clone(d))
    \/ \E d \in NodeData : sepol_node_modify(sepol_node_clone(d))
    \/ \E d \in IfaceData : sepol_iface_modify(sepol_iface_clone(d))
    \/ \E d \in IbpkeyData : sepol_ibpkey_modify(sepol_ibpkey_clone(d))
    \/ \E d \in IbendportData : sepol_ibendport_modify(sepol_ibendport_clone(d))
    \/ \E d \in BoolData : sepol_bool_set(sepol_bool_clone(d))
    \/ \E d \in UserData : sepol_user_modify(sepol_user_clone(d))
    \/ EditUser

Spec == Init /\ [][Next]_vars

-----------------------------------------------------------------------------
Answer(f, k) == IF k \in DOMAIN f THEN f[k] ELSE NULL
AnswersLast(kind, keys, Query(_)) ==
    \A k \in keys \cup DOMAIN last[kind] : Query(k) = Answer(last[kind], k)

\* What is compared of the answer: of a user left half filled not the MLS strings.
WithoutMls(data) == [data EXCEPT !.mls_level = Unknown, !.mls_range = Unknown]
UserAnswer(k) == IF HalfFilled(k) THEN WithoutMls(sepol_user_query(k)) ELSE sepol_user_query(k)

\* The contexts that clients name.
NamedContexts ==
    UNION {{d.con : d \in data} : data \in {PortData, NodeData, IbpkeyData, IbendportData}}
    \cup {d.netif_con : d \in IfaceData} \cup {d.netmsg_con : d \in IfaceData}

(***************************************************************************)
(* A query answers with the record accepted last for its key, whatever was *)
(* called in between, in the form the policy keeps it in: entries that are *)
(* put before others hide them, replaced ones are gone, values of users    *)
(* keep naming the same user, and a key too large for the policy finds     *)
(* nothing (the query functions, against the modify functions).  A call    *)
(* that was refused changes no answer, save for the user it names: nothing *)
(* is left of its old roles, it has those given before the first unknown   *)
(* one, and until a call for it is accepted no context that names it and a *)
(* role of its own gets into the policy (sepol_user_modify,                *)
(* context_from_record).  The conditionals hold as the booleans set last   *)
(* say (sepol_bool_set).                                                   *)
(***************************************************************************)
QueryAnswersLast ==
    /\ AnswersLast("port", {sepol_port_key_extract(d) : d \in
                              {p \in PortData : sepol2ipproto(p.proto) >= 0}}, sepol_port_query)
    /\ AnswersLast("node", {sepol_node_key_extract(d) : d \in NodeData}, sepol_node_query)
    /\ AnswersLast("iface", {sepol_iface_key_extract(d) : d \in IfaceData}, sepol_iface_query)
    /\ AnswersLast("ibpkey", {sepol_ibpkey_key_extract(d) : d \in IbpkeyData}, sepol_ibpkey_query)
    /\ AnswersLast("ibendport", {sepol_ibendport_key_extract(d) : d \in IbendportData},
                   sepol_ibendport_query)
    /\ AnswersLast("bool", {sepol_bool_key_extract(d) : d \in BoolData}, sepol_bool_query)
    /\ AnswersLast("user", {sepol_user_key_extract(d) : d \in UserData}, UserAnswer)
    /\ \A c \in DOMAIN CondTruth :
           conds[c] = ({k.name : k \in {x \in DOMAIN last.bool : last.bool[x].value = 1}}
                          \in CondTruth[c])
    /\ \A con \in NamedContexts :
           HalfFilled(sepol_user_key_create(con.user)) /\ con.role # RoleNames[OBJECT_R_VAL] =>
               context_from_record(con) = Refused

(***************************************************************************)
(* The functions that look at one kind of record agree: a handler that     *)
(* goes on sees as many records as are counted, one that fails is not      *)
(* called again, a key exists exactly when a visited record compares equal *)
(* to it, the first of those is the answer to the query, and compare2      *)
(* orders the records (count, exists, query, iterate and compare of the    *)
(* seven kinds).                                                           *)
(***************************************************************************)
LooksAgree(keys, count, Exists(_), Query(_), Iterate(_), Cmp(_, _)) ==
    LET v == Iterate([stop |-> 0, status |-> 0]).seen IN
    /\ Len(v) = count
    /\ \A n \in 1 .. count : /\ Iterate([stop |-> n, status |-> -1]).seen = SubSeq(v, 1, n)
                              /\ ~Iterate([stop |-> n, status |-> -1]).ok
    /\ \A k \in keys :
          LET hits == {i \in DOMAIN v : Cmp(v[i], k) = 0} IN
          /\ Exists(k) = (hits # {})
          /\ Query(k) = (IF hits = {} THEN NULL ELSE v[Min(hits)])
    /\ \A i, j \in DOMAIN v : Cmp(v[i], v[j]) = -Cmp(v[j], v[i])
    /\ \A i, j, m \in DOMAIN v : Cmp(v[i], v[j]) < 0 /\ Cmp(v[j], v[m]) < 0 => Cmp(v[i], v[m]) < 0

KeysOf(data, Key(_)) == {Key(d) : d \in data}

(***************************************************************************)
(* The views of every kind agree (LooksAgree), the printed address of a    *)
(* node is a key to it, a printed context is read back as it was, and an   *)
(* interface or a user is visited once, however often it was modified.     *)
(***************************************************************************)
ViewsAgree ==
    /\ LooksAgree(KeysOf({p \in PortData : sepol2ipproto(p.proto) >= 0}, sepol_port_key_extract),
                  sepol_port_count,
                  sepol_port_exists, sepol_port_query, sepol_port_iterate, sepol_port_compare)
    /\ LooksAgree(KeysOf(NodeData, sepol_node_key_extract), sepol_node_count,
                  sepol_node_exists, sepol_node_query, sepol_node_iterate, sepol_node_compare)
    /\ LooksAgree(KeysOf(IfaceData, sepol_iface_key_extract), sepol_iface_count,
                  sepol_iface_exists, sepol_iface_query, sepol_iface_iterate, sepol_iface_compare)
    /\ LooksAgree(KeysOf(IbpkeyData, sepol_ibpkey_key_extract), sepol_ibpkey_count,
                  sepol_ibpkey_exists, sepol_ibpkey_query, sepol_ibpkey_iterate, sepol_ibpkey_compare)
    /\ LooksAgree(KeysOf(IbendportData, sepol_ibendport_key_extract), sepol_ibendport_count,
                  sepol_ibendport_exists, sepol_ibendport_query, sepol_ibendport_iterate,
                  sepol_ibendport_compare)
    /\ LooksAgree(KeysOf(BoolData, sepol_bool_key_extract), sepol_bool_count,
                  sepol_bool_exists, sepol_bool_query, sepol_bool_iterate, sepol_bool_compare)
    /\ LooksAgree(KeysOf(UserData, sepol_user_key_extract), sepol_user_count,
                  sepol_user_exists, sepol_user_query, sepol_user_iterate, sepol_user_compare)
    /\ \A p \in DOMAIN ParseAddr : \A i \in DOMAIN NodeRecords(p) :
          LET n == NodeRecords(p)[i] IN
          sepol_node_key_create(sepol_node_get_addr(n), sepol_node_get_mask(n), p)
              = sepol_node_key_extract(n)
    /\ \A kind \in DOMAIN ocon : \A i \in DOMAIN ocon[kind] :
          LET con == context_to_record(ocon[kind][i].con) IN
          sepol_context_from_string(sepol_context_to_string(con)) = con
    /\ Cardinality({ocon.netif[i].key : i \in DOMAIN ocon.netif}) = sepol_iface_count
    /\ Cardinality({users[i].name : i \in DOMAIN users}) = sepol_user_count

=============================================================================
