------------------------------ MODULE Services ------------------------------
(***************************************************************************)
(* The security server of services.c: the SID table (sidtab.c), the SIDs   *)
(* it keeps for the object contexts of the policy, and the replacement of  *)
(* the policy by sepol_load_policy.                                        *)
(*                                                                         *)
(* A context structure holds numbers that mean something only in its       *)
(* policy: here one number, whose name is its context string.  A policy is *)
(* a record of                                                             *)
(*   value    a context string's number, 0 if a part of it is not defined; *)
(*            names can share a number (type aliases)                      *)
(*   name     the primary name of a number                                 *)
(*   valid    the numbers policydb_context_isvalid accepts                 *)
(*   isids    the initial SIDs                                             *)
(*   ocontexts  the contexts of each object context (two for file systems  *)
(*            and network interfaces, one for the others)                  *)
(*   users    contexts a user can reach, as sepol_get_user_sids finds them *)
(*   classes  the definition of each class                                 *)
(* The library runs in one thread: the locking macros of sidtab.c are      *)
(* empty.  Any malloc can fail.                                            *)
(***************************************************************************)
EXTENDS Integers, Sequences, FiniteSets, SequencesExt

CONSTANTS Labels,      \* context strings
          Classes,
          Policies,
          Buckets,     \* SIDTAB_SIZE
          MaxSid,      \* UINT_MAX
          Unlabeled    \* SECINITSID_UNLABELED

Values == 0 .. Cardinality(Labels)
Hash == 0 .. Buckets - 1
Sids == 1 .. MaxSid
Null == 0              \* SEPOL_SECSID_NULL
NoPolicy == [ocontexts |-> <<>>]

WellFormed(p) ==
    /\ p.value \in [Labels -> Values]
    /\ p.valid \subseteq {p.value[l] : l \in Labels} \ {0}
    /\ \A l \in Labels : p.value[l] # 0 => /\ p.name[p.value[l]] \in Labels
                                           /\ p.value[p.name[p.value[l]]] = p.value[l]
    \* A saturated SID is not read (is_saturated), 0 is refused by validate_ocontexts.
    /\ DOMAIN p.isids \subseteq Sids \ {MaxSid}
    /\ \A s \in DOMAIN p.isids : p.isids[s] \in p.valid
    /\ \A o \in DOMAIN p.ocontexts : p.ocontexts[o] \in Seq(p.valid)
    /\ \A u \in DOMAIN p.users : p.users[u] \in Seq(p.valid)

ASSUME SizesAssumption == Buckets \in Nat \ {0} /\ MaxSid \in Nat \ {0} /\ Unlabeled \in Sids
ASSUME PoliciesAssumption == \A p \in Policies : WellFormed(p)

VARIABLES policy,     \* *policydb
          sidtab,     \* *sidtab: [htable, nel, next_sid, shutdown]
          osids,      \* the sid fields of the object contexts
          job,        \* the contexts a call still has to find SIDs for
          out,        \* *out_sid of the last call of context_to_sid
          phase,      \* the loop a load is in; "calls" outside of loads
          newpolicydb, newsidtab,   \* what is being loaded
          left,       \* the nodes that loop has still to visit
          dropped     \* SIDs removed by the last load (history)

loading == <<phase, newpolicydb, newsidtab, left>>
vars == <<policy, sidtab, osids, job, out, loading, dropped>>

-----------------------------------------------------------------------------
(***************************************************************************)
(* The SID table: chains sorted by SID, with an early end of the search.   *)
(***************************************************************************)
SIDTAB_HASH(sid) == sid % Buckets

sepol_sidtab_init == [htable |-> [h \in Hash |-> <<>>], nel |-> 0, next_sid |-> 1,
                      shutdown |-> FALSE]

Node(sid, context) == [sid |-> sid, context |-> context]

\* The nodes that sepol_sidtab_map visits, and the first one it visits.
Nodes(s) == UNION {ToSet(s.htable[h]) : h \in Hash}
SidsIn(s) == {n.sid : n \in Nodes(s)}
Before(n, m) == \/ SIDTAB_HASH(n.sid) < SIDTAB_HASH(m.sid)
                \/ SIDTAB_HASH(n.sid) = SIDTAB_HASH(m.sid) /\ n.sid <= m.sid
Foremost(nodes) == CHOOSE n \in nodes : \A m \in nodes : Before(n, m)

Place(chain, sid) ==
    LET i == SelectInSeq(chain, LAMBDA n : n.sid >= sid)
    IN IF i = 0 THEN Len(chain) + 1 ELSE i

Holds(s, sid) ==
    LET chain == s.htable[SIDTAB_HASH(sid)]
        i == Place(chain, sid)
    IN i <= Len(chain) /\ chain[i].sid = sid

Put(s, sid, context, i) ==
    [s EXCEPT !.htable[SIDTAB_HASH(sid)] = InsertAt(@, i, Node(sid, context)),
              !.nel = @ + 1,
              !.next_sid = IF sid >= @ THEN (sid + 1) % (MaxSid + 1) ELSE @]

\* Mutant: a new node goes to the head of its chain.
sepol_sidtab_insert_AtHead(s, sid, context) ==
    IF Holds(s, sid) THEN s ELSE Put(s, sid, context, 1)

\* Nothing happens to a table that has the SID (-EEXIST).
sepol_sidtab_insert(s, sid, context) ==
    IF Holds(s, sid) THEN s
    ELSE Put(s, sid, context, Place(s.htable[SIDTAB_HASH(sid)], sid))

ContextOf(s, sid) == LET chain == s.htable[SIDTAB_HASH(sid)] IN chain[Place(chain, sid)].context

\* "Remap invalid SIDs to the unlabeled SID"; 0 stands for NULL.
sepol_sidtab_search(s, sid) ==
    IF Holds(s, sid) THEN ContextOf(s, sid)
    ELSE IF Holds(s, Unlabeled) THEN ContextOf(s, Unlabeled) ELSE 0

sepol_sidtab_search_context(s, context) ==
    LET matches == {n \in Nodes(s) : n.context = context}
    IN IF matches = {} THEN Null ELSE Foremost(matches).sid

\* The possible results: a failing call returns Null and leaves the table as
\* it was (next_sid is counted back).
sepol_sidtab_context_to_sid(s, context) ==
    LET found == sepol_sidtab_search_context(s, context)
        failed == [sid |-> Null, table |-> s]
        counted == [s EXCEPT !.next_sid = @ + 1]
    IN IF found # Null THEN {[sid |-> found, table |-> s]}
       ELSE IF s.next_sid = MaxSid \/ s.shutdown THEN {failed}
       ELSE {failed, [sid |-> s.next_sid, table |-> sepol_sidtab_insert(counted, s.next_sid, context)]}

sepol_sidtab_set(s) == [s EXCEPT !.shutdown = FALSE]
sepol_sidtab_shutdown(s) == [s EXCEPT !.shutdown = TRUE]

\* One node of sepol_sidtab_map_remove_on_error: the context was converted in
\* place, or the node is unlinked.
Cursor(s, n) == CHOOSE i \in DOMAIN s.htable[SIDTAB_HASH(n.sid)] :
                    s.htable[SIDTAB_HASH(n.sid)][i] = n
Converted(s, n, context) ==
    [s EXCEPT !.htable[SIDTAB_HASH(n.sid)] =
                  ReplaceAt(@, Cursor(s, n), Node(n.sid, context))]
Unlinked(s, n) ==
    [s EXCEPT !.htable[SIDTAB_HASH(n.sid)] = RemoveAt(@, Cursor(s, n)), !.nel = @ - 1]

-----------------------------------------------------------------------------
\* The sid fields of a policy that was just read: none is known.
NoSids(p) == [o \in DOMAIN p.ocontexts |-> [i \in DOMAIN p.ocontexts[o] |-> Null]]

NoJob == [object |-> 0, at |-> 0, left |-> <<>>]

\* The locals of a load that has ended.
LoadEnds == phase' = "calls" /\ newpolicydb' = NoPolicy /\ newsidtab' = sepol_sidtab_init /\ left' = {}

\* Mutant: the cached SIDs of the old policy are carried over.
Fresh_SidsKept(p, s) ==
    /\ policy' = p
    /\ sidtab' = s
    /\ osids' = IF policy = NoPolicy THEN NoSids(p) ELSE osids
    /\ job' = NoJob
    /\ out' = Null
    /\ LoadEnds

Fresh(p, s) == /\ policy' = p
               /\ sidtab' = s
               /\ osids' = NoSids(p)
               /\ job' = NoJob
               /\ out' = Null
               /\ LoadEnds

Ready == job.left = <<>> /\ policy # NoPolicy /\ phase = "calls"

(***************************************************************************)
(* The first policy: a client fills a table with policydb_load_isids and   *)
(* hands both to sepol_set_policydb and sepol_set_sidtab.                  *)
(***************************************************************************)
IsidNodes(p) == {Node(sid, p.isids[sid]) : sid \in DOMAIN p.isids}

Init == /\ policy = NoPolicy /\ sidtab = sepol_sidtab_init /\ osids = <<>>
        /\ job = NoJob /\ out = Null /\ dropped = {}
        /\ phase = "isids" /\ newsidtab = sepol_sidtab_init
        /\ \E p \in Policies : newpolicydb = p /\ left = IsidNodes(p)

policydb_load_isids ==
    /\ phase = "isids"
    /\ \E n \in left : /\ newsidtab' = sepol_sidtab_insert(newsidtab, n.sid, n.context)
                       /\ left' = left \ {n}
    /\ UNCHANGED <<policy, sidtab, osids, job, out, phase, newpolicydb, dropped>>

sepol_set_sidtab ==
    /\ phase = "isids" /\ left = {}
    /\ Fresh(newpolicydb, newsidtab)
    /\ dropped' = {}

\* "unable to load initial SID": the table is not used.
IsidFails ==
    /\ phase = "isids" /\ left # {}
    /\ LoadEnds
    /\ UNCHANGED <<policy, sidtab, osids, job, out, dropped>>

-----------------------------------------------------------------------------
(***************************************************************************)
(* Calls that need SIDs.                                                   *)
(***************************************************************************)
Start(object, contexts) ==
    /\ Ready
    /\ job' = [object |-> object, at |-> 1, left |-> contexts]
    /\ out' = Null
    /\ UNCHANGED <<policy, sidtab, osids, loading, dropped>>

\* context_from_string accepts only valid contexts.
sepol_context_to_sid(l) == policy.value[l] \in policy.valid /\ Start(0, <<policy.value[l]>>)

\* sepol_fs_sid, sepol_port_sid, sepol_netif_sid, sepol_node_sid, sepol_genfs_sid,
\* sepol_fs_use, sepol_ibpkey_sid, sepol_ibendport_sid: the SIDs of the object
\* context found, all of them again if one is missing.
ObjectSids(o) == (\E i \in DOMAIN osids[o] : osids[o][i] = Null) /\ Start(o, policy.ocontexts[o])

\* The contexts are those that some context may enter; it has to have a SID.
sepol_get_user_sids(u) ==
    /\ \E sid \in Sids : sepol_sidtab_search(sidtab, sid) # 0
    /\ Start(0, policy.users[u])

\* One call of sepol_sidtab_context_to_sid; the first failure ends the caller.
NextSid ==
    /\ job.left # <<>>
    /\ \E r \in sepol_sidtab_context_to_sid(sidtab, Head(job.left)) :
          /\ sidtab' = r.table
          /\ out' = r.sid
          /\ osids' = IF job.object = 0 THEN osids ELSE [osids EXCEPT ![job.object][job.at] = r.sid]
          /\ job' = IF r.sid = Null \/ Len(job.left) = 1 THEN NoJob
                    ELSE [job EXCEPT !.at = @ + 1, !.left = Tail(@)]
    /\ UNCHANGED <<policy, loading, dropped>>

-----------------------------------------------------------------------------
(***************************************************************************)
(* sepol_load_policy.                                                      *)
(***************************************************************************)
\* validate_class for every class of the old policy
ClassesKept(old, new) ==
    \A c \in Classes : old.classes[c] # 0 => new.classes[c] = old.classes[c]

\* Mutant: the numbers of the old policy are kept.
convert_context_SameNumbers(old, new, v) == IF v \in new.valid THEN v ELSE 0

\* The number of the same name in the new policy, 0 if it must be removed
\* (selinux_enforcing is 1 and never assigned).
convert_context(old, new, v) ==
    LET w == new.value[old.name[v]] IN IF w \in new.valid THEN w ELSE 0

\* The table is shut down, and the loop over its nodes begins.
sepol_load_policy(new) ==
    /\ Ready
    /\ ClassesKept(policy, new)
    /\ sidtab' = sepol_sidtab_shutdown(sidtab)
    /\ phase' = "clone"
    /\ newpolicydb' = new
    /\ newsidtab' = sepol_sidtab_init
    /\ left' = Nodes(sidtab)
    /\ out' = Null
    /\ UNCHANGED <<policy, osids, job, dropped>>

ClassChanged(new) ==
    /\ Ready
    /\ ~ClassesKept(policy, new)
    /\ out' = Null
    /\ UNCHANGED <<policy, sidtab, osids, job, loading, dropped>>

\* Mutant: the SIDs of contexts that will be invalid are not cloned at all.
clone_sid_OnlyKept(n) ==
    IF convert_context(policy, newpolicydb, n.context) = 0 THEN newsidtab
    ELSE sepol_sidtab_insert(newsidtab, n.sid, n.context)

clone_sid(n) == sepol_sidtab_insert(newsidtab, n.sid, n.context)

CloneSid ==
    /\ phase = "clone" /\ left # {}
    /\ newsidtab' = clone_sid(Foremost(left))
    /\ left' = left \ {Foremost(left)}
    /\ UNCHANGED <<policy, sidtab, osids, job, out, phase, newpolicydb, dropped>>

\* The table in force was shut down before the clone failed, and stays so.
CloneFails ==
    /\ phase = "clone" /\ left # {}
    /\ LoadEnds
    /\ UNCHANGED <<policy, sidtab, osids, job, out, dropped>>

Cloned ==
    /\ phase = "clone" /\ left = {}
    /\ phase' = "convert"
    /\ left' = Nodes(newsidtab)
    /\ UNCHANGED <<policy, sidtab, osids, job, out, newpolicydb, newsidtab, dropped>>

\* A malloc that fails in convert_context removes an entry as well.
ConvertContext ==
    /\ phase = "convert" /\ left # {}
    /\ LET n == Foremost(left)
           w == convert_context(policy, newpolicydb, n.context)
       IN /\ \/ w # 0 /\ newsidtab' = Converted(newsidtab, n, w)
             \/ newsidtab' = Unlinked(newsidtab, n)
          /\ left' = left \ {n}
    /\ UNCHANGED <<policy, sidtab, osids, job, out, phase, newpolicydb, dropped>>

\* The new policy and table are installed.
Install ==
    /\ phase = "convert" /\ left = {}
    /\ Fresh(newpolicydb, sepol_sidtab_set(newsidtab))
    /\ dropped' = SidsIn(sidtab) \ SidsIn(newsidtab)

\* policydb_read failed, in a load or in sepol_set_policydb_from_file:
\* mypolicydb, which is the active policy unless the caller set another one,
\* is destroyed.
UnreadablePolicy ==
    /\ Ready
    /\ \/ policy' = NoPolicy /\ osids' = <<>>
       \/ UNCHANGED <<policy, osids>>
    /\ out' = Null
    /\ UNCHANGED <<sidtab, job, loading, dropped>>

sepol_set_policydb_from_file(p) ==
    /\ job.left = <<>> /\ phase = "calls"
    /\ Fresh(p, sepol_sidtab_init)
    /\ dropped' = {}

Next == \/ policydb_load_isids \/ sepol_set_sidtab \/ IsidFails
        \/ \E l \in Labels : policy # NoPolicy /\ sepol_context_to_sid(l)
        \/ \E o \in DOMAIN policy.ocontexts : ObjectSids(o)
        \/ policy # NoPolicy /\ \E u \in DOMAIN policy.users : sepol_get_user_sids(u)
        \/ NextSid
        \/ \E p \in Policies : \/ sepol_load_policy(p) \/ ClassChanged(p)
                               \/ sepol_set_policydb_from_file(p)
        \/ CloneSid \/ CloneFails \/ Cloned \/ ConvertContext \/ Install
        \/ UnreadablePolicy

Spec == Init /\ [][Next]_vars

-----------------------------------------------------------------------------
(***************************************************************************)
(* Properties.                                                             *)
(***************************************************************************)
\* Every chain is sorted and holds the SIDs of its hash, nel counts the nodes,
\* and next_sid is above every SID, whatever was loaded, removed or failed:
\* the early end of every search relies on the order, the allocation on the
\* counter.  Every entry is valid under the policy of the moment, as
\* sepol_load_policy is to verify.
TableOK ==
    /\ \A h \in Hash : LET chain == sidtab.htable[h] IN
          /\ \A i \in DOMAIN chain : SIDTAB_HASH(chain[i].sid) = h /\ chain[i].sid < sidtab.next_sid
          /\ \A i \in 1 .. Len(chain) - 1 : chain[i].sid < chain[i + 1].sid
    /\ sidtab.nel = Cardinality(Nodes(sidtab))
    /\ sidtab.next_sid \in Sids
    /\ policy # NoPolicy => \A n \in Nodes(sidtab) : n.context \in policy.valid

\* A SID names the string its context stands for in the policy of the moment;
\* the first table is to name what the policy says of the initial SIDs.
Named == IF phase = "isids"
         THEN [s \in DOMAIN newpolicydb.isids |-> newpolicydb.name[newpolicydb.isids[s]]]
         ELSE IF policy = NoPolicy THEN [s \in {} |-> Null]
         ELSE [s \in SidsIn(sidtab) |-> policy.name[ContextOf(sidtab, s)]]
PrimaryNames(p) == [l \in Labels |-> IF p.value[l] = 0 THEN l ELSE p.name[p.value[l]]]
Asked == IF job.left = <<>> THEN Null ELSE policy.name[Head(job.left)]
Map == INSTANCE SidMap WITH Sid <- Sids, Label <- Labels, map <- Named, asked <- Asked,
                            Renamings <- {PrimaryNames(p) : p \in Policies}

\* Clients see a map from SIDs to context strings: calls return the SID of the
\* string asked for, never change another entry, and a load drops entries or
\* follows the new policy's names, although every number in the table changes.
ImplementsSidMap == Map!Spec

\* The SID kept with an object context names that object context's string: no
\* failure, retry or load leaves a SID of another table behind.
ObjectSidsCurrent ==
    policy # NoPolicy =>
        \A o \in DOMAIN osids : \A i \in DOMAIN osids[o] :
            osids[o][i] # Null => /\ osids[o][i] \in SidsIn(sidtab)
                                  /\ ContextOf(sidtab, osids[o][i]) = policy.ocontexts[o][i]

\* A SID that the last load invalidated reads as unlabeled, and is not given to
\* another context.
DroppedUnlabeled ==
    \A sid \in dropped : sepol_sidtab_search(sidtab, sid) = sepol_sidtab_search(sidtab, Unlabeled)
=============================================================================
