----------------------------- MODULE PolicyFile -----------------------------
(***************************************************************************)
(* A policy db is written in the format of version p.vers, one word of the *)
(* file may be damaged, and the file is read back section by section into  *)
(* got, indexed and validated.                                             *)
(***************************************************************************)
EXTENDS PolicyValidate

CONSTANTS Inputs,      \* records [p, db]
          Damages,     \* records [section, in, f]: a reference f under the tag in of a section
          DamagedInputs,
          Beyond       \* a value that no symbol has

VARIABLES db, file, phase, order, damage

vars == <<p, got, db, file, phase, order, damage>>

object_r == [key |-> "object_r", value |-> 1, bounds |-> 0, dominates |-> {}, types |-> NoTypeSet,
             flavor |-> "role", roles |-> {}]
\* policydb_init, with the first declaration of the global block
FirstDecl == [decl_id |-> 1, enabled |-> 0, cond_list |-> <<>>, avrules |-> <<>>, role_tr_rules |-> <<>>, role_allow_rules |-> <<>>,
              filename_trans_rules |-> <<>>, range_tr_rules |-> <<>>,
              required |-> [s \in ToSet(Sym) |-> {}] @@ [class_perms |-> <<>>],
              declared |-> [s \in ToSet(Sym) |-> {}] @@ [class_perms |-> <<>>],
              symtab |-> [s \in ToSet(Sym) |-> [nprim |-> 0, table |-> <<>>]]]
EmptySymtab == [s \in ToSet(Sym) |-> [nprim |-> IF s = "roles" THEN 1 ELSE 0, table |-> IF s = "roles" THEN <<object_r>> ELSE <<>>]]
EmptyScope  == [s \in ToSet(Sym) |->
                  [scopes |-> IF s = "roles" THEN <<[key |-> "object_r", scope |-> "DECL", decl_ids |-> <<1>>]>> ELSE <<>>]]
policydb_init == [handle_unknown |-> "deny", name |-> "", version |-> "", policycaps |-> {}, permissive_map |-> {},
                  symtab |-> EmptySymtab, te_avtab |-> <<>>, cond_list |-> <<>>, role_tr |-> <<>>, role_allow |-> <<>>,
                  filename_trans |-> <<>>, filename_trans_count |-> 0, global |-> <<[decls |-> <<FirstDecl>>]>>, scope |-> EmptyScope,
                  ocontexts |-> [k \in ToSet(Ocon["selinux"]) \cup ToSet(Ocon["xen"]) |-> <<>>], genfs |-> <<>>,
                  range_tr |-> <<>>, type_attr_map |-> <<>>, attr_type_map |-> <<>>]

Init == \E i \in Inputs :
            /\ p = i.p /\ db = i.db
            /\ got = policydb_init /\ file = <<>> /\ order = <<>>
            /\ phase = "write" /\ damage = {}

Write ==
    LET header == header_write(db)
        secs   == IF HasError(header) THEN <<>> ELSE policydb_write(db)
    IN  /\ phase = "write"
        /\ IF HasError(header) \/ \E i \in DOMAIN secs : HasError(secs[i].cells)
           THEN phase' = "refused" /\ UNCHANGED <<file, order>>
           ELSE /\ phase' = "header" /\ file' = Section("header", header) \o secs
                /\ order' = ReadOrder
        /\ UNCHANGED <<p, got, db, damage>>

\* A reference becomes one to a symbol that is not there.
BitmapTag == {"permissive_map", "policycaps", "permissions", "names", "negset", "dominates", "cat", "cat0", "cat1",
              "tclasses", "stypes", "type_attr_map"} \cup ToSet(Sym)
RECURSIVE Damaged(_, _, _, _)
Damaged(c, under, in, f) ==
    [i \in DOMAIN c |->
        CASE c[i].k = "word" /\ c[i].f = f /\ under = in ->
               [c[i] EXCEPT !.v = IF f \in BitmapTag THEN @ \cup {Beyond} ELSE IF f = "decl_ids" THEN <<Beyond>> ELSE Beyond]
          [] c[i].k = "word" -> c[i]
          [] c[i].k = "list" -> [c[i] EXCEPT !.v = [j \in DOMAIN @ |-> Damaged(@[j], c[i].f, in, f)]]
          [] OTHER           -> [c[i] EXCEPT !.v = Damaged(@, c[i].f, in, f)]]
Damage ==
    /\ phase = "header" /\ damage = {} /\ [p |-> p, db |-> db] \in DamagedInputs
    /\ \E d \in Damages, i \in DOMAIN file :
          /\ file[i].name = d.section
          /\ LET c == Damaged(file[i].cells, d.section, d.in, d.f)
             IN  c # file[i].cells /\ file' = [file EXCEPT ![i].cells = c]
          /\ damage' = {d}
    /\ UNCHANGED <<p, got, db, phase, order>>

Reject == phase' = "rejected" /\ UNCHANGED <<got, file, order>>

ReadHeader ==
    LET in == Head(file).cells
    IN  /\ phase = "header"
        /\ IF Shape(in) = header_read(in) /\ HeaderOf(in) = p
           THEN /\ phase' = "read" /\ file' = Tail(file) /\ UNCHANGED order
                /\ got' = [got EXCEPT !.handle_unknown = At(in, "config").handle_unknown,
                                      !.name = IF p.type = "MOD" THEN At(in, "name") ELSE "",
                                      !.version = IF p.type = "MOD" THEN At(in, "version") ELSE ""]
           ELSE Reject
        /\ UNCHANGED <<p, db, damage>>

\* What a section is refused for once its words are read: a rule that is there twice, an invalid context.
Accepted(s, in) ==
    LET new == policydb_kept(s, in)
        l   == new.te_avtab
    IN  CASE s = "te_avtab" -> \A i, j \in DOMAIN l : i < j => Key(l[i]) # Key(l[j]) \/ l[i].specified # l[j].specified
                                                               \/ l[i].specified \cap XpermSpec # {}
          [] s \in ToSet(Ocon[p.target]) ->
                \A i \in DOMAIN new.ocontexts[s] : \A c \in Contexts(s, new.ocontexts[s][i]) : context_is_valid(c)
          [] s = "genfs"    -> \A i \in DOMAIN new.genfs : \A j \in DOMAIN new.genfs[i].head :
                                  context_is_valid(new.genfs[i].head[j].context0)
          [] OTHER          -> TRUE
ReadSection ==
    /\ phase = "read" /\ order # <<>> /\ Head(order) # "index"
    /\ LET s  == Head(order)
           in == IF file = <<>> THEN <<>> ELSE Head(file).cells
       IN  IF file # <<>> /\ Shape(in) = policydb_read(s, in) /\ Accepted(s, in)
           THEN got' = policydb_kept(s, in) /\ order' = Tail(order) /\ file' = Tail(file) /\ UNCHANGED phase
           ELSE Reject
    /\ UNCHANGED <<p, db, damage>>

Index ==
    /\ phase = "read" /\ order # <<>> /\ Head(order) = "index"
    /\ IF policydb_index_others
       THEN /\ got' = [got EXCEPT !.symtab["users"].table = [i \in DOMAIN @ |-> UserCached(@[i])]]
            /\ order' = Tail(order) /\ UNCHANGED <<file, phase>>
       ELSE Reject
    /\ UNCHANGED <<p, db, damage>>

\* Before version 20 a file has no attribute maps: each type is its own.
Maps == /\ phase = "read" /\ order = <<>>
        /\ got' = IF KernAt(20) \/ ~Kern THEN got
                  ELSE type_attr_map_kept([i \in 1..Nprim("types") |-> {}])
        /\ phase' = "validate" /\ UNCHANGED <<p, db, file, order, damage>>

Validate == /\ phase = "validate"
            /\ phase' = IF policydb_validate THEN "done" ELSE "rejected"
            /\ UNCHANGED <<p, got, db, file, order, damage>>

Next == Write \/ Damage \/ ReadHeader \/ ReadSection \/ Index \/ Maps \/ Validate
Spec == Init /\ [][Next]_vars

(***************************************************************************)
(* Properties.                                                             *)
(***************************************************************************)
HasRoleAttribute == \E i \in DOMAIN db.symtab["roles"].table : db.symtab["roles"].table[i].flavor = "attrib"

\* What policydb_write writes, policydb_read accepts: the reader expects every field the writer
\* puts there, of every version, and what is left out leaves no reference behind.  A module with a
\* role attribute, written for a version before 13, is the exception (AllReadBack).
ReadBack == phase = "rejected" => damage # {} \/ (HasRoleAttribute /\ ~ModuleAt(13))

\* write.c:1148, "Their numbers would be deducted in policydb_write()": leaving the role attributes
\* out of an older module keeps the file readable.
AllReadBack == phase = "rejected" => damage # {}

Newest == p.target = "selinux" /\ p.vers = (IF Kern THEN 34 ELSE 22)

\* The newest formats lose nothing: policydb_read returns the policy that policydb_write was given.
\* Of the older ones a second trip loses nothing more: the file is the same.  The lists of a
\* conditional turn round each time the old format expands them.
WriteStable ==
    phase = "done" /\ damage = {} =>
        LET a == policydb_write(db)
            b == policydb_write(got)
        IN  /\ Newest => got = db
            /\ header_write(got) = header_write(db)
            /\ \A i \in DOMAIN a : (a[i].name = "cond_list" /\ oldvers) \/ b[i] = a[i]

\* What a policy allows, with its attributes: the rules that apply to a pair of types.
Applies(x, r, s, t) == s \in x.attr_type_map[r.source_type] /\ t \in x.attr_type_map[r.target_type]
RulesFor(x, l, s, t, c) == {i \in DOMAIN l : l[i].target_class = c /\ Applies(x, l[i], s, t)}
Granted(x, l, s, t, c, spec) ==
    UNION {{<<"data", v>> : v \in l[i].data} : i \in {i \in RulesFor(x, l, s, t, c) : spec \in l[i].specified}}
    \cup UNION {{<<l[i].xspecified, l[i].driver, v>> : v \in l[i].xperms} :
                   i \in {i \in RulesFor(x, l, s, t, c) : l[i].specified \cap XpermSpec # {}}}
\* An older format, which has no attributes or keeps them in the maps only, decides like the policy
\* that was written: for each pair of types, the same permissions, with and without the conditionals.
AccessKept ==
    phase = "done" /\ damage = {} /\ Kern =>
        LET T == {x.value : x \in {y \in ToSet(db.symtab["types"].table) : y.flavor = "type"}}
            Same(a, b) == \A s, t \in T, c \in {x.value : x \in Table("classes")} :
                             Granted(got, a, s, t, c, "allowed") = Granted(db, b, s, t, c, "allowed")
        IN  /\ Same(got.te_avtab, db.te_avtab)
            /\ p.vers >= 16 => /\ Len(got.cond_list) = Len(db.cond_list)
                               /\ \A i \in DOMAIN got.cond_list :
                                     /\ Same(got.cond_list[i].true_list, db.cond_list[i].true_list)
                                     /\ Same(got.cond_list[i].false_list, db.cond_list[i].false_list)

\* No reference to a symbol that does not exist survives the reader and the validation.
DamageRejected == damage # {} => phase # "done"
=============================================================================
