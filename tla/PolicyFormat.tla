---------------------------- MODULE PolicyFormat ----------------------------
(***************************************************************************)
(* The binary policy format of write.c and policydb.c, as a sequence of    *)
(* cells.  A cell is a word with its value (an integer, a name, a bitmap   *)
(* as the set of its values), a structure written field by field, or the   *)
(* elements of a list; its tag says what the writer put there.  A layout   *)
(* is what a reader expects: the same tags without the values.  The reader *)
(* of C has no tags, so a file whose shape is not the layout the reader    *)
(* computes from the words it has read is read as something else.          *)
(***************************************************************************)
EXTENDS Integers, Sequences, SequencesExt, FiniteSets

VARIABLES p,      \* policy_type, policyvers, target_platform and mls of the policydb
          got     \* the contents of the policydb read so far

Sym == <<"commons", "classes", "roles", "types", "users", "bools", "levels", "cats">>
Ocon == [selinux |-> <<"isid", "fs", "port", "netif", "node", "fsuse", "node6", "ibpkey", "ibendport">>,
         xen     |-> <<"isid", "pirq", "ioport", "iomem", "pcidevice", "devicetree">>]

Kern == p.type = "KERN"

\* The tests on the version that the two files share.
KernAt(k)      == Kern /\ p.vers >= k
KernBase(k, b) == KernAt(k) \/ (p.type = "BASE" /\ p.vers >= b)
ModuleAt(m)    == ~Kern /\ p.vers >= m
AnyAt(k, m)    == KernAt(k) \/ ModuleAt(m)
policydb_has_boundary_feature == AnyAt(24, 9)
policydb_has_cond_xperms_feature == AnyAt(34, 22)
glblub_version == KernBase(32, 20)
\* Both sides: an expanded range and level, or the ranges as they were written in the source.
ExpandedUserRange == KernAt(19) \/ (~Kern /\ p.vers = 5)
SemanticUserRange == ModuleAt(6)

\* policydb_compat, without its rows that differ in the version only: sym_num and ocon_num
\* of the row policydb_lookup_compat finds, {} when it finds none.
Row(s, o) == {[sym_num |-> s, ocon_num |-> o]}
XenRow(vers) == CASE vers = 24 -> Row(8, 5)
                  [] vers = 30 -> Row(8, 6)
                  [] OTHER     -> {}
KernRow(vers) == CASE vers = 15       -> Row(5, 6)
                   [] vers = 16       -> Row(6, 6)
                   [] vers \in 17..18 -> Row(6, 7)
                   [] vers \in 19..30 -> Row(8, 7)
                   [] vers \in 31..34 -> Row(8, 9)
                   [] OTHER           -> {}
BaseRow(vers) == CASE vers \in 4..18  -> Row(8, 7)
                   [] vers \in 19..22 -> Row(8, 9)
                   [] OTHER           -> {}
ModRow(vers) == IF vers \in 4..22 THEN Row(8, 0) ELSE {}
policydb_lookup_compat(vers, type, target) ==
    CASE target = "xen" -> IF type = "KERN" THEN XenRow(vers) ELSE {}
      [] type = "KERN"  -> KernRow(vers)
      [] type = "BASE"  -> BaseRow(vers)
      [] type = "MOD"   -> ModRow(vers)
info == CHOOSE r \in policydb_lookup_compat(p.vers, p.type, p.target) : TRUE

(***************************************************************************)
(* Cells and layouts.                                                      *)
(***************************************************************************)
Word(f, v)   == <<[f |-> f, k |-> "word", v |-> v]>>
\* the words that only say how much follows
CountTag == {"len", "len2", "nel", "nel2", "nitems", "ncons", "ntrans", "nexpr", "ncat", "ndatum", "ncond", "nrole_tr",
             "nrole_allow", "nfilename_tr", "nrange_tr", "class_perms_len", "num_blocks", "num_decls", "decl_ids_len"}
            \cup {l \o "_len" : l \in {"true_list", "false_list", "avtrue_list", "avfalse_list", "avrules"}}
Words(fs, x) == [i \in DOMAIN fs |-> Word(fs[i], x[fs[i]])[1]]
Struct(f, c) == <<[f |-> f, k |-> "struct", v |-> c]>>
RangeOf(f, c)== <<[f |-> f, k |-> "range", v |-> c]>>
List(f, s)   == <<[f |-> f, k |-> "list", v |-> s]>>
When(b, s)   == IF b THEN s ELSE <<>>
Error        == Word("POLICYDB_ERROR", 0)

\* The word a reader has read, or the cells under a tag; 0 or none when the file has another shape.
HasTag(in, f) == \E i \in DOMAIN in : in[i].f = f
At(in, f)     == in[CHOOSE i \in DOMAIN in : in[i].f = f].v
Val(in, f)    == IF HasTag(in, f) THEN At(in, f) ELSE 0
Sub(in, f)    == IF HasTag(in, f) THEN At(in, f) ELSE <<>>

Tags(fs)         == [i \in DOMAIN fs |-> [f |-> fs[i], k |-> "word", sub |-> <<>>]]
InStruct(f, lay) == <<[f |-> f, k |-> "struct", sub |-> <<lay>>]>>
InRange(f, lay)  == <<[f |-> f, k |-> "range", sub |-> <<lay>>]>>
\* n elements, read one after the other
InList(f, in, n, Read(_)) ==
    LET el == Sub(in, f)
    IN  <<[f |-> f, k |-> "list",
           sub |-> [j \in 1..n |-> IF j <= Len(el) THEN Read(el[j]) ELSE Tags(<<"past the end">>)]]>>
\* what the reader refuses although it is there
Check(b) == When(~b, Tags(<<"refused">>))

RECURSIVE Shape(_)
Shape(c) == [i \in DOMAIN c |->
               [f |-> c[i].f, k |-> c[i].k,
                sub |-> CASE c[i].k = "word" -> <<>>
                          [] c[i].k = "list" -> [j \in DOMAIN c[i].v |-> Shape(c[i].v[j])]
                          [] OTHER           -> <<Shape(c[i].v)>>]]

RECURSIVE HasError(_)
HasError(c) == \E i \in DOMAIN c :
                  CASE c[i].k = "word" -> c[i].f = "POLICYDB_ERROR"
                    [] c[i].k = "list" -> \E j \in DOMAIN c[i].v : HasError(c[i].v[j])
                    [] OTHER           -> HasError(c[i].v)
=============================================================================
