---------------------------- MODULE MCCondPolicy ----------------------------
(***************************************************************************)
(* Small source policies for CondPolicy.                                   *)
(***************************************************************************)
EXTENDS CondPolicy

CONSTANTS a, b, c, x, y, z, file, dir, p, q, d1, d2

TypeRule(cls, data) == [spec |-> "transition", pairs |-> expand_rule_helper(<<x>>, <<y>>, FALSE),
                        perms |-> [i \in DOMAIN cls |-> [tclass |-> cls[i], data |-> data]]]
AVRule(s, self, data) == [spec |-> s, pairs |-> expand_rule_helper(<<x>>, <<y>>, self),
                          perms |-> << [tclass |-> file, data |-> data] >>]
Cond(e, t, f) == [expr |-> e, avtrue |-> t, avfalse |-> f]

(* One key, three data; one of the rules has a second class. *)
TypeX == TypeRule(<<file>>, x)
TypeY == TypeRule(<<file>>, y)
TypeZ == TypeRule(<<file, dir>>, z)
TypeRules == {TypeX, TypeY, TypeZ}
TypeConds == {Cond(<<a>>, <<TypeX>>, <<TypeY>>), Cond(<<a, "NOT">>, <<TypeX>>, <<>>),
              Cond(<<a>>, <<TypeX>>, <<>>), Cond(<<b>>, <<>>, <<TypeX>>),
              Cond(<<a, b, "AND">>, <<TypeY>>, <<TypeX>>), Cond(<<b, a, "AND">>, <<>>, <<TypeX>>),
              Cond(<<a>>, <<TypeZ>>, <<>>), Cond(<<a, "NOT">>, <<TypeZ>>, <<TypeY>>)}

(* Access vector rules of every kind, with self pairs and exchanged branches. *)
Allow(self, data) == AVRule("allowed", self, data)
Dontaudit(data) == AVRule("dontaudit", FALSE, data)
AVRules == {Allow(TRUE, {p}), Allow(FALSE, {q}), Dontaudit({p}),
            AVRule("auditdeny", FALSE, {p}), AVRule("neverallow", FALSE, {p, q})}
AVConds == {Cond(<<a>>, <<Allow(FALSE, {p})>>, <<Dontaudit({q})>>),
            Cond(<<a, "NOT">>, <<Allow(FALSE, {q}), Dontaudit({p})>>, <<Allow(FALSE, {p, q})>>),
            Cond(<<a, b, "EQ", "NOT">>, <<Dontaudit({p})>>, <<Allow(TRUE, {p})>>),
            Cond(<<a, b, "NEQ">>, <<Allow(FALSE, {q})>>, <<>>)}
AllAVRules == AVRules \cup {Allow(FALSE, {p}), Allow(FALSE, {p, q}), Dontaudit({q})}

(* Extended permissions, as long as one conditional uses one driver. *)
Xperms(d, data) == AVRule("xallowed", FALSE, [driver |-> d, perms |-> data])
XRules == {Xperms(d1, {p}), Xperms(d1, {q}), Xperms(d2, {p})}
XConds == {Cond(<<a>>, <<Xperms(d1, {p})>>, <<Xperms(d1, {q})>>),
           Cond(<<b>>, <<Xperms(d2, {p})>>, <<>>)}

(* All of them. *)
AllRules == TypeRules \cup AllAVRules \cup XRules
AllConds == TypeConds \cup AVConds \cup XConds

\* The sources meet the conditions of the theorems about access vectors,
\* extended permissions and type decisions.
ASSUME CondsAreSound == SoundConds /\ OneDriver /\ SameClasses

=============================================================================
