# libsepol: a TLA+ verification project

libsepol turns SELinux policy source into the tables a kernel uses. Two front
ends lead there: binary policy modules are linked and expanded (`src/src`), CIL
is parsed, resolved and written out (`src/cil/src`). A policy in memory is a
`policydb_t`. The library also answers access queries on a policy, keeps a SID
table for it, edits its records, checks it, and reads and writes it.

The library is sequential: the lock macros of `sidtab.c` are empty, and each
call runs to its end. What makes it hard is elsewhere: results that depend on
the order in which rules, modules or blocks arrive; values that are cached and
must follow what they were computed from (flags of conditional rules, SIDs of
object contexts, `highbit` of a bitmap); renumbering between policies;
fixpoints over circular dependencies; failures in the middle of a call; and
counters and stacks at their limit.

## Inventory

| part | state | operations | what makes it correct |
|---|---|---|---|
| ebitmap | sorted list of 64-bit nodes, highbit | set, or, and, xor, not, compare, iterate, read, write | every operation is the set operation of its name |
| hashtab, symtab | chained buckets, nprim | insert, replace, remove, search, map | a finite map; values are 1..nprim |
| avtab | chained buckets of (key, datum) | insert, insert_nonunique, search, iterate, read | search finds every node of a key |
| conditional policy | booleans, conditionals with two rule lists | normalise, compare, evaluate, set a boolean | rules in force follow the booleans |
| rule expansion | the two avtabs of the base policy | convert_and_expand_rule, cond_node_copy | tables mean what the source rules mean |
| link | symbols, scopes, enabled declarations | link_modules | the largest consistent policy, or a justified refusal |
| symbol expansion | type and role sets, attribute maps | expand_module | sets of the expanded policy are those of the source |
| assertions, hierarchy | none (queries over a policy) | neverallow, bounds | no violation is missed |
| optimizer | avtab | remove redundant rules | decisions do not change |
| services | active policy, SID table, cached SIDs | context_to_sid, the object SIDs, load_policy, compute_av, compute_sid | a SID keeps its meaning |
| policy files | byte streams | policydb_read, policydb_write, policydb_validate | what is written can be read, and nothing else is accepted |
| records | users, booleans, ports, nodes, interfaces, InfiniBand objects | count, exists, query, iterate, modify | a modification is what a query sees |
| module packages | sections of a file | read, write | offsets stay in bounds |
| CIL | tree, symbol tables, blocks, macros, optionals | parse, build, resolve, reset, verify, post, binary | an optional counts completely or not at all |
| writers | none | policy to text | not modelled: formatting |

The parts call each other directly: link, then expand (which uses ebitmap, the
conditional functions and the avtabs), then the checks, then write; services
works on the policy that was read last. CIL builds the same `policydb_t` from
its own tree. There are no threads, messages or timers.

The hazards, each at its line, are in `PROJECT.json`.

## Modules

| module | code | what it says |
|---|---|---|
| `BitSet` | abstract | registers that hold sets of numbers |
| `Ebitmap`, `MCEbitmap` | `ebitmap.c`, iteration macros of `ebitmap.h`, `ebitmap_write` | node lists; implements `BitSet` |
| `Ebitmap_proofs` | | theorems about `Ebitmap` |
| `Induction` | | induction and recursive functions up to a number, for the proofs about loops |
| `CondExpr`, `MCCondExpr` | `conditional.c`, `validate_cond_expr` | expressions: evaluation, normalisation, comparison |
| `CondExpr_proofs`, `MCCondExpr_proofs` | | theorems about expressions of any length, and about those `MCCondExpr` builds |
| `CondPolicy`, `MCCondPolicy` | `expand.c` (rules), `conditional.c`, `booleans.c` | rules and conditionals expanded into two tables; booleans set afterwards |
| `CondPolicy_proofs` | | theorems about `CondPolicy`: type rules, flags, the reader's test, access vectors, extended permissions, type decisions |
| `Link`, `MCLink` | `link.c`, `avrule_block.c`, `symtab_insert` | linking of modules |
| `Link_proofs` | | theorems about `Link` |
| `SidMap` | abstract | a map from SIDs to context strings |
| `Services`, `MCServices` | `sidtab.c`, SID functions of `services.c` | the SID table and loading of policies; implements `SidMap` |
| `Services_proofs` | | theorems about `Services` |
| `CilResolve`, `MCCilResolve` | `cil_resolve_ast.c`, `cil_copy_ast.c`, `cil_reset_ast.c`, `cil_tree.c` | the passes over a CIL tree |
| `CilData` | `cil.c`, `cil_list.c`, the `cil_destroy_*` functions | objects of the CIL compiler: initial fields, ownership, destruction |
| `CilBuildAst` | `cil_build_ast.c` | statements built from parsed lists |
| `CilCopyAst`, `CilResetAst`, `CilResolveStmt` | `cil_copy_ast.c`, `cil_reset_ast.c`, `cil_resolve_ast.c` | what each of these does to a statement of each flavor |
| `CilStatements`, `MCCilStatements` | the callers of the above | the life of a statement, from its source to its destruction |
| `PolicyFormat` | `write.c`, `policydb.c` | cells of a file, layouts, the tests on versions |
| `PolicyWrite` | `write.c`, expansion for old formats in `expand.c` | what is written for a policy |
| `PolicyRead` | `policydb.c`, `avtab.c`, `conditional.c` | what is read, and what is kept of it |
| `PolicyValidate` | `policydb_validate.c`, indexing in `policydb.c` | what is accepted |
| `PolicyFile`, `MCPolicyFile` | `policydb_write`, `policydb_read` | a policy is written, perhaps damaged, and read back |
| `RecordData` | the `_record.c` files, `context_record.c` | records, keys, comparison, clone |
| `Records`, `MCRecords` | `users.c`, `booleans.c`, `ports.c`, `nodes.c`, `interfaces.c`, `ibpkeys.c`, `ibendports.c`, `context.c` | the records of a policy looked at and modified |
| `Records_proofs` | | theorems about `Records` |

**Ebitmap.** State: a few caller-owned bitmaps (`bm`) and the call that just
returned. A node is a start bit and a set of offsets; numbers wrap at `Limit`
(2^32 in the code). One action per function, each with its -ENOMEM outcome.
`ebitmap_read` is applied to file images that may be malformed. A loop of the
code is `Loop(n, start, turn)`: the function `turn` of the loop's variables
applied `n` times, `n` large enough, where a turn after the loop's condition
failed changes nothing. A node pointer is an index into the list.

**CondExpr.** No state in the code: the functions are operators on token
sequences in reverse polish notation, their loops recursive functions of the
number of tokens read. No boolean has the name of an operator
(`TokensAssumption`). The MC module enumerates expressions token by token.

**CondPolicy.** State: the two tables as functions from a key to the sequence of
its nodes in search order, the conditionals with their current state, the rules
still to be expanded, and the booleans. Expansion of a rule is one step per
(type pair, class) because a conflict found in the middle leaves what was
stored before. After the expansion, `sepol_bool_set` re-evaluates the
conditionals; `cond_insertf`, the test of the policy reader, is an operator.

**Link.** State: the symbols with flavor, scope and bounds, the list of blocks,
which declarations are on, the position in the loop of the moment. Modules are
copied identifier by kind, scope and block in the order of `copy_module`;
`enable_avrules` is one step per block, with its rounds; the role attributes
are expanded one replacement per step, because that loop need not end.

**Services.** State: the active policy, the table (chains sorted by SID, `nel`,
`next_sid`, `shutdown`), the SIDs cached in object contexts, the contexts the
current call still has to find SIDs for; during a load also the new policy, the
new table and what is left to visit. The first table is filled in the phase
`isids`, a load goes through `clone` and `convert`, one step per initial SID or
node visited, because each of them can fail after the ones before it took
effect; `calls` is the phase between loads. A policy is the relation between
context strings and the numbers that stand for them, with aliases and invalid
contexts; `convert_context` goes through the name. Every allocation may fail.

**CilResolve.** State: the tree as a sequence of nodes with their datums, the
nodes still in it, the lists kept per block and attribute, the bindings of
aliases, the pass and the rest of its walk. One step per node visited; the end
of a pass empties the disabled optionals and, after the calls, resets and goes
back to `CIL_PASS_CALL2`. A datum is named by the path of its symbol tables, so
a dangling pointer is a path that nothing declares any more; a lookup that
returns one ends in the status `undefined`. Statements are abstracted to the
four kinds that differ in what they do to others; kinds that only hold
references are one. `CilStatements` is about the kinds themselves.

**CilStatements** and the five modules below it. State: a heap of objects, each
with its flavor, its fields and what holds it; a pointer says whether it owns
what it points to. Some ninety functions each of `cil_gen_*`, `cil_copy_*`,
`cil_reset_*` and `cil_resolve_*` differ only in which fields they touch, and
in which order: each is a short description (`Same`, `List`, `Filled`, `Null`,
`Find` ...) that one operator per stage runs (`Build`, `Copy`, `cil_reset_ast`,
`Resolve`), failing at the step where the code does. The policy around the
statement is a block with an optional in it; one name of the statement may be
declared nowhere, with another flavor, in the optional only, or in both. The
statement and its copy stand on different sides of the optional, which may be
disabled before or after their pass.

**PolicyFile** and the four modules below it. State: the policy that is written
(`db`), the file as sections of tagged cells, the policy read so far (`got`),
the sections still expected. The C reader has no tags: `X_read` computes the
layout it expects from the words it has read, and a file of another shape is
rejected, which stands for reading one word as another. `Write` runs
`policydb_write`; then one step per section, for the indexing and for
`policydb_validate`. `Damage` replaces one reference in a file by one to a
symbol that does not exist. Sections that older formats lack, rules they hold
expanded and symbols they skip are all in the writer and in the reader, each
translated from its own file.

**Records.** State: users and booleans indexed by value, the object context
lists in order, the states of the conditionals, and a history `last` of what was
accepted for each key. One action per modify function with its refusals; the
functions that look are operators. Parsing and printing of addresses, prefixes,
names and MLS strings are constants that may map several spellings to one
value, with the assumption that what is printed parses back. Numbers are
narrowed to the width of their field.

## Runs

| run | shows |
|---|---|
| `ebitmap` | the list stays canonical under every sequence of calls on two bitmaps, queries and iteration agree with sets, a file image never yields a malformed list, refinement of `BitSet` |
| `cond_expr` | an accepted expression always evaluates, normalisation keeps the meaning, comparison is exact for booleans in the same order |
| `cond_policy` | at most one type rule in force for a key, flags follow the booleans, vectors and lookups are those of the source, the result passes the tests of the reader |
| `link_modules` | the blocks kept are the greatest consistent set, a refusal is justified, one branch of each block in force, requirements declared, flavors agree, attributes hold the roles they stand for, linking ends |
| `sid_table` | the table stays searchable and its entries valid, cached SIDs are current, SIDs dropped by the last load read as unlabeled, refinement of `SidMap` |
| `cil_resolve` | after the resolution every reference is what a fresh lookup finds, attribute lists hold each set once, block lists hold the living blockinherits, each blockinherit got its block once, no optional is disabled needlessly, the resolution ends |
| `cil_statements` | for every kind of statement, well-formed or not: each allocated part has one owner, is freed once and read only while it lives; a copy says what the original says and shares nothing with it; after an optional was disabled the policy is what it would be had the optional never been there |
| `policy_file` | what is written for any version is accepted by the reader (`ReadBack`); the newest formats lose nothing and a second trip through an older one loses nothing more (`WriteStable`); access is the same after the rules were expanded for a format without attributes (`AccessKept`); no damaged reference gets through (`DamageRejected`) |
| `records` | a query answers with what was accepted last for its key, whatever was called in between, and a user whose modify was refused halfway has the roles given before that and authorises no context (`QueryAnswersLast`); counting, visiting, comparing and looking up agree, and what is printed reads back (`ViewsAgree`) |
| `cond_expr_equal` (violation) | two different expressions over the same booleans are taken as equal |
| `link_role_loop` (violation) | role attributes that hold each other below a third one: linking does not end |
| `policy_file_role_attribute` (violation) | a module with a role attribute, written for a version before 13, cannot be read back |

The passing runs stay clear of these disagreements, and of those listed under
"Known limitations", by their constants (one driver per conditional, no
expression with two NOTs at its end, no loop of role attributes below a third
one, roles that are not both required and declared in one module, six flavors that are not copied),
rather than by weaker properties. Three properties say less than their names:
`ReadBack` excepts the modules of `policy_file_role_attribute`; `ViewsAgree` says
only of interfaces and users that they occur once, since ports, nodes and
InfiniBand objects do not; and `QueryAnswersLast` says nothing of the MLS strings
of a user whose modify was refused halfway (for the last two see "Known
limitations").

### Bounds

* `ebitmap`: maps of 2 bits, numbers below 8: three nodes and the node whose
  highbit would wrap; two registers, because every operation takes at most two
  operands. More nodes repeat the cases first, middle, last.
* `cond_expr`: three booleans with COND_MAX_BOOLS 2, so that the recorded
  booleans overflow; a stack of two entries, one fewer than a five-token
  expression can ask for.
* `cond_policy`: three rules or conditionals out of about thirty, two keys for
  type rules, one of them asked for by a rule with two classes, two booleans.
  Conflicts are between a new rule and nodes of at most two conditionals; three
  sources make every such combination.
* `link_modules`: up to three modules out of eighteen in every order. The
  dependencies include a cycle of two blocks, a chain that is undone from its
  end, an else branch that declares what another block needs, three levels of
  role attributes, and two attributes that hold each other with none above them
  (a loop that the expansion does leave).
* `sid_table`: two buckets, six SIDs, four context strings, three policies.
  Initial SIDs, object contexts and requests exceed the SIDs that are left.
* `cil_resolve`: groups of two to four statements in every order, with copies up
  to about thirty nodes. The groups make optionals fail in every pass that can disable
  one, make them fail in turn, nest them, and let them hide a
  declaration of an outer scope. `multiple_decls` is on, so that a datum can lose
  one of its nodes. The limits on inheritance are 1 and 3 (10 and 1024 in the
  code) so that a chain of four blocks is refused.
* `cil_statements`: at least one statement of every keyword; each of them with
  every node in turn replaced by a keyword or an empty list, one node more and
  one fewer; each name in turn missing, of another flavor, declared in the
  optional, or hidden by it; and the places a statement may stand in. One
  statement and one copy at a time: what two statements do to one declaration is
  in `cil_resolve`. `CIL_PERMS_PER_CLASS` is 2, so that a class can be full.
* `policy_file`: kernel versions 15 to 34 and the two versions beyond, xen, base
  and module versions 4 to 22, each with a policy that has at least one entry of
  every table, with and without MLS, and with each feature that some version
  refuses. Damage is tried on every kind of reference, in seven formats that
  differ in how they keep symbols, ranges and attributes. The tables are small
  (two or three entries) because the format is a list of independent entries;
  two are needed for merging and order.
* `records`: three calls, two loaded users and a third name, two bits for ports
  and keys and one for end ports, so that numbers wrap; records that are good,
  misspelt, refused, and spelt in two ways. Three calls are enough to add an
  entry, hide it, and have it or a user it names modified.

### Fairness

`Link` and `CilResolve` have a liveness property: weak fairness of their
next-state relations, which is only that a call that can go on does go on.

## Proofs

The theorems hold for every value of the constants that meets the assumptions
named in the modules; each passing run evaluates the assumptions on its own
constants. Induction is available through `Induction`: `Induct`, proved from the
well-foundedness of the naturals, says that a set of numbers closed under
successor is complete, and `Iterates` that a function may be built value by
value. Loops and functions over sequences are reasoned about with these two.

### Bitmaps (`Ebitmap_proofs`)

Assumed: a map has at least one bit, the limit of bit numbers is a multiple of
the map size and leaves room for two nodes (`EbitmapAssumption`; 64 and 2^32 in
the code).

* `RepresentationHolds`: every list stays sorted, aligned, without empty nodes,
  and `highbit` is one past its last node. `RepInvariant` is inductive as it is.
* `SetsImplemented`: each call is the set operation of its name; the
  specification implements `BitSet`.
* `QueriesAnswer`: membership, comparison, inclusion, intersection, cardinality,
  distance, highest bit and the iteration macro answer as the sets would.
* `ImagesAreChecked`: no image, whatever its count, highbit and nodes, makes
  `ebitmap_read` build a malformed list.

Everything is said through `On(n, k, s, o)`: one of the first `k` nodes of the
list `n` holds offset `o` of the map that starts at `s`. A loop has an invariant
in these terms, per turn (`LoopInvariant`): the two cursors of `or`, `and`, `xor`
and `contains` are abreast, so that everything below the smaller start bit was
dealt with and nothing above it was (`Meets`, `MergeTurn`); `not` has covered
exactly the stretch below its counter (`NotTurnOK`); the iteration has visited
exactly the bits below its bit (`VisitTurnOK`). The queries need one thing more:
a set has only one list (`Canonical`), which is why `ebitmap_cmp` may compare
node by node.

### Expressions (`CondExpr_proofs`, `MCCondExpr_proofs`)

* `ValidExpressionsEvaluate`: what `validate_cond_expr` accepts evaluates, under
  every assignment, without over- or underflow of the stack. The validator's
  counter is the height of the evaluation's stack after each token
  (`DepthIsHeight`).
* `StrippingKeepsMeaning`: taking the last NOT off and exchanging the branches
  leaves the branch in force the same.
* `EqualDecidesEquivalence`: for booleans that first occur in the same order
  `cond_expr_equal` is equivalence, by the truth table up to `COND_MAX_BOOLS`
  booleans; above that it is identity. The violation run `cond_expr_equal` shows
  what happens in another order.

`MCCondExpr_proofs` applies them to the properties of the run.

### Conditional policy (`CondPolicy_proofs`)

For every set of booleans, types, classes, rules and conditionals, and every
sequence of rules:

* `TypeCorrect`: the tables, lists and cursors keep their types;
* `UnambiguousTypeRules`: for a key there is at most one unconditional type
  rule, and at most one conditional one in force under the current booleans;
* `FlagsAlwaysAgree`: a conditional rule is enabled iff its expression has the
  value of its branch;
* `ExpandedPolicyReadable`: every conditional type rule passes `cond_insertf`,
  although that function looks at the table in another order.

These need more than they say. `expand_terule_helper` looks at the first
conditional node of a key only; it is safe because of `OneConditional`: all type
nodes of a key belong to one conditional, one per branch. Together with
`FlagsFollowStates` (a node is enabled iff its branch is the one its conditional
is in, kept by the insertion and by `evaluate_conds`, which skips conditionals
whose state did not change) and `StatesCurrent` this is the inductive invariant
`Inv`.

* `AccessVectorsMatch`: under every setting of the booleans the access vectors
  of the tables are those of the source rules in force;
* `ExtendedPermissionsMatch`: the same for extended permissions;
* `TypeDecisionsMatch`: a type lookup finds a type when, and only when, a type rule
  in force asks for one, and finds what such a rule asks for.

The argument counts marks (a permission that a rule grants, denies to audit, and
so on, at a key). For every assignment of the booleans, not only the current
one, the marks of the nodes in force and of the rules that still wait are
together the marks of the source (`MarksKept`), and of the rule being expanded
everything before the cursor is already stored (`ItemsStored`). The theorems have
hypotheses, because the code needs them: `SoundConds` (conditionals that
`cond_expr_equal` takes as equal are equivalent, and no expression ends in two
NOTs), and for extended permissions `OneDriver` (conditionals that share a
`cond_node_t` use one driver for a key, because `find_avtab_node` does not look
at the driver once it searches a conditional's own list). What happens without
them is under "Known limitations"; the run's sources meet them
(`CondsAreSound`).

For types the mark only says that a key has a rule: which type it is may change,
since a rule overwrites an older one of its list when the first node is the other
branch's. That the type found is asked for is therefore said apart
(`TypesFromSource`): every type in a list comes from a rule that the source asks
for whenever the list is in force. Of that rule all classes of the pair have a
node in the list, unless the cursor is still inside the pair; this is what makes
it harmless that `expand_terule_helper` leaves the pair at its first duplicate
(`DuplicatePair`). The hypothesis is `SameClasses`: no rule names a class twice,
and rules that meet with the same type have the same classes. Without it a
duplicate keeps the classes after it out of the table (`expand.c:1761`).

### Linking (`Link_proofs`)

For every base and every sequence of modules:

* `GreatestEnabled`: when `enable_avrules` is done with the main branches, the
  declarations on are the greatest set in which every requirement is met by a
  declaration of the set;
* `RefusalsJustified`: it refuses only if no consistent set satisfies the
  non-optional blocks;
* `OneBranchInForce`: each block has the branch in force that its flag names;
* `LinkedSymbolsAgree`: the base and all linked modules agree on the flavor and
  bounds of every symbol;
* `OtherRequirementsDeclared`: a required type, boolean, class or level is
  declared by an enabled declaration;
* `RequirementsAreDeclared`: the same for every symbol, if no policy that
  declares a role or user also requires it;
* `RolesAreExpanded`: when linking succeeds every role attribute holds exactly
  the roles it stands for, given the members that the base, the modules and the
  enabled declarations put into it, loops of attributes included.

For the first three: meeting requirements is monotone in the set of declarations
that are on (`Monotone`), so a block that fails with the current set fails with
every smaller one; every consistent set is therefore contained in the current
set throughout, whatever the order (`KeepsConsistent`); when a round changes
nothing the set is itself consistent. That declaration numbers stay unique across
modules (`UniqueDecls`) is part of the invariant.

`AgreeInv` says which modules have been copied far enough to agree. `DeclInv`
says that the last entry of a scope list declares its symbol and that the map
of a module's declarations leads to copies of them, starting from policies whose
lists say so (`ScopesAssumption`). For roles and users the last entry is not
enough: `is_id_enabled` accepts any enabled entry of their list
(`avrule_block.c:174`), a requirer's too. A module that requires a role and
declares it in an optional that is disabled is accepted without a declaration,
hence the condition.

For the attributes, `StandsFor` is the least set that holds the members and,
with an attribute, its members. `RolesInv` says that the roles gathered so far
are those of the modules copied so far, that the declarations on are the ones
the blocks name (so visiting the blocks finds them all; the first block adds
nothing, `FirstBlockAssumption`), and that no replacement changes what any
attribute stands for (`ReplacingKeepsMeaning`: a set closed before is closed
after, and conversely once the replaced attribute is added). An attribute that
is done holds roles only, and then it stands for what it holds. The theorem says
nothing of whether the loop ends: `link_role_loop` shows that it may not.

### SID table (`Services_proofs`)

For any number of buckets and SIDs and every set of well-formed policies
(`SizesAssumption`, `PoliciesAssumption`):

* `TableStaysOK`: the chains stay sorted, a search finds every node, the count
  and the next SID are right, and all contexts are valid in the active policy;
* `ObjectSidsStayCurrent`: a SID cached with an object context is in the table
  in force and names that context;
* `DroppedStayUnlabeled`: a SID that the last load removed reads as unlabeled;
* `RefinesSidMap`: the specification implements `SidMap`.

`Inv` adds what a call in progress has achieved: which initial SIDs, nodes of the
old table and converted nodes the new table already holds (`IsidsOK`, `CloneOK`,
`ConvertOK`), and which contexts of which object the current call still works on
(`JobOK`). The refinement needs that a conversion keeps the string of every
context it does not drop.

### Records (`Records_proofs`)

For every loaded policy, every set of records a client may hand in and any
number of calls. Assumed: what is printed parses back (`PrintedParsesBack`,
`MlsPrintedParsesBack`), cutting a name twice is cutting it once (`CutOnce`), a
number is stored below some limit (`LimitsPositive`; 2^16, and 2^8 for end
ports), names of roles and types lead to one value (`RolesAssumption`,
`TypesAssumption`), and the loaded tables name each boolean, user and interface
once, with what an MLS policy has to have (`LoadedAssumption`).

* `AnswersLastHolds`: a query answers with the record accepted last for its key,
  whatever was called in between, and a refused call changes no answer but that of
  the user it names;
* `ViewsAgreeHolds`: for each of the seven kinds the count is the number of
  records visited, a handler that fails ends the visit, a key exists exactly if a
  visited record compares equal, the query returns the first of these, the
  comparison orders the records; the printed address of a node is a key to it,
  a printed context is read back as it was, and interfaces and users occur once.

The inductive invariant is `IInv` (`Inductive`). A modification of a port, node
or InfiniBand object leaves older entries of its key behind it in the list, so
the invariant speaks of the first entry of a key: for every key a client may form,
the record made of its first entry is the one expected (`Expects`). Interfaces,
booleans and users are replaced, so their names stay unique. A context is printed
through the user it names: a modified user keeps its value and name
(`NamesKept`), so older entries read as before. A user that was refused halfway
has the roles given to it before the first unknown one, no range and no
authorisations, and is told apart from one that was accepted (`UserSaid`): a
query answers with those roles (`UserAnswers`), and a context that names the user
and a role of its own is refused until a call for it is accepted
(`HalfFilledAuthorisesNothing`). That the
roles a client reads are those it gave, in the order of their values, is the
count of values below each of them (`Rank`). The visit of the nodes is one list
after the other (`NodesVisited`); a comparison is of the sequences of fields,
whatever its nested tests (`CompareIs`, `NodeCompareIs`).

### Only model-checked

* Liveness (`Link`, `CilResolve`): out of the prover's reach.
* `CilResolve` and `CilStatements`: names are looked up, and trees copied,
  destroyed and reset, by operators that are recursive in one another; what those
  compute for every tree is induction over data, which the prover cannot do.
* `PolicyFile`: `Shape`, `Load` and `Damaged` recurse over nested cells, and what
  is said of a policy is what they compute for it.

## Known limitations of the code that the models follow

* `expand_terule_helper` returns at a duplicate rule, and the classes after it
  are not installed (`expand.c:1761`).
* A module that requires a further permission of a class only required so far is
  refused (`link.c:148`; the comment at `link.c:114` wants it otherwise).
* After a load whose clone failed the SID table stays shut down
  (`services.c:1839`), and a load that cannot read the new policy destroys the
  active one (`services.c:1824`).
* A SID dropped by one load can be given out again after the next.
* When the first conditional node of a key is in the other branch, a conflicting
  type rule overwrites the one of this branch without a report
  (`expand.c:1741`; `expand.c:1958` promises `EXPAND_RULE_CONFLICT`).
* With `multiple_decls`, a call argument that is only declared by the call takes
  the datum out of its table for good when the second lookup fails
  (`cil_resolve_ast.c:3097`).
* Expressions with two NOTs at their end exchange the branches of a conditional
  once although both are stripped (`expand.c:2067`), and extended permissions of
  two drivers under one key in a conditional end in one node.
* A conditional `b1 && !b2` equals `b2 && !b1`: the booleans are compared as
  sets, the truth tables by position (`conditional.c:111`).
* A permission added by a module takes the number `nprim + 1` without nprim being
  increased (`link.c:171`); a role declared only in a disabled optional counts as
  declared when the module also requires it; `expand_role_attributes` clears a bit
  of the bitmap it goes through (`link.c:2383`); an entry that turns from required
  to declared keeps its place in its list (`policydb.c:1757`).
* `ebitmap_not` steps a 32-bit counter by 64 and does not end for a maximum in the
  last node (`ebitmap.c:173`); `ebitmap_init_range` that runs out of memory leaves
  its nodes linked under highbit 0 (`ebitmap.c:465`).
* `discard_tunables` has room for `COND_EXPR_MAXDEPTH` tunables, fewer than an
  expression can name (`expand.c:2907`); `sepol_set_policydb_from_file` leaves the
  SID table empty, without the initial SIDs (`services.c:152`).
* A call in a called macro may keep an argument that went away with a disabled
  optional until it is resolved again (`cil_resolve_ast.c:536`).
* `cil_copy_sidcontext` does not copy the name of the sid (`cil_copy_ast.c:361`),
  `cil_copy_genfscon` not the file type (`cil_copy_ast.c:1105`); copies of classes
  and commons lose the number of permissions and their values. A role whose name
  the destination declares already is replaced by that declaration, which is then
  entered a second time. `CilStatements` describes these copies, and the run keeps
  the flavors concerned (`NotCopied`) from being copied.
* A list of one element as the context of a filecon counts as the empty list
  (`cil_build_ast.c:4182`); leaving a tunableif forgets the one it is nested in
  (`cil_build_ast.c:6506`).
* `sepol_port_modify`, and those of nodes and InfiniBand objects, add an entry
  before the others and never replace one (`ports.c:274`; `ports.h:27` says
  "Modify a port, or add it, if the key is not found"), so counting and visiting
  see every version.
* `sepol_node_iterate` goes on with the IPv6 nodes when its handler asked to stop
  among the IPv4 ones (`nodes.h:36`).
* `sepol_user_modify` empties a user before it looks at the new data and does not
  expand the roles of a user that existed: after a refusal the user has no range,
  and after a success contexts with its roles are refused (`users.c:146`).
* An optional is always taken to hold declarations, because
  `cil_tree_subtree_has_decl` is asked for the optional's own node: every
  disabled optional restarts the passes.

## Not modelled

* The writers of text (`kernel_to_cil.c`, `kernel_to_conf.c`, `module_to_cil.c`,
  `cil_policy.c`, `cil_write_ast.c`), logging, the command line tools: formatting.
* Of the CIL compiler: lexer and parser, in-statements and tunables in the passes,
  anonymous arguments of macros, the merging of ordered lists, verification,
  post-processing and the binary output. The declarations around a statement are
  an environment in `CilStatements`, a tree in `CilResolve`.
* Of policy files: strings and bitmaps are values (bitmaps have their own module),
  hash values and the order of hash chains are left out, and a file ends where the
  writer ended it. The reader's refusal of a key found twice (`hashtab_insert`), its
  limits on values and names (`policydb.c:2281`, `:3000`) and the class that old
  range transitions need (`:3586`) are left out, and of the validator undefined
  levels (`policydb_validate.c:679`), class values above 16 bits (`:442`), the
  booleans recorded with a conditional (`:1183`; a policy that was read has none),
  the flags of blocks (`:1570`), the switch over platform and MLS (`:1698`) and the
  gaps of the datum arrays (`:1799`). The model so accepts more than the code; no
  file of the run has one of these.
* Of records: allocation failures, category sets and gaps in the table of users
  (`users.c:28`); the key given to a modify function is the one of its record.
* Decisions, avtab and hashtab as chains, symbol expansion, assertions, hierarchy,
  optimizer, module packages: planned below.

## Plan

1. CIL, the rest: in-statements, tunables, ordered lists; an abstract module for
   the greatest set of satisfiable optionals, proved about and implemented by
   `CilResolve`. Then verify, post, binary.
2. Decisions: `context_struct_compute_av`, constraints, MLS, `sepol_compute_sid`,
   composed with `CondPolicy`'s tables.
3. Avtab and hashtab as chains, refining the functions used above; optimizer
   ("decisions do not change") and assertions ("no violation is missed") on top.
4. Symbol expansion and tunables; module packages.
5. Theorems: the fixpoint of the CIL optionals, a weaker condition on roles in `RequirementsAreDeclared`,
   soundness of the optimizer's test, the avtab order.
