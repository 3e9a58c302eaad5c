# A TLA+ model of typokat's semantic core

typokat type-checks TypeScript. Its correctness rests on a handful of stateful
mechanisms that unit tests reach badly: verdicts cached across queries,
recursion closed by assumption, speculative layers, classes published in
dependency order, types narrowed around loops, argument walks that are
repeated, discarded and memoised, workers that share a library and a permit.
This directory models them, checks the models with TLC and proves their main
theorems with TLAPS.

Paths below are relative to `src/`; `query/mod.rs` is
`crates/typokat-check/src/check/query/mod.rs`, `relation/mod.rs` is
`crates/typokat-relate/src/relate/relation/mod.rs`, and `checker/...` is
`crates/typokat-check/src/check/checker/...`.

## 1. Inventory

| Component | State | Operations | Interaction |
|---|---|---|---|
| Relation engine, `relation/mod.rs`, `relate/cache.rs` | cycle stack, pending and durable verdicts, contextual memo, demand and exhaustion flags | `relate`, `is_assignable_attempt`, `finish_planned` | called by the coordinator; asks the planner's overlays to normalise |
| Structural rules, `relation/{mod,set_types,objects,collections}.rs` | none of their own | `relate_uncached` and one helper per type form | call `relate` recursively |
| Query coordinator, `query/mod.rs` | borrows the query state | `is_assignable`, `is_identical`, `demand`, `infer_types`, `overload_implementation_compatible` | called by the checker for every type question |
| Projection planner, `query/mod.rs` | overlays, frontiers, admitted applications, taints | `prepare_relation_roots`, `expand_relation_demand`, `into_commit` | expands what an attempt demanded |
| Query state, `query/mod.rs`, `relate/cache.rs` | memos, layered cache, journal, savepoints, identities | setters, `savepoint`, `commit`, `rollback`, `reset_semantic_context` | written by queries, layered by the checker |
| Type store and interner, `typokat-types` | types, constraints, graph identity | intern, reserve, fill, set constraint | every mutation renews the identity that queries compare |
| Class publication, `checker/classes/{construction,publication}.rs` | drafts, component graph, published surfaces, poisoned groups, records | build the graph, publish a component, demand a class | after lowering; read by planner and coordinator |
| Evaluation and substitution, `checker/eval` | evaluation memo, active set | evaluate, substitute | run by the planner; report cycles and budgets |
| Inference, `check/infer` | candidates, savepoints | infer from a pair, transaction | inside call checking |
| Overload resolution and argument walks, `checker/{calls,expr,mod,context}.rs` | held walks, raw and contextual memos, declaration types and their observation log | walk raw, try a candidate, commit, settle | re-walks each argument per candidate; writes declarations |
| Events, `checker/{events,lexical_events}.rs`, `checker/mod.rs` | stack of record batches, owners | capture, merge, supersede, discard | every walk emits into the innermost batch |
| Flow and narrowing, `check/flow.rs`, `checker/flowgraph` | flow graph, durable memo, provisional loop seeds, loop depth | build, walk on demand, invalidate | answers references; its memo outlives a walk |
| Binder, `typokat-binder` | scopes, symbols, namespaces | bind, merge, attach | before checking; says which library owners a project mutates |
| Front end and project, `typokat-frontend` | parsed files, resolution | load, resolve, order | feeds the driver |
| Library base, `typokat-library`, `checker/library_compiler.rs` | `OnceLock` with base or failure, replay schedule, process-wide permit | initialise once, route a collision, replay owners, recompile | shared by all calls and workers of a process |
| Driver, `typokat-driver` | jobs, results, reports | fan out, route, check, fall back, join | top level; one thread per job |
| Command line, `src/main.rs` | none | print, exit | calls the driver |
| Diagnostics, surfaces, spans | plain data | rendering | output |

What is hard here:

- **Recursion by assumption.** A key in flight is taken to hold. A success found
  under that assumption is provisional, and committing one poisons later,
  unrelated queries.
- **Passes that are not verdicts.** An attempt that meets an unexpanded type goes
  on with a made-up "no" (or, for an apparent surface, a made-up "yes").
- **Taint and exhaustion.** A query may return a useful answer and still be
  forbidden to leave anything behind.
- **Speculation.** Savepoints nest, a query inside one may discover that the
  graph changed and reset the whole state, and the reset itself may be undone.
- **Order.** All of the above must not make answers depend on which statement was
  checked first, which reference was narrowed first, or how class numbers were
  allocated.
- **Repetition.** An argument is walked many times and may report once; the memo
  that makes this affordable must not be observable.
- **Threads.** Calls race for the one library of the process; workers whose
  project collides with it queue on a condition variable for a permit whose token
  is cloned, moved into an epoch and dropped on several paths, panics included.

The properties that make each part correct are listed with the modules in section
3 and, as hazards at their lines, in `PROJECT.json`.

## 2. Plan

Done, in the order of importance:

1. `RelationRules`, `RelationEngine`: the search and the coordinator around it.
2. `NestedTransactions`, `SemanticQueryState`: memos under savepoints, resets and
   rollbacks.
3. `LibraryReplay`, `CheckSession`: library, routes, permit, workers and reports.
4. `ClassPublication`: components, initialisation order, poisoning, surfaces.
5. `FlowPrograms`, `FlowGraph`, `FlowSemantics`, `FlowNarrowing`: the pre-pass and
   the demand walk, against a path-based reference.
6. `ArgumentWalk`: walks of a call's arguments, their records and memos.

Left, in this order:

7. `StructuralRelation`: the rules of `relate_uncached` over a small type graph,
   giving `RelationRules` its `Rule` instead of assuming it.
8. The planner in detail (visit policies, admission order, derived occurrences) and
   the coordinator's other entry points (`is_identical` with its retry state,
   `demand`, `infer_types`, `overload_implementation_compatible`).
9. The interner and layered store; declaration merging in the binder; the evaluator's
   cycle-tainted memo; inference.

Every safety property the passing runs check is a theorem, but for two: `Transparent`
and `ReportedOnce` of `ArgumentWalk` are false for some programs (section 6), so a
theorem needs a condition on programs that is not known yet.

## 3. Modules

### RelationRules and RelationEngine

`RelationRules` states what assignability means: each key (normalised source,
target, relation kind and binder environment) has a rule, a conjunction of
disjunctions over other keys, and the relation `Holds` is the greatest fixpoint.
`Under(A)` is what follows when the keys of `A` may be assumed.

`RelationEngine` is the machine that computes it. Correspondence:

| Model | Code |
|---|---|
| `queries`, `Ask`, `AnswerEarly`, `NoEarlyAnswer` | `is_assignable` up to the shortcut |
| `AskWitness`, `WitnessHolds`, `WitnessFails` | `same_class_covariant_argument_mismatch` |
| `BeginPlan`, `Expand`, `Forms`; `plan`, `planTaint`, `cycleTaint` | `ProjectionPlanner`, its budget, frontiers and cycle taint |
| `StartAttempt` | `Relater::planned` and the entry of `is_assignable_attempt` |
| `CallFrontier` ... `CallPush` | the checks at the head of `relate`, in their order |
| `Descend`, `Deliver` | `relate_uncached`: one recursive call and its result |
| `Complete`, `Clamped`, `Outstanding`, `Commits`, `CommitsContext` | the tail of `relate` |
| `Retry`, `Finish`, `Promote`, `CommitPlan`, `Remember` | the attempt loop and the commits of `is_assignable` |
| `durable`, `memo`, `strike`, `normal` | `relation_cache`, `completed_relations`, `completed_relation_no_candidates`, `projection_memo` with `evaluation_memo` |

Abstractions. Types are abstracted to keys; a rule's shape is a parameter. What
a type expands to is a node whose form is chosen nondeterministically: ready,
frontier (unpublished class, budget of the evaluator), or cyclic, in which case
the key reached through it may be the wrong one (`Garbled`). The class budget
itself is counted. Reasons are abstracted to whether the caller wants one,
because that decides whether a cached failure answers. A binder environment is
part of a key (`Contextual`); the specialisation epoch, which only ever forbids
an entry of the contextual memo, is left out, so the model's memo holds at
least as much as the code's.

Properties:

- `DurableSound`, `MemoSound`, `AnswerIsFixpoint`: what is cached and what is
  answered without taint agrees with the fixpoint, whatever was asked before.
- `AssumptionsInFlight`: no assumption outlives the frame of its key.
- `ExpansionsClean`: nothing computed through a substitution cycle is kept.
- `DurableStable`: promotion, which overwrites, never changes a verdict.
- `EveryQueryAnswered`: recursion and the demand loop terminate.
- `SearchSound`: the inductive core, proved (section 5).
- `TaintChangesNothing`: violated, see section 6.

### NestedTransactions and SemanticQueryState

`NestedTransactions` is what a caller may expect of savepoints: only an open
query changes what queries read, a commit keeps what its layer wrote, a rollback
brings back what was visible at the savepoint, and between queries the world may
change, which makes everything remembered, at every depth, unreadable.
`SemanticQueryState` is the representation: one journal for all layers, marks
into it, a cache that layers itself, and a reset that moves the whole context
into the journal. An entry is modelled by the graph identity, class snapshot and
settings it was computed under, which is exactly what decides whether reading it
is right. `projection_memo`, `evaluation_memo` and `completed_identities` are
handled alike by every operation and share one variable; `publication_clean` is
stamped in the same way. Rollback is one action per undone record, so that the
state in the middle of it is visible; no query runs meanwhile. `saved` is a
history variable for the refinement.

- `Transactional`: `NestedTransactions!Spec`. The mapping shows what is *readable*:
  nothing, when the context belongs to another graph or setting than the present
  one (the next query will reset it), and during a rollback already what was
  saved. The graph may change at any depth.
- `LayersSuffice`: the `expect`s of `commit`, `rollback` and
  `take_savepoint_base` hold.
- `FreshReads`: no query reads an entry of another graph or setting.

### LibraryReplay and CheckSession

`LibraryReplay` holds the pure part of the collision routes of
`library_compiler.rs` and `base.rs`: `PreflightRoute` decides between frozen
library, sparse replay and complete source from the names a project declares;
`SeedOwners` and `close_owners` compute which library owners must be replayed (a
recursive function: the closure under consumers), `Reclosed` closes again once
binding has shown what was really mutated, `RequiredSources` and `Loadable` say
which library files that needs.

`CheckSession` is the process:

| Model | Code |
|---|---|
| `library`, `EnterInitialize`, `FinishInitialize`, `TakeLibrary` | `OnceLock::get_or_init` in `provider.rs`: the result, a failure too, is kept |
| `Spawn`, `Skip`, `Panic`, `Return` | one thread per project (`check_project`, `check_source`), or the bounded pool of `check_files`; join and first error |
| `RouteShared`, `RoutePrivate`, `Acquire`, `SpuriousWakeup` | routing and `acquire` of the permit: flag, mutex and condition variable |
| `lease`, `DropLease` | the clones of the token: the driver's and the one inside an epoch; `Drop` of the last clears the flag and wakes one waiter |
| `RouteSparse`, `InstallSparse`, `BindSparse`, `PassSparse` | the sparse attempt, each with its fallback |
| `CompileSource`, `BindSource`, `PassSource` | the complete-source fallback |
| `assemble_project_reports`, `assemble_in_slot_order` | reports in input order although files are checked in dependency order |

Abstractions: a project is whether it parses, which colliding names it declares
and whether the preflight is uncertain; a check yields the route it was answered
on; a report is the file it is about. What binding mutates is any set of
`Mutations`.

- `PermitExclusive`, `NoLostWakeup`: mutual exclusion over every fallback and
  panic, and no waiter forgotten.
- `OneLibrary`: every call of the process sees the one result that is kept.
- `SparseComplete`: a sparse answer has replayed all that binding mutated, closed
  under consumers, out of loaded files.
- `AllOrNothing`: reports are complete and in input order, or there are none.
- `EveryCallAnswered`: every call returns.
- `OneUniverse`: violated, see section 6.

### ClassPublication

A draft has a hard base (`extends`), soft bases (interfaces merged with it), the
classes it mentions and the reasons it could not be lowered. `BuildGraph` is the
construction of the dependency graph, `OpenComponent` the choice of the next
component with what is decided for it as a whole (inheritance cycle, poisoned base,
recoverable mixed cycle) and its records, `ConstructClass` one class of it in
initialisation order with the composition of its members, `Publish` the final
registry. `id` is the allocation of `ClassId`s, which orders components;
the numbering of drafts is source order, by which a recovered cycle is cut. A
surface is the set of classes whose members it has.

- `PoisonExact`: the poisoned classes are the least solution of a rule over the
  sources, whatever the allocation and order.
- `SurfaceExact`: a published class is composed of its own members and the whole
  surfaces of a set of its bases, the static side of the one it extends. Every base
  that recovery passes on is in the set, no class is composed from one composed from
  it, and a base declared later in a cycle is in the set only when the class waited
  for one declared later still. A poisoned class has no surface.
- `BasesComplete`: a base outside the component is complete before it is composed
  from.
- `Explained`: poisoned if and only if recorded.
- `EveryClassFinal`: publication ends with a registry.
- `PoisonPropagates`: violated, see section 6.

### FlowPrograms, FlowGraph, FlowSemantics and FlowNarrowing

`FlowPrograms` is the syntax shared by the others: statements, conditions, guards
and what a guard keeps of a union (`narrow_by_...` in `flow.rs`), member by member.
`FlowGraph` is the pre-pass (`checker/flowgraph/mod.rs`, `exprs.rs`):
antecedents, labels, true and false targets, switch clauses, dead code, functions,
and the statements that build nothing. `FlowSemantics` models no code. It is the
reference: the values a variable can have at each reference, as a fixpoint over the
tree, read in two ways, as a run of the program and as the types of the paths.
`FlowNarrowing` is the walk of `flowgraph/nodes.rs`:

| Model | Code |
|---|---|
| `Resolve`, `VisitAssignment`, `VisitCondition`, `VisitBranch`, `Return` | `resolve_narrowed_type`, its explicit stack and scratch |
| `EnterLoop`, `LoopSeed`, `LoopPart`, `LoopDone` | `resolve_loop_label`: seed from the entry, one walk per back edge, one unroll |
| `memo`, `flow_set`, `flow_lookup_cached` | `flow_memo`, written only outside loops |
| `provisional`, `depth` | `flow_provisional`, `flow_loop_depth` |
| `Publish` | `set_variable_decl_type`, which forgets the symbol's entries |

`narrow_query` may exhaust on guards that demand a member's shape; the type is then
kept as it was. Every object value has exactly its declared properties.

A graph is a constant of `FlowNarrowing`, restricted by `WellFormed` alone, so the walk
is not tied to how graphs are built. `Arrives` says along which nodes a value travels,
and `GraphCovers` that every value the program can have at a reference arrives there:
`Sound` is the claim about the pre-pass (`GraphCovers`, evaluated by TLC on every graph
that `FlowGraph` builds) joined with the claim about the walk (proved for every graph).
`GraphExact` is the other half of the pre-pass: no loop lies behind its own entry
(`Behind`), and exactly the values of the path-based reference type arrive at a
reference. TLC evaluates it on every built graph without nested loops
(`BuiltGraphsExact`).

- `Sound`: a narrowed or memoised type contains every value a run can have there.
- `Exact`: outside nested loops the type is exactly the union over the paths,
  whatever was resolved or published before. (In nested loops the answer may be
  wider, and depends on the order: while the entry of an inner loop is walked its label
  is guarded by the declared type, `nodes.rs:249`, and a back edge of the outer loop
  leads to that label again.)
- `LoopsInFlight`: seeds, depth and the loops on the stack agree, and no label is
  entered again inside itself.
- `EveryReferenceResolved`: the walk ends.

### ArgumentWalk

A call's arguments are walked raw, then against the parameters of each candidate
with effects discarded, then against the selected ones, reporting. The model is a
machine: `now` is what the checker does next, `stack` its suspended walks.

| Model | Code |
|---|---|
| `decl`, `log`, `dependencies`, `net_writes`, `Undo` | `DeclTypes` and its observation log, `context.rs` |
| `effects` | `effect_stack`, `mod.rs` |
| `InferReference`, `InferDeclaration`, `Declare`, `InferArrow` ... `InferEither` | `infer_expr` on the forms that matter, `expr.rs`, `statements.rs`; arrow bodies with their parameter bound |
| `WalkRaw`, `ServeRaw`, `RawInPlace`, `RawCaptured` | `walk_raw_argument` with its memo |
| `ServeSource`, `DeclineSource`, `RewalkSource`, `SourceRetained`, `SourceDiscarded` | `infer_contextual_source_after_walked` with its memo |
| `SelectCandidate` ... `CandidateMatches` | building and trying candidates in order |
| `CheckArgument` ... `Settle`, `ArgumentSettled`, `CloseCall` | the committed walks, what they supersede, re-performing served walks whose records are still owed, and flushing in argument order |
| `Servable`, `Memoize`, `adopt_memoized_walk` | `MemoizedWalk::serve`, budgets, replay of writes |

Relation, inference and substitution are parameters; the instance takes the
smallest that tell the cases apart. A program is checked twice, without and with
the memo. `expected` holds the first outcome.

- `Transparent`: the memo changes neither types nor records nor their order.
- `ReportedOnce`: a use that is wrong under its final types is reported exactly
  once, any other never.
- `LogReproduces`: replaying what the log says a walk wrote, on the declarations
  saved at its start, reproduces those of now, as the comment on `net_writes_since`
  and the assertion in `restore` (`context.rs`) say.
- `ReadsAccounted`: what an entry compares before it is served agrees with what it
  replays.
- `ArrowReplaysNothing`: a discarded walk of an arrow leaves no declaration behind,
  and neither does its entry, because the undo is logged before the entry is made.
- `EveryCallChecked`: every call is checked to the end, so the states that
  `Transparent` and `ReportedOnce` speak of are reached by every program.

In a passing state `replay_dependencies` turns out to be redundant: a served walk
is always followed by a real one before its call closes.

Definitions commented as a *faulty variant* of another are plausible defects of
the code. Put in place of the original, each makes the property it is meant for
fail; they keep the properties honest and are not part of any specification.

## 4. Runs

| Run | Question | Bounds | States |
|---|---|---|---|
| `engine` | caches, answers and termination over every order of queries | 12 keys, 5 nodes, budget 1 | 338,124 |
| `state` | layers implement transactions; layers and freshness | 2 savepoints, 2 graph changes, 3 records, 4 layers, 2 settings | 4.1 million |
| `session` | library, permit, routes, reports, every call returns | 2 calls, 3 workers, pool of 2, 6 owners, 2 names, 2 files | 115,080 |
| `classes` | poison, surfaces, records independent of order | all graphs of 3 classes, 2 classes over a library base, soft circles of 3 with a fourth; 2 allocations | 445,188 |
| `flow` | soundness and precision of narrowing | 9 program families, each with two statements out of 5 and a condition out of 2; 2 symbols, 10 values | 836,953 |
| `arguments` | memo invisible, one report, log and declarations agree | 16 call sites nested in each of 16, and 16 chained; slot budget 3, bucket budget 2 | 114,323 |
| `engine_tainted_witness`, `session_universe`, `classes_poison`, `flow_unbuilt`, `arguments_reports`, `arguments_narrowed` | the disagreements of section 6 | as above | |

The rule system of the engine run (`MCRelationEngine`) is chosen for the cases
that make the engine hard. `a`, `b`, `c` form a cycle whose first branch
succeeds provisionally and whose last conjunct fails, so keeping the provisional
success would be wrong. `d` and `e` form a cycle that holds, and `d` leads to a
generic signature `g` whose parts `h`, `y`, `z` are compared under a binder
environment, are recursive, and include a probe with a shared accumulator that
fails. `c` and `e` are same-class pairs with a witnessed argument. `b`, `c`, `d`, `x`
and `y` need expansions, those of `b` and `x` may be cyclic and then lead to
another pair, and `x` together with `y` needs one more class
application than the budget of 1 allows: going one over the budget is the only
way the number 128 of the code matters. The number of
queries is not bounded: the caches are finite, so TLC covers every sequence.

In the state run one key of each memo is enough, because operations never
relate two keys of one memo; two savepoints are the least nesting in which an
inner layer's commit meets an outer rollback, and two graph changes are the least
in which something stale can be restored under an identity newer than its own.

In `session` a pooled call and a project call compete; the projects given to
workers take every route, one owner is outside the plan, so binding can find a
mutation that no sparse replay covers, and one owner is consumed only through
another. Three workers are the least with one inside the permit and two waiting.
Three classes are enough for a cycle with an entry, for a component that mixes
hard and soft edges, and for a base outside it; a fourth is there because in a
circle of three it takes one more to make a class wait past its successor. In `flow`
the families put the
interesting shapes (loop, nested, two in a row, labelled jumps out of two loops,
three switches in a loop, labelled block, logical operators) around every choice of two
statements (nothing, an assignment, an exit, a break, a continue) and of a
composed condition (a conjunction with a negated guard, a disjunction that
assigns); every reference may be resolved at any time, before and after its
declaration publishes. The three switches differ in their default: last after a
computed clause, in the middle before an empty last clause it falls into, or missing,
so that a value no clause names reaches the end of the switch. In `arguments` a site is a callback with every way a
signature can be selected for it (single, overloaded, generic, failing, wrong
arity, in an array or tuple), nested once; the budgets are small enough to be
exceeded.

Fairness. Each module asks weak fairness of steps that sequential code takes
without waiting, and no more. `engine`: the handler once a query is open, nothing
about the checker asking. `session`: each caller and each worker, that is, threads
are scheduled; a worker parked on the condition variable has no step, so the
fairness does not wake it, and spurious wakeups are not in it. `classes`,
`arguments`: one thread, the next step. `flow`: the steps of a walk once a
reference is being resolved. Deadlock is not checked where the process may have
nothing left to do (a finished check, a finished publication).

## 5. Proofs

`RelationEngineProofs` proves for every set of keys, every rule system, every
expansion behaviour and every budget:

- `TypeCorrect`, `CacheSound`, `NoEscapingAssumption`, `KeptExpansionsClean`,
  `CacheStable`: `Spec` implies `TypeOK`, `DurableSound`, `AssumptionsInFlight`,
  `ExpansionsClean` and `DurableStable`;
- `AnswersCorrect`, `MemoCorrect`: `AnswerIsFixpoint` and `MemoSound`, under the
  named hypothesis that no expansion is cyclic or no pair has a witnessed
  argument. The hypothesis is needed: section 6 shows what happens otherwise.
  The `engine` run is a case beyond it: it has both, but no witnessed argument
  reaches a cyclic expansion;
- `SearchSoundAlways`: the bargain each frame of the search keeps.

`DurableSound` is not inductive. The strengthening `EngineInv` says that, as long
as nothing disqualifying was met in the attempt (`Clean`), every frame of the
search is right relative to its accumulator (`FrameSound`), every returned
verdict relative to the assumptions returned with it (`AnswerSound`), and the
stack is linked by the arms being tried. The heart is coinductive: if `k`
follows from its rule under `A \cup {k}` then it follows under `A` (a frame
discharging its own key), and if the keys of `A` hold so does everything under
`A`. A "no" needs no assumption because the rules are monotone. The assumptions
used are those on the constants: rules are sequences of clauses of arms,
identical pairs have an empty rule, and a witnessed argument is a conjunct of its
pair.

`SemanticQueryStateProofs` proves for every set of keys and settings, every
nesting depth, and every order of queries, resets, commits, rollbacks and graph
changes (also inside layers):

- `StateTypeCorrect`: `Spec` implies `TypeOK`;
- `LayersAlwaysSuffice`: `Spec` implies `LayersSuffice`, so no `expect` of the
  layer protocol can fail;
- `FreshReadsAlways`: `Spec` implies `FreshReads`.

`LayersSuffice` is not inductive, because undoing a reset replaces the cache by
the one in the record: `Deep` adds that this cache has a layer for every savepoint
that can still bring it back (`LayerInv`). `FreshReads` needs more (`FreshInv`). A
rollback writes back old values, so each must have been computed under the
identity in force at the moment it is put back. `Replayable` says so of the
journal: the saved value of a record belongs to the identity of the next reset
above it, or to the present identity when there is none, and the context inside
a reset belongs to the identity inside it. `Grounded` says that the journal is
empty outside every layer, which is what allows a reset there to go unrecorded.
The assumptions used are `BoundAssumption` only; the bounds it names occur in
guards and limit nothing in the proofs.

`QueryTransactionProofs` proves `TransactionalAlways`: `Spec` implies `Transactional`,
the refinement of `NestedTransactions`, under the same assumption. The initial states
map to initial states, and each step to a step or a stutter: a setter, a reset or a
commit of the code to a change of what is readable, a graph change to its loss at every
depth, the undoing of one record to nothing. What the mapping needs is that a rollback
really brings back what was saved, and `TransactionInv` says it before the rollback
starts. For every savepoint and every cell of every table, the oldest record of the
cell since the mark keeps what was in it then, and where there is none the cell has not
changed (`Recovers`); the cache, which keeps layers of its own, reads the same at the
depth it had then (`Reads`, `Height`). This holds of savepoints whose identity is the
present one (`Kept`); for the others the view is empty on both sides, because the
identity itself is recovered and is stale, and a context set aside by a reset is stale
forever (`Superseded`). Without `Superseded` the restored context of a reset inside a
layer would have to be compared cell by cell.

`CheckSessionProofs` proves for every number of calls, workers, owners and projects:

- `PermitExclusiveAlways` and `NoLostWakeupAlways`, from `SessionInv`. Exclusion is
  not inductive by program counters alone: `PermitMatches` ties, for each worker,
  the clones of the token it holds to where it is and the flag to there being a
  holder, which is what the drop on each path must preserve.
- `OneLibraryAlways`, from `LibraryInv`: the cell is being built exactly while one
  caller is initialising (`OneInitializer`), so nobody overwrites a result.
- `SessionTypesAlways`, `SparseCompleteAlways` and `AllOrNothingAlways`, from
  `AnswerInv`: a finished worker has an answer and its reports (`Answered`), a job is
  skipped only after another job of its call failed (`Excused`), a call returns only
  when all are finished (`Returned`), and a worker that has passed binding on the
  sparse route carries a schedule that is complete (`Scheduled`). That `close_owners`
  computes the least closure under consumers is an induction over the finite set of
  owners; that reports assembled by slot come in input order is a counting argument
  over the slots. The assumption is that a plan has finitely many owners.

`ClassPublicationProofs` proves for every program, library base and allocation:

- `TypeOKAlways`;
- `BasesCompleteAlways`, from `Composed`: components partition the drafts
  (`Partition`), nothing outside the open component is half done (`Unstarted`,
  `Whole`), and a component that is being composed has no poisoned base outside
  itself (`CleanBases`);
- `ExplainedAlways`, from `Recorded`: while a component is open, its records and
  the fate decided for it determine what its classes will be;
- `PoisonExactAlways`, from `PoisonInv`. That the poisoned classes solve the rule is
  kept component by component (`Settled`, `Judged`, with `Sentence` for the open one).
  That they are the least solution needs `LeastPoison`: every solution contains what is
  poisoned so far. It is kept because a component is opened only when everything it
  inherits from outside is settled (`Graph`);
- `SurfaceExactAlways`, from `SurfaceInv`: what a class waits for precedes it
  (`Waited`), a later class of a cycle is composed before it only because of such a wait
  (`Late`), and every composed class has the surface the property describes
  (`Surfaces`), before the whole is published;
- `PublicationNeverFails`: the error returns for an unordered component and for a
  missing base are never taken.

The assumption is that a program has finitely many drafts.

`FlowNarrowingProofs` proves for every set of well-formed graphs, symbols and values:

- `FlowTypesAlways` and `LoopsInFlightAlways`, from `Structure`: walks and loops alternate
  on the stack, the labels on it are distinct, and they are the keys of the provisional
  memo, as many as the depth that suspends the durable one;
- `SoundAlways`: `Sound`, for graphs that satisfy `GraphCovers`. Soundness of a walk is
  not inductive by itself, because inside a loop a seed stands for a type that is not
  complete yet. `SoundInv` states each frame relative to the labels in flight below
  it: what a walk has computed for a node covers every value that gets there when each
  of those labels passes on only what its seed already has. A value missing from the
  parts a loop has collected comes from none of the antecedents accounted for, even with
  the loop's own label passing on nothing; so once all are accounted for the guess that
  the seed was does no harm.
- `ExactAlways`: `Exact`, for graphs that are nested or satisfy `GraphExact`. One
  inclusion is `SoundInv`; for the other `ExactInv` says that every type in a scratch,
  a part, a seed or the memo holds only values that flow to its node. That is false of
  the declared type that guards a label while its entry is walked, so the invariant
  also says where walks go: while a loop below is at its entry, every node a frame has
  still to visit lies behind that loop's entry. `Behind` is closed under antecedents
  (`BehindClosed`), a loop does not lie behind its own entry, and so no walk reads the
  guard. Once a query exhausts, or before the declaration publishes, nothing is claimed.

`ArgumentWalkProofs` proves for every set of programs, slots and flow nodes, any
budgets, and any relation, inference and substitution (the module assumes nothing of
its constants):

- `ArgumentWalkTypeCorrect`: `TypeOK`, so batches are open for exactly the suspended
  walks that capture;
- `TheLogReproduces` and `ReadsAreAccounted`: `LogReproduces` and `ReadsAccounted`;
- `ArrowsReplayNothing`: `ArrowReplaysNothing`.

None is inductive: an inner walk that is undone, or a memo entry that is replayed,
changes the declarations in a way the enclosing walk's mark knows nothing of. `Inv`
states what composes. `Traces(a, events, b)` says of every slot that without a write
its type is the same in `a` and `b`, that the first write starts from `a`'s and the last
ends in `b`'s, and that a read before any other event saw `a`'s. It is closed under
concatenation (`TracesConcat`), and every operation on the declarations appends a trace
of what it does (`PutLogs`, `DeclareLogs`, `AdoptLogs`, `UndoTraces`): so every
suspended walk with a mark keeps a trace from the declarations at the mark to those of
now, and net writes and dependencies are read off it (`NetWritesTraced`,
`DependenciesTraced`). `AdoptLogs` needs that no entry writes a slot twice and that its
reads hold when it is served (`MemoOK`, `ServedEntry`). The log is cleared with the
outermost call; no mark is lost then, because a frame with a mark has a call right below
it (`StackOK`, `OutermostCall`).

Recursion and induction. The closures of `CheckSession`, `ClassPublication` and
`FlowNarrowing` are recursive functions, not operators, and the proofs use them through
lemmas: the defining equation is established by exhibiting the function, and an
induction is the choice of a minimal counterexample in a well-founded order (naturals,
or strict inclusion of finite sets). `SequenceLemmas` holds the facts about sequences
that several modules use.

Only model-checked:

- liveness (`EveryQueryAnswered`, `EveryCallAnswered`, `EveryClassFinal`,
  `EveryReferenceResolved`, `EveryCallChecked`), which is beyond the prover;
- that graphs cover the runs of their programs: `FlowGraph` and `FlowSemantics` are
  recursive operators over syntax, which the prover does not take. `BuiltGraphsCover`
  in `MCFlowNarrowing` is evaluated for every program of the `flow` run; likewise
  `BuiltGraphsExact`, that without nested loops they show no more than that;
- `Transparent` and `ReportedOnce` of `ArgumentWalk`, which hold of the programs of the
  `arguments` run and not of all (section 6).

## 6. Disagreements between documentation and code

- `query/mod.rs:623` says that a tainted query changes none of the durable state.
  The same-class shortcut remembers the failure of a nested query even when that
  query was cycle-tainted (`engine_tainted_witness`). After two such queries the
  failure answers later queries directly.
- `checker/mod.rs:2719`. ADR 0020 allows one live private universe in the process.
  The complete-source fallback moves its only token into the epoch, which is
  dropped when the epoch is installed, before the pass; another worker can then
  build a second universe (`session_universe`). The sparse route keeps a token of
  its own.
- `checker/classes/construction.rs:717`. ADR 0008 says that poison propagates
  through each derived heritage edge. A class that softly inherits from a base in its
  own component is published without the base's members, and without a record,
  when an initializer poisons the base (`classes_poison`).
- `checker/flowgraph/mod.rs:111`. The comment above it says that unbuilt statements
  only lose narrowing. An assignment inside one leaves no node, so a reference
  after it keeps a type that no longer holds (`flow_unbuilt`).
- `arguments_reports` shows four argument shapes that break "exactly one of the two
  walks may report": a ternary or logical argument is re-walked but not held
  (`checker/calls.rs:321`, reported twice); a generic arrow in a tuple is skipped but
  counts as seen (`checker/expr.rs:1475`, never reported); binding a callback's
  parameter leaves its narrowed reads in the flow memo (`checker/calls.rs:4211`,
  never reported); a `var` in a callback keeps the type of the raw walk
  (`checker/statements.rs:2369`, never reported).
- `checker/flowgraph/nodes.rs:117`. Dependencies of a memoised walk are said to be
  tracked exactly; a reference answered from the flow memo reads no declaration, so
  the dependency is missing (`arguments_narrowed`).

Observations that no run is about:

- When a query inside a nested layer resets the context and that layer commits, the
  outer rollback restores a cache one layer too deep (`cache.rs:172` speaks of depth
  bounded by open nesting). Its entries are unreadable, as `Transactional` and
  `FreshReads` show.
- `walk_raw_argument` says that only a walk without effects is memoised; the code
  memoises any, and settling re-performs it when its records are owed.
- `DeclTypes::restore` does not evict the flow memo.
- `checker/flowgraph/nodes.rs:250` says that only a malformed graph leads from the entry
  of a loop back to its label. The entry of every inner loop does, around the outer
  loop; the guard is then read and the answer may be wider than the paths, never
  narrower (`SoundAlways`).
- The recursion of `resolve_loop_label` grows with the number of loops in
  sequence (`checker/flowgraph/nodes.rs:123`).
- The negative branch of `in` drops a member whose property is optional.
- Recovering a mixed cycle may cut a forward `extends` edge, not only soft ones.
- A circle of interface heritage is said to be recovered by cutting its forward edges
  (`construction.rs:718`). A class of the circle that also waits for a class outside it,
  but in its component, is composed after its successor and inherits along the forward
  edge (`:706`): classes 1, 2, 3 softly inherit in a circle, 2 also from 4, which mentions
  1. The last clause of `SurfaceExact` says that this is the only way it happens.

## 7. Not modelled

The map covers about 4 % of the repository's implementation lines. The bulk of the
rest is syntax-directed: lowering of declarations, binding and merging of some
twenty thousand lines, tables of the library compiler, the evaluator's cases, the
front end, and inline test modules. Each of these lines handles one form of syntax
with little state, and a model of it would be a transliteration; what is modelled
is where state outlives a step. Coverage is therefore small by intent, and the
properties are about the mechanisms, not about every type form.

Left out of modelled parts:

- Relation and queries: the structural rules are a parameter, so nothing here says
  that, for instance, the object rule compares the right properties; the other
  coordinator entry points; the planner's walk over types; reasons.
- Session: a panic inside the initialiser of the `OnceLock`, mutex poisoning,
  `check_project_once` and `check_bundler_project_once` (which share nothing), what
  the library compiler lowers.
- Classes: name conflicts and override order between members, substitution of type
  arguments, callable and binder validation, freezing errors,
  `UnknownClassDependency`.
- Flow: narrowing forms beyond truthiness, equality, `typeof`, `in` and discriminants;
  operands of unknown or type-parameter type; assignments by closures.
- Arguments: exhaustion, receivers, constraint failures, rest parameters and
  alternatives, excess properties, explicit type arguments, the other parts of the
  memo key and refusals of `argument_walk_environment`, contextual return inference,
  object literals, event tickets.

Not modelled at all: binder, front end, evaluator, inference, hash-consing and layers
of the type store (section 2), and command line, diagnostics, surfaces and spans,
which have no state worth a model.
