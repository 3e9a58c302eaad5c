----------------------------- MODULE CheckSession -----------------------------
(***************************************************************************)
(* The concurrent shell of the checker: the calls of one process, their    *)
(* workers, the default library they share and the permit that serialises  *)
(* private checks.                                                         *)
(*                                                                         *)
(* A call (check_project, check_source or check_files) first takes the     *)
(* library, which the first caller builds inside a OnceLock, then runs one *)
(* worker thread per job: a single one, or one per file on a bounded pool. *)
(* A worker whose project collides with the library takes the permit,      *)
(* tries a sparse replay and, when that fails, recompiles the library from *)
(* source.  The permit is a lease counted by its clones: it is given back  *)
(* by whichever step drops the last of them.                               *)
(* Source: provider.rs, base.rs, driver.rs, library_compiler.rs, mod.rs.   *)
(***************************************************************************)
EXTENDS LibraryReplay, Sequences

CONSTANTS
    Calls,       \* API calls made by the process
    Jobs,        \* worker jobs of all calls
    CallOf,      \* job |-> its call
    Pooled,      \* the calls that fan out (check_files)
    PoolSize,    \* threads of the pool
    Inputs,      \* job |-> the projects it may be given
    Mutations,   \* the sets of owners binding may find mutated
    Units,       \* files of a job's project
    MayAdmit     \* whether the base's plan may be usable

ASSUME SessionAssumption ==
    /\ CallOf \in [Jobs -> Calls]
    /\ Pooled \subseteq Calls
    /\ PoolSize \in Nat \ {0}
    /\ Inputs \in [Jobs -> SUBSET Projects]
    /\ Mutations \subseteq SUBSET Owners
    /\ Units \in Nat
    /\ MayAdmit \in BOOLEAN

VARIABLES
    library,   \* the OnceLock: "empty", "building", "ready" or "failed"
    call,      \* call |-> where it is
    seen,      \* call |-> the library result it was given
    pc,        \* job |-> where its worker is
    input,     \* job |-> its project
    occupied,  \* the permit's flag
    waiting,   \* the jobs parked on the permit's condition variable
    lease,     \* job |-> which clones of the permit token it holds
    replay,    \* job |-> its replay schedule
    answer,    \* job |-> what its check produced
    reports    \* job |-> for each input, the file its report is about

libraryVars == <<library, call, seen>>
permitVars  == <<occupied, waiting, lease>>
vars == <<libraryVars, pc, input, permitVars, replay, answer, reports>>

Tokens   == {"driver", "epoch"}
Schedule == [replayed : SUBSET Owners, loaded : SUBSET Files,
             mutated : SUBSET Owners]
NoSchedule == [replayed |-> {}, loaded |-> {}, mutated |-> {}]

JobsOf(c) == {j \in Jobs : CallOf[j] = c}
Running(j) == pc[j] \notin {"idle", "skipped", "done"}

\* The worker owns library state of its own: a forked epoch or a recompiled
\* library, from its construction until it is dropped.
PrivateWork == {"route", "install", "bind", "pass", "compile", "rebind", "repass"}
Universe    == {"install", "bind", "pass", "rebind", "repass"}

Init ==
    /\ library = "empty"
    /\ call = [c \in Calls |-> "start"]
    /\ seen = [c \in Calls |-> "none"]
    /\ pc = [j \in Jobs |-> "idle"]
    /\ input \in [Jobs -> Projects]
    /\ \A j \in Jobs : input[j] \in Inputs[j]
    /\ occupied = FALSE
    /\ waiting = {}
    /\ lease = [j \in Jobs |-> {}]
    /\ replay = [j \in Jobs |-> NoSchedule]
    /\ answer = [j \in Jobs |-> "none"]
    /\ reports = [j \in Jobs |-> <<>>]

(***************************************************************************)
(* The library.  get_or_init runs the initialiser in the first caller and  *)
(* blocks the others until there is a result, which is kept for good.      *)
(***************************************************************************)
EnterInitialize(c) ==
    /\ call[c] = "start" /\ library = "empty"
    /\ library' = "building"
    /\ call' = [call EXCEPT ![c] = "initialize"]
    /\ UNCHANGED <<seen, pc, input, permitVars, replay, answer, reports>>

\* Faulty variant of FinishInitialize: only a success is kept.
FinishInitializeRetry(c) ==
    /\ call[c] = "initialize"
    /\ \E result \in {"ready", "failed"} :
        /\ library' = IF result = "ready" THEN "ready" ELSE "empty"
        /\ seen' = [seen EXCEPT ![c] = result]
        /\ call' = [call EXCEPT ![c] = IF result = "ready" THEN "fanout" ELSE "error"]
    /\ UNCHANGED <<pc, input, permitVars, replay, answer, reports>>

\* Compiling the packaged profile or publishing it may fail; either way the
\* result is stored before anyone, the initialising caller included, sees it.
FinishInitialize(c) ==
    /\ call[c] = "initialize"
    /\ \E result \in {"ready", "failed"} :
        /\ library' = result
        /\ seen' = [seen EXCEPT ![c] = result]
        /\ call' = [call EXCEPT ![c] = IF result = "ready" THEN "fanout" ELSE "error"]
    /\ UNCHANGED <<pc, input, permitVars, replay, answer, reports>>

\* A caller that finds the cell filled clones its content.
TakeLibrary(c) ==
    /\ call[c] = "start" /\ library \in {"ready", "failed"}
    /\ seen' = [seen EXCEPT ![c] = library]
    /\ call' = [call EXCEPT ![c] = IF library = "ready" THEN "fanout" ELSE "error"]
    /\ UNCHANGED <<library, pc, input, permitVars, replay, answer, reports>>

(***************************************************************************)
(* Workers.                                                                *)
(***************************************************************************)

\* Faulty variant of DropLease: the flag is cleared and nobody is told.
DropLeaseSilently(j, kept) ==
    /\ lease' = [lease EXCEPT ![j] = kept]
    /\ IF lease[j] # {} /\ kept = {}
       THEN /\ occupied' = FALSE
            /\ UNCHANGED waiting
       ELSE UNCHANGED <<occupied, waiting>>

\* Job j keeps only the clones in kept.  Dropping the last one clears the
\* flag and wakes one of the parked jobs, if there is one.
DropLease(j, kept) ==
    /\ lease' = [lease EXCEPT ![j] = kept]
    /\ IF lease[j] # {} /\ kept = {}
       THEN /\ occupied' = FALSE
            /\ IF waiting = {} THEN UNCHANGED waiting
               ELSE \E k \in waiting : waiting' = waiting \ {k}
       ELSE UNCHANGED <<occupied, waiting>>

\* The job ends: with an answer and its reports, or with an error and none.
Finish(j, result, rows) ==
    /\ pc' = [pc EXCEPT ![j] = "done"]
    /\ answer' = [answer EXCEPT ![j] = result]
    /\ reports' = [reports EXCEPT ![j] = rows]

GoTo(j, place) ==
    /\ pc' = [pc EXCEPT ![j] = place]
    /\ UNCHANGED <<answer, reports>>

\* A call's own worker starts at once; a fan-out's workers as threads of
\* the pool come free.  The thread may fail to start.
Spawn(j) ==
    /\ pc[j] = "idle" /\ call[CallOf[j]] = "fanout"
    /\ CallOf[j] \in Pooled =>
        Cardinality({k \in Jobs : CallOf[k] \in Pooled /\ Running(k)}) < PoolSize
    /\ \/ GoTo(j, "start")
       \/ Finish(j, "error", <<>>)
    /\ UNCHANGED <<libraryVars, input, permitVars, replay>>

\* Once a file of the fan-out failed, files not yet started may be dropped.
Skip(j) ==
    /\ pc[j] = "idle" /\ CallOf[j] \in Pooled
    /\ \E k \in JobsOf(CallOf[j]) : answer[k] = "error"
    /\ GoTo(j, "skipped")
    /\ UNCHANGED <<libraryVars, input, permitVars, replay>>

(***************************************************************************)
(* Reports.  The checker returns its results in dependency order; they are *)
(* put back into the order of the inputs.                                  *)
(***************************************************************************)
Orders == {o \in [1..Units -> 1..Units] :
             \A a, b \in 1..Units : o[a] = o[b] => a = b}

\* Faulty variant of assemble_project_reports: results stay in the slot
\* they were checked in.
assemble_in_slot_order(order) == order

\* order[s] is the input checked in slot s.
assemble_project_reports(order) ==
    [i \in 1..Units |-> order[CHOOSE s \in 1..Units : order[s] = i]]

Reported(j, result) ==
    \E order \in Orders : Finish(j, result, assemble_project_reports(order))

(***************************************************************************)
(* Routing one project.                                                    *)
(***************************************************************************)

\* A syntax error, the parse-only reports and the shared delta need no permit.
RouteShared(j) ==
    /\ pc[j] = "start" /\ PreflightRoute(input[j]) # "private"
    /\ IF PreflightRoute(input[j]) = "parse"
       THEN Finish(j, "parse", [i \in 1..Units |-> i])
       ELSE \/ Reported(j, "shared")
            \/ Finish(j, "error", <<>>)
    /\ UNCHANGED <<libraryVars, input, permitVars, replay>>

RoutePrivate(j) ==
    /\ pc[j] = "start" /\ PreflightRoute(input[j]) = "private"
    /\ GoTo(j, "acquire")
    /\ UNCHANGED <<libraryVars, input, permitVars, replay>>

\* acquire: under the permit's lock, take the free flag or park.
Acquire(j) ==
    /\ pc[j] = "acquire" /\ j \notin waiting
    /\ IF occupied
       THEN /\ waiting' = waiting \cup {j}
            /\ UNCHANGED <<occupied, lease, pc, answer, reports>>
       ELSE /\ occupied' = TRUE
            /\ lease' = [lease EXCEPT ![j] = {"driver"}]
            /\ GoTo(j, "route")
            /\ UNCHANGED waiting
    /\ UNCHANGED <<libraryVars, input, replay>>

\* A condition variable may wake a thread for no reason.
SpuriousWakeup(j) ==
    /\ j \in waiting
    /\ waiting' = waiting \ {j}
    /\ UNCHANGED <<libraryVars, pc, input, occupied, lease, replay, answer, reports>>

\* Fork a sparse epoch of the base; without an admitted plan, or when the
\* fork fails, recompile under the same token.
RouteSparse(j) ==
    /\ pc[j] = "route"
    /\ \/ MayAdmit /\ GoTo(j, "install")
       \/ GoTo(j, "compile")
    /\ UNCHANGED <<libraryVars, input, permitVars, replay>>

\* Faulty variant of InstallSparse: the clone kept in case the schedule
\* cannot be installed outlives a schedule that was.
InstallSparseKeepsFallback(j) ==
    LET owners == close_owners[SeedOwners(input[j].names)]
    IN  /\ pc[j] = "install" /\ input[j].names # {}
        /\ lease' = [lease EXCEPT ![j] = {"driver", "epoch", "fallback"}]
        /\ replay' = [replay EXCEPT ![j] =
             [replayed |-> owners, loaded |-> SourceOrdinals(owners), mutated |-> {}]]
        /\ GoTo(j, "bind")
        /\ UNCHANGED <<libraryVars, input, occupied, waiting>>

\* Schedule the replay and load its files.  The epoch takes a second clone
\* of the token.  No seeds, or a file that is not where the registry says,
\* and the epoch is dropped with its clone.
InstallSparse(j) ==
    LET owners == close_owners[SeedOwners(input[j].names)]
    IN  /\ pc[j] = "install"
        /\ \/ /\ input[j].names # {}
              /\ lease' = [lease EXCEPT ![j] = {"driver", "epoch"}]
              /\ replay' = [replay EXCEPT ![j] =
                   [replayed |-> owners, loaded |-> SourceOrdinals(owners), mutated |-> {}]]
              /\ GoTo(j, "bind")
           \/ /\ GoTo(j, "compile")
              /\ UNCHANGED <<lease, replay>>
        /\ UNCHANGED <<libraryVars, input, occupied, waiting>>

\* Binding the project says which owners it mutates.  A schedule that still
\* fits is installed into the checker, which drops the epoch and its clone;
\* one that does not, or any earlier failure, drops the whole epoch.
BindSparse(j) ==
    /\ pc[j] = "bind"
    /\ \E mutated \in Mutations :
        LET affected == Reclosed(replay[j].replayed, mutated)
        IN  \/ /\ Authenticated(mutated) /\ Loadable(affected, replay[j].loaded)
               /\ replay' = [replay EXCEPT ![j].replayed = affected, ![j].mutated = mutated]
               /\ GoTo(j, "pass")
            \/ /\ UNCHANGED replay
               /\ GoTo(j, "compile")
    /\ DropLease(j, {"driver"})
    /\ UNCHANGED <<libraryVars, input>>

\* Faulty variant of PassSparse: the token is dropped with the failed epoch.
PassSparseDropsPermit(j) ==
    /\ pc[j] = "pass"
    /\ \/ Reported(j, "sparse")
       \/ GoTo(j, "compile")
    /\ DropLease(j, {})
    /\ UNCHANGED <<libraryVars, input, replay>>

\* The pass over the replayed library and the project.  Reports are taken
\* only when the library's own records came out as the plan has them.
PassSparse(j) ==
    /\ pc[j] = "pass"
    /\ \/ /\ Reported(j, "sparse")
          /\ DropLease(j, {})
       \/ /\ GoTo(j, "compile")
          /\ UNCHANGED permitVars
    /\ UNCHANGED <<libraryVars, input, replay>>

\* Faulty variant of CompileSource: a worker that falls back asks for a
\* permit of its own while it still holds one.
CompileSourceReacquire(j) ==
    /\ pc[j] = "compile" /\ j \notin waiting
    /\ IF occupied
       THEN /\ waiting' = waiting \cup {j}
            /\ UNCHANGED <<occupied, lease, pc, answer, reports, replay>>
       ELSE /\ occupied' = TRUE
            /\ lease' = [lease EXCEPT ![j] = {"epoch"}]
            /\ GoTo(j, "rebind")
            /\ UNCHANGED <<waiting, replay>>
    /\ UNCHANGED <<libraryVars, input>>

\* Compile the packaged library again, as this project's own.  The caller's
\* token moves into the new epoch.
CompileSource(j) ==
    /\ pc[j] = "compile"
    /\ \/ /\ replay' = [replay EXCEPT ![j] =
               [replayed |-> Planned, loaded |-> Files, mutated |-> {}]]
          /\ DropLease(j, {"epoch"})
          /\ GoTo(j, "rebind")
       \/ /\ DropLease(j, {})
          /\ Finish(j, "error", <<>>)
          /\ UNCHANGED replay
    /\ UNCHANGED <<libraryVars, input>>

\* Bind against the recompiled library.  Installing the epoch into the
\* checker drops it, and with it the only clone left.
BindSource(j) ==
    /\ pc[j] = "rebind"
    /\ \E mutated \in Mutations :
        \/ /\ Authenticated(mutated)
           /\ replay' = [replay EXCEPT ![j].mutated = mutated,
                                       ![j].replayed = Reclosed(@, mutated)]
           /\ GoTo(j, "repass")
        \/ /\ UNCHANGED replay
           /\ Finish(j, "error", <<>>)
    /\ DropLease(j, {})
    /\ UNCHANGED <<libraryVars, input>>

\* The pass over the recompiled library; its records are not compared.
PassSource(j) ==
    /\ pc[j] = "repass"
    /\ \/ Reported(j, "complete")
       \/ Finish(j, "error", <<>>)
    /\ UNCHANGED <<libraryVars, input, permitVars, replay>>

\* A worker that panics unwinds: its token clones are dropped on the way
\* and its call gets a join failure.
Panic(j) ==
    /\ pc[j] \in PrivateWork \cup {"start"}
    /\ DropLease(j, {})
    /\ Finish(j, "error", <<>>)
    /\ UNCHANGED <<libraryVars, input, replay>>

(***************************************************************************)
(* Answering the call: the first error, or all reports.                    *)
(***************************************************************************)
Return(c) ==
    /\ call[c] = "fanout"
    /\ \A j \in JobsOf(c) : pc[j] \in {"skipped", "done"}
    /\ call' = [call EXCEPT ![c] =
                  IF \E j \in JobsOf(c) : answer[j] = "error" THEN "error" ELSE "ok"]
    /\ UNCHANGED <<library, seen, pc, input, permitVars, replay, answer, reports>>

Work(j) ==
    \/ Spawn(j) \/ RouteShared(j) \/ RoutePrivate(j) \/ Acquire(j)
    \/ RouteSparse(j) \/ InstallSparse(j) \/ BindSparse(j) \/ PassSparse(j)
    \/ CompileSource(j) \/ BindSource(j) \/ PassSource(j)

Serve(c) ==
    EnterInitialize(c) \/ FinishInitialize(c) \/ TakeLibrary(c) \/ Return(c)

Next ==
    \/ \E c \in Calls : Serve(c)
    \/ \E j \in Jobs : Work(j) \/ Skip(j) \/ SpuriousWakeup(j) \/ Panic(j)

\* Threads run: a worker or caller that can take a step eventually does.
\* Nothing is assumed of which parked thread a release wakes, or of panics.
Fairness == (\A c \in Calls : WF_vars(Serve(c))) /\ (\A j \in Jobs : WF_vars(Work(j)))

Spec == Init /\ [][Next]_vars /\ Fairness

(***************************************************************************)
(* Properties.                                                             *)
(***************************************************************************)

\* Every variable keeps its type; the lease clones are the two the code has.
TypeOK ==
    /\ library \in {"empty", "building", "ready", "failed"}
    /\ call \in [Calls -> {"start", "initialize", "fanout", "ok", "error"}]
    /\ seen \in [Calls -> {"none", "ready", "failed"}]
    /\ pc \in [Jobs -> {"idle", "start", "acquire", "skipped", "done"} \cup PrivateWork]
    /\ input \in [Jobs -> Projects]
    /\ occupied \in BOOLEAN
    /\ waiting \subseteq Jobs
    /\ lease \in [Jobs -> SUBSET Tokens]
    /\ replay \in [Jobs -> Schedule]
    /\ answer \in [Jobs -> {"none", "parse", "shared", "sparse", "complete", "error"}]

\* However workers interleave, fall back or panic, at most one of them is
\* building a private library or running on a sparse one: the permit is
\* never given back while the worker that took it still depends on it.
PermitExclusive ==
    \A j, k \in Jobs :
        pc[j] \in PrivateWork \ {"repass"} /\ pc[k] \in PrivateWork \ {"repass"} => j = k

\* A parked worker is never forgotten: while one is parked the permit is
\* taken, or a worker that was woken is on its way to take it.
NoLostWakeup ==
    waiting # {} => occupied \/ \E j \in Jobs : pc[j] = "acquire" /\ j \notin waiting

\* All calls of the process are given the same library result, the one the
\* provider keeps, whether the first initialisation worked or failed.
OneLibrary ==
    \A c \in Calls : seen[c] # "none" => seen[c] = library

\* A sparse check that answers has replayed everything its project can have
\* changed: each library owner binding mutated, whatever reads a replayed
\* owner, and all of it from files that were loaded.
SparseComplete ==
    \A j \in Jobs : answer[j] = "sparse" =>
        LET r == replay[j]
        IN  /\ r.mutated \subseteq r.replayed
            /\ r.mutated \cap Unplanned = {}
            /\ \A o \in r.replayed : Consumers[o] \subseteq r.replayed
            /\ \A o \in r.replayed \ {GlobalObject} : Site[o] \subseteq r.loaded

\* A call that succeeds exposes all its reports, the i-th about its i-th
\* input; one whose library or any worker failed exposes none.
AllOrNothing ==
    \A c \in Calls : call[c] = "ok" =>
        /\ seen[c] = "ready"
        /\ \A j \in JobsOf(c) :
             answer[j] \notin {"none", "error"} /\ reports[j] = [i \in 1..Units |-> i]

\* No fan-out ever has two private universes alive at once, whichever
\* route they came from (ADR-0020, lines 144 to 146).
OneUniverse == \A j, k \in Jobs : pc[j] \in Universe /\ pc[k] \in Universe => j = k

\* Every call returns: no worker waits for a permit that nobody will free.
EveryCallAnswered == \A c \in Calls : <>(call[c] \in {"ok", "error"})
=============================================================================
