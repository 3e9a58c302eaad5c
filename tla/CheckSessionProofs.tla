-------------------------- MODULE CheckSessionProofs --------------------------
(***************************************************************************)
(* The permit and the library provider, for any number of calls, workers   *)
(* and pool threads: at most one worker is inside a private check, no      *)
(* parked worker is forgotten, and every call is given the same library.   *)
(***************************************************************************)
EXTENDS CheckSession, FiniteSetTheorems, WellFoundedInduction, TLAPS

\* The places where a worker must hold the permit.
Leased == PrivateWork \ {"repass"}

\* The flag says whether some worker holds a clone, the clones are where the
\* program counter says, and they are all in one worker.
PermitMatches ==
    /\ \A j \in Jobs : lease[j] # {} <=> pc[j] \in Leased
    /\ occupied <=> \E j \in Jobs : lease[j] # {}
    /\ \A j, k \in Jobs : lease[j] # {} /\ lease[k] # {} => j = k
    /\ \A j \in waiting : pc[j] = "acquire"

\* A call that is initialising is the only one, and no result is stored yet.
OneInitializer ==
    /\ \A c \in Calls : call[c] = "initialize" => library = "building"
    /\ \A c, e \in Calls : call[c] = "initialize" /\ call[e] = "initialize" => c = e

\* The types the permit argument needs.
PermitTypes ==
    /\ pc \in [Jobs -> {"idle", "start", "acquire", "skipped", "done"} \cup PrivateWork]
    /\ occupied \in BOOLEAN
    /\ waiting \subseteq Jobs
    /\ lease \in [Jobs -> SUBSET Tokens]

SessionInv == PermitTypes /\ PermitMatches /\ NoLostWakeup

LibraryTypes ==
    /\ library \in {"empty", "building", "ready", "failed"}
    /\ call \in [Calls -> {"start", "initialize", "fanout", "ok", "error"}]
    /\ seen \in [Calls -> {"none", "ready", "failed"}]

LibraryInv == LibraryTypes /\ OneInitializer /\ OneLibrary

\* The initial state: nobody holds or awaits anything.
LEMMA InitInv == Init => SessionInv /\ LibraryInv
  <1> SUFFICES ASSUME Init PROVE SessionInv /\ LibraryInv
      OBVIOUS
  <1>1. PermitTypes /\ LibraryTypes
      BY DEF Init, PermitTypes, LibraryTypes, PrivateWork, Tokens
  <1>2. PermitMatches /\ NoLostWakeup
      BY DEF Init, PermitMatches, NoLostWakeup, Leased, PrivateWork
  <1>3. OneInitializer /\ OneLibrary
      BY DEF Init, OneInitializer, OneLibrary
  <1> QED BY <1>1, <1>2, <1>3 DEF SessionInv, LibraryInv

Places == {"idle", "start", "acquire", "skipped", "done"} \cup PrivateWork

\* A step that leaves the permit alone and moves a worker between two places
\* of the same kind, not out of the queue for the permit.
LEMMA MoveStep ==
    ASSUME SessionInv, NEW j \in Jobs, NEW q \in Places,
           pc' = [pc EXCEPT ![j] = q], UNCHANGED permitVars,
           pc[j] # "acquire", pc[j] \in Leased <=> q \in Leased
    PROVE  SessionInv'
  <1>1. PermitTypes'
      BY DEF SessionInv, PermitTypes, permitVars, Places
  <1>2. \A k \in Jobs : k # j => pc'[k] = pc[k]
      BY DEF SessionInv, PermitTypes
  <1>3. pc'[j] = q
      BY DEF SessionInv, PermitTypes
  <1>4. PermitMatches'
      BY <1>1, <1>2, <1>3 DEF SessionInv, PermitTypes, PermitMatches, permitVars
  <1>5. NoLostWakeup'
      BY <1>2, <1>3 DEF SessionInv, PermitTypes, NoLostWakeup, permitVars
  <1> QED BY <1>1, <1>4, <1>5 DEF SessionInv

\* A step that drops clones: the worker keeps some exactly when it stays
\* where one is needed.  Dropping the last one wakes a parked worker.
LEMMA DropStep ==
    ASSUME SessionInv, NEW j \in Jobs, NEW q \in Places, NEW kept \in SUBSET Tokens,
           pc' = [pc EXCEPT ![j] = q], DropLease(j, kept),
           pc[j] # "acquire", q # "acquire",
           kept # {} <=> q \in Leased,
           q \in Leased => pc[j] \in Leased
    PROVE  SessionInv'
  <1>0. waiting' \subseteq waiting /\ occupied' \in BOOLEAN
      BY DEF SessionInv, PermitTypes, DropLease
  <1>1. PermitTypes'
      BY <1>0 DEF SessionInv, PermitTypes, DropLease, Places
  <1>2. \A k \in Jobs : k # j => pc'[k] = pc[k] /\ lease'[k] = lease[k]
      BY DEF SessionInv, PermitTypes, DropLease
  <1>3. pc'[j] = q /\ lease'[j] = kept
      BY DEF SessionInv, PermitTypes, DropLease
  <1>4. \A k \in Jobs : lease'[k] # {} <=> pc'[k] \in Leased
      BY <1>2, <1>3 DEF SessionInv, PermitMatches
  <1>5. \A k, m \in Jobs : lease'[k] # {} /\ lease'[m] # {} => k = m
      BY <1>2, <1>3 DEF SessionInv, PermitMatches
  <1>6. \A k \in waiting' : pc'[k] = "acquire"
      BY <1>0, <1>1, <1>2 DEF SessionInv, PermitMatches, PermitTypes
  <1>7. /\ occupied' <=> \E k \in Jobs : lease'[k] # {}
        /\ NoLostWakeup'
    <2>1. CASE lease[j] # {} /\ kept = {}
      <3>1. ~occupied' /\ \A k \in Jobs : lease'[k] = {}
          BY <2>1, <1>2, <1>3 DEF DropLease, SessionInv, PermitMatches
      <3>2. CASE waiting = {}
          BY <3>1, <3>2, <2>1 DEF DropLease, NoLostWakeup
      <3>3. CASE waiting # {}
        <4>1. PICK k \in waiting : waiting' = waiting \ {k}
            BY <3>3, <2>1 DEF DropLease
        <4>2. k \in Jobs /\ pc[k] = "acquire" /\ k # j
            BY DEF SessionInv, PermitTypes, PermitMatches
        <4>3. pc'[k] = "acquire" /\ k \notin waiting'
            BY <4>1, <4>2, <1>2
        <4> QED BY <3>1, <4>2, <4>3 DEF NoLostWakeup
      <3> QED BY <3>2, <3>3
    <2>2. CASE ~(lease[j] # {} /\ kept = {})
      <3>1. UNCHANGED <<occupied, waiting>>
          BY <2>2 DEF DropLease
      <3>2. lease[j] # {} <=> kept # {}
          BY <2>2 DEF SessionInv, PermitMatches
      <3>3. occupied' <=> \E k \in Jobs : lease'[k] # {}
          BY <3>1, <3>2, <1>2, <1>3 DEF SessionInv, PermitMatches
      <3>4. NoLostWakeup'
          BY <3>1, <1>2, <1>3 DEF SessionInv, NoLostWakeup
      <3> QED BY <3>3, <3>4
    <2> QED BY <2>1, <2>2
  <1> QED BY <1>1, <1>4, <1>5, <1>6, <1>7 DEF SessionInv, PermitMatches

\* Taking the permit, or parking because it is taken.
LEMMA AcquireStep ==
    ASSUME SessionInv, NEW j \in Jobs, Acquire(j)
    PROVE  SessionInv'
  <1>1. CASE occupied
    <2>1. UNCHANGED <<occupied, lease, pc>> /\ waiting' = waiting \cup {j}
        BY <1>1 DEF Acquire
    <2>2. pc[j] = "acquire"
        BY DEF Acquire
    <2> QED BY <1>1, <2>1, <2>2 DEF SessionInv, PermitTypes, PermitMatches, NoLostWakeup
  <1>2. CASE ~occupied
    <2>1. /\ occupied' = TRUE /\ waiting' = waiting /\ j \notin waiting
          /\ lease' = [lease EXCEPT ![j] = {"driver"}]
          /\ pc' = [pc EXCEPT ![j] = "route"]
        BY <1>2 DEF Acquire, GoTo
    <2>2. \A k \in Jobs : lease[k] = {}
        BY <1>2 DEF SessionInv, PermitMatches
    <2>3. "route" \in Leased /\ {"driver"} \in SUBSET Tokens /\ {"driver"} # {}
        BY DEF Leased, PrivateWork, Tokens
    <2>4. \A k \in Jobs : k # j => pc'[k] = pc[k] /\ lease'[k] = lease[k]
        BY <2>1 DEF SessionInv, PermitTypes
    <2>5. pc'[j] = "route" /\ lease'[j] = {"driver"}
        BY <2>1 DEF SessionInv, PermitTypes
    <2>6. PermitTypes'
        BY <2>1, <2>3 DEF SessionInv, PermitTypes, PrivateWork
    <2>7. PermitMatches'
      <3>1. \A k \in Jobs : lease'[k] # {} <=> pc'[k] \in Leased
          BY <2>2, <2>3, <2>4, <2>5 DEF SessionInv, PermitMatches
      <3>2. \A k, m \in Jobs : lease'[k] # {} /\ lease'[m] # {} => k = m
          BY <2>2, <2>4
      <3>3. occupied' <=> \E k \in Jobs : lease'[k] # {}
          BY <2>1, <2>3, <2>5
      <3>4. \A k \in waiting' : pc'[k] = "acquire"
          BY <2>1, <2>4 DEF SessionInv, PermitMatches, PermitTypes
      <3> QED BY <3>1, <3>2, <3>3, <3>4 DEF PermitMatches
    <2>8. NoLostWakeup'
        BY <2>1 DEF NoLostWakeup
    <2> QED BY <2>6, <2>7, <2>8 DEF SessionInv
  <1> QED BY <1>1, <1>2 DEF SessionInv, PermitTypes

\* A worker woken for no reason goes back to the queue by itself.
LEMMA SpuriousStep ==
    ASSUME SessionInv, NEW j \in Jobs, SpuriousWakeup(j)
    PROVE  SessionInv'
  <1>1. UNCHANGED <<pc, occupied, lease>> /\ waiting' = waiting \ {j} /\ j \in waiting
      BY DEF SpuriousWakeup
  <1>2. pc[j] = "acquire"
      BY <1>1 DEF SessionInv, PermitMatches
  <1> QED BY <1>1, <1>2 DEF SessionInv, PermitTypes, PermitMatches, NoLostWakeup

\* The epoch's clone is added to the one the worker already holds.
LEMMA InstallStep ==
    ASSUME SessionInv, NEW j \in Jobs, InstallSparse(j)
    PROVE  SessionInv'
  <1> USE DEF InstallSparse
  <1>1. pc[j] = "install" /\ UNCHANGED <<occupied, waiting>>
      OBVIOUS
  <1>2. CASE lease' = [lease EXCEPT ![j] = {"driver", "epoch"}]
             /\ pc' = [pc EXCEPT ![j] = "bind"]
    <2>1. /\ {"install", "bind"} \subseteq Leased
          /\ {"driver", "epoch"} \in SUBSET Tokens /\ {"driver", "epoch"} # {}
        BY DEF Leased, PrivateWork, Tokens
    <2>2. \A k \in Jobs : k # j => pc'[k] = pc[k] /\ lease'[k] = lease[k]
        BY <1>2 DEF SessionInv, PermitTypes
    <2>3. pc'[j] = "bind" /\ lease'[j] = {"driver", "epoch"}
        BY <1>2 DEF SessionInv, PermitTypes
    <2>4. PermitTypes'
        BY <1>1, <1>2, <2>1 DEF SessionInv, PermitTypes, PrivateWork
    <2>5. lease[j] # {}
        BY <1>1, <2>1 DEF SessionInv, PermitMatches
    <2>6. \A k \in Jobs : (lease'[k] # {}) <=> (lease[k] # {})
        BY <2>1, <2>2, <2>3, <2>5
    <2>7. PermitMatches'
      <3>1. \A k \in Jobs : lease'[k] # {} <=> pc'[k] \in Leased
          BY <2>1, <2>2, <2>3 DEF SessionInv, PermitMatches
      <3>2. \A k \in waiting' : pc'[k] = "acquire"
          BY <1>1, <2>2 DEF SessionInv, PermitMatches, PermitTypes
      <3> QED BY <1>1, <2>6, <3>1, <3>2 DEF SessionInv, PermitMatches
    <2>8. NoLostWakeup'
        BY <1>1, <2>2, <2>3 DEF SessionInv, NoLostWakeup
    <2> QED BY <2>4, <2>7, <2>8 DEF SessionInv
  <1>3. CASE lease' = lease /\ pc' = [pc EXCEPT ![j] = "compile"]
    <2>1. {"install", "compile"} \subseteq Leased /\ "compile" \in Places
        BY DEF Leased, PrivateWork, Places
    <2> QED BY <1>1, <1>3, <2>1, MoveStep DEF permitVars
  <1> QED BY <1>2, <1>3 DEF GoTo

\* Every other step of a worker moves it or drops clones.
LEMMA WorkerStep ==
    ASSUME SessionInv, NEW j \in Jobs, Work(j) \/ Skip(j) \/ SpuriousWakeup(j) \/ Panic(j)
    PROVE  SessionInv'
  <1> DEFINE Moves(q) == pc' = [pc EXCEPT ![j] = q] /\ UNCHANGED permitVars
             Drops(q, kept) == pc' = [pc EXCEPT ![j] = q] /\ DropLease(j, kept)
  <1>p. /\ {"idle", "start", "skipped", "done", "repass"} \subseteq Places \ Leased
        /\ {"route", "install", "bind", "pass", "compile", "rebind"} \subseteq Places \cap Leased
        /\ {"driver"} \in SUBSET Tokens /\ {"epoch"} \in SUBSET Tokens
        /\ "acquire" \in Places \ Leased
      BY DEF Places, Leased, PrivateWork, Tokens
  <1>m. ASSUME NEW q \in Places, Moves(q), pc[j] # "acquire", pc[j] \in Leased <=> q \in Leased
        PROVE  SessionInv'
      BY <1>m, MoveStep
  <1>d. ASSUME NEW q \in Places, NEW kept \in SUBSET Tokens, Drops(q, kept),
               pc[j] # "acquire", q # "acquire", kept # {} <=> q \in Leased,
               q \in Leased => pc[j] \in Leased
        PROVE  SessionInv'
      BY <1>d, DropStep
  <1> HIDE DEF Moves, Drops
  <1>1. CASE Spawn(j)
    <2>1. pc[j] = "idle" /\ (Moves("start") \/ Moves("done"))
        BY <1>1 DEF Spawn, GoTo, Finish, Moves
    <2> QED BY <2>1, <1>p, <1>m
  <1>2. CASE Skip(j)
    <2>1. pc[j] = "idle" /\ Moves("skipped")
        BY <1>2 DEF Skip, GoTo, Moves
    <2> QED BY <2>1, <1>p, <1>m
  <1>3. CASE RouteShared(j)
    <2>1. pc[j] = "start" /\ Moves("done")
        BY <1>3 DEF RouteShared, Reported, Finish, Moves
    <2> QED BY <2>1, <1>p, <1>m
  <1>4. CASE RoutePrivate(j)
    <2>1. pc[j] = "start" /\ Moves("acquire")
        BY <1>4 DEF RoutePrivate, GoTo, Moves
    <2> QED BY <2>1, <1>p, <1>m
  <1>5. CASE Acquire(j)
      BY <1>5, AcquireStep
  <1>6. CASE RouteSparse(j)
    <2>1. pc[j] = "route" /\ (Moves("install") \/ Moves("compile"))
        BY <1>6 DEF RouteSparse, GoTo, Moves
    <2> QED BY <2>1, <1>p, <1>m
  <1>7. CASE InstallSparse(j)
      BY <1>7, InstallStep
  <1>8. CASE BindSparse(j)
    <2>1. pc[j] = "bind" /\ (Drops("pass", {"driver"}) \/ Drops("compile", {"driver"}))
        BY <1>8 DEF BindSparse, GoTo, Drops
    <2> QED BY <2>1, <1>p, <1>d
  <1>9. CASE PassSparse(j)
    <2>1. pc[j] = "pass" /\ (Drops("done", {}) \/ Moves("compile"))
        BY <1>9 DEF PassSparse, Reported, Finish, GoTo, Drops, Moves
    <2> QED BY <2>1, <1>p, <1>d, <1>m
  <1>10. CASE CompileSource(j)
    <2>1. pc[j] = "compile" /\ (Drops("rebind", {"epoch"}) \/ Drops("done", {}))
        BY <1>10 DEF CompileSource, Finish, GoTo, Drops
    <2> QED BY <2>1, <1>p, <1>d
  <1>11. CASE BindSource(j)
    <2>1. pc[j] = "rebind" /\ (Drops("repass", {}) \/ Drops("done", {}))
        BY <1>11 DEF BindSource, Finish, GoTo, Drops
    <2> QED BY <2>1, <1>p, <1>d
  <1>12. CASE PassSource(j)
    <2>1. pc[j] = "repass" /\ Moves("done")
        BY <1>12 DEF PassSource, Reported, Finish, Moves
    <2> QED BY <2>1, <1>p, <1>m
  <1>13. CASE SpuriousWakeup(j)
      BY <1>13, SpuriousStep
  <1>14. CASE Panic(j)
    <2>1. pc[j] \in PrivateWork \cup {"start"} /\ Drops("done", {})
        BY <1>14 DEF Panic, Finish, Drops
    <2>2. pc[j] # "acquire"
        BY <2>1 DEF PrivateWork
    <2> QED BY <2>1, <2>2, <1>p, <1>d
  <1> QED BY <1>1, <1>2, <1>3, <1>4, <1>5, <1>6, <1>7, <1>8, <1>9, <1>10, <1>11,
             <1>12, <1>13, <1>14 DEF Work

\* A step of a call touches neither the permit nor a worker.
LEMMA ServeStep ==
    ASSUME SessionInv, NEW c \in Calls, Serve(c)
    PROVE  SessionInv'
  <1>1. UNCHANGED <<pc, occupied, waiting, lease>>
      BY DEF Serve, EnterInitialize, FinishInitialize, TakeLibrary, Return, permitVars
  <1> QED BY <1>1 DEF SessionInv, PermitTypes, PermitMatches, NoLostWakeup

LEMMA SessionStep == SessionInv /\ [Next]_vars => SessionInv'
  <1> SUFFICES ASSUME SessionInv, [Next]_vars PROVE SessionInv'
      OBVIOUS
  <1>1. CASE UNCHANGED vars
      BY <1>1 DEF vars, permitVars, SessionInv, PermitTypes, PermitMatches, NoLostWakeup
  <1>2. CASE \E c \in Calls : Serve(c)
      BY <1>2, ServeStep
  <1>3. CASE \E j \in Jobs : Work(j) \/ Skip(j) \/ SpuriousWakeup(j) \/ Panic(j)
      BY <1>3, WorkerStep
  <1> QED BY <1>1, <1>2, <1>3 DEF Next

\* For any number of workers, calls and pool threads: at most one worker is
\* building a private library or running on a sparse one.
THEOREM PermitExclusiveAlways == Spec => []PermitExclusive
  <1>1. Init => SessionInv
      BY InitInv
  <1>2. SessionInv => PermitExclusive
      BY DEF SessionInv, PermitMatches, PermitExclusive, Leased
  <1> QED BY <1>1, <1>2, SessionStep, PTL DEF Spec

\* For any number of workers: a release never loses the wakeup that the
\* parked workers depend on.
THEOREM NoLostWakeupAlways == Spec => []NoLostWakeup
  <1>1. Init => SessionInv
      BY InitInv
  <1>2. SessionInv => NoLostWakeup
      BY DEF SessionInv
  <1> QED BY <1>1, <1>2, SessionStep, PTL DEF Spec

\* Only the four steps of a call touch the provider.
LEMMA LibraryStep == LibraryInv /\ [Next]_vars => LibraryInv'
  <1> SUFFICES ASSUME LibraryInv, [Next]_vars PROVE LibraryInv'
      OBVIOUS
  <1> USE DEF LibraryInv, LibraryTypes, OneInitializer, OneLibrary
  <1>1. CASE UNCHANGED libraryVars
      BY <1>1 DEF libraryVars
  <1>2. ASSUME NEW c \in Calls, EnterInitialize(c)
        PROVE  LibraryInv'
      BY <1>2 DEF EnterInitialize
  <1>3. ASSUME NEW c \in Calls, FinishInitialize(c)
        PROVE  LibraryInv'
    <2>1. PICK r \in {"ready", "failed"} :
            /\ library' = r
            /\ seen' = [seen EXCEPT ![c] = r]
            /\ call' = [call EXCEPT ![c] = IF r = "ready" THEN "fanout" ELSE "error"]
        BY <1>3 DEF FinishInitialize
    <2>2. call[c] = "initialize" /\ library = "building"
        BY <1>3 DEF FinishInitialize
    <2>3. \A e \in Calls : seen[e] = "none"
        BY <2>2
    <2> QED BY <2>1, <2>2, <2>3
  <1>4. ASSUME NEW c \in Calls, TakeLibrary(c)
        PROVE  LibraryInv'
      BY <1>4 DEF TakeLibrary
  <1>5. ASSUME NEW c \in Calls, Return(c)
        PROVE  LibraryInv'
      BY <1>5 DEF Return
  <1>6. ASSUME NEW j \in Jobs, Work(j) \/ Skip(j) \/ SpuriousWakeup(j) \/ Panic(j)
        PROVE  UNCHANGED libraryVars
      BY <1>6 DEF Work, Spawn, Skip, RouteShared, RoutePrivate, Acquire, SpuriousWakeup,
            RouteSparse, InstallSparse, BindSparse, PassSparse, CompileSource, BindSource,
            PassSource, Panic
  <1> QED BY <1>1, <1>2, <1>3, <1>4, <1>5, <1>6 DEF Next, Serve, vars

\* For any number of calls: all of them are given the one result the
\* provider keeps.
THEOREM OneLibraryAlways == Spec => []OneLibrary
  <1>1. Init => LibraryInv
      BY InitInv
  <1>2. LibraryInv => OneLibrary
      BY DEF LibraryInv
  <1> QED BY <1>1, <1>2, LibraryStep, PTL DEF Spec

(***************************************************************************)
(* The closure of a replay schedule.                                       *)
(***************************************************************************)

\* One round of the closure.
Wider(S) == S \cup UNION {Consumers[o] : o \in S}

\* What the rounds approach: the least set that contains S and whoever reads
\* a member of it.
Least(S) == {o \in Owners : \A T \in SUBSET Owners : S \subseteq T /\ Wider(T) = T => o \in T}

LEMMA WiderProperties ==
    ASSUME NEW S \in SUBSET Owners
    PROVE  /\ Wider(S) \in SUBSET Owners
           /\ S \subseteq Wider(S)
           /\ \A T \in SUBSET Owners : S \subseteq T => Wider(S) \subseteq Wider(T)
           /\ Wider(S) = S <=> \A o \in S : Consumers[o] \subseteq S
  <1>1. \A o \in S : Consumers[o] \subseteq Owners
      BY PlanAssumption DEF Owners
  <1> QED BY <1>1 DEF Wider

\* The recursive definition has a solution, so close_owners is one.
LEMMA ClosureEquation ==
    ASSUME NEW S \in SUBSET Owners
    PROVE  close_owners[S] = IF Wider(S) = S THEN S ELSE close_owners[Wider(S)]
  <1> DEFINE Solves(f) ==
               f = [X \in SUBSET Owners |->
                      LET wider == X \cup UNION {Consumers[o] : o \in X}
                      IN  IF wider = X THEN X ELSE f[wider]]
             g == [X \in SUBSET Owners |-> Least(X)]
  <1>1. ASSUME NEW X \in SUBSET Owners
        PROVE  g[X] = IF Wider(X) = X THEN X ELSE g[Wider(X)]
    <2>1. g[X] = Least(X) /\ g[Wider(X)] = Least(Wider(X))
        BY WiderProperties
    <2>2. CASE Wider(X) = X
        BY <2>1, <2>2 DEF Least
    <2>3. CASE Wider(X) # X
      <3>1. ASSUME NEW T \in SUBSET Owners, Wider(T) = T
            PROVE  X \subseteq T <=> Wider(X) \subseteq T
          BY <3>1, WiderProperties
      <3> QED BY <2>1, <2>3, <3>1 DEF Least
    <2> QED BY <2>2, <2>3
  <1>2. Solves(g)
      BY <1>1 DEF Wider
  <1>3. close_owners = CHOOSE f : Solves(f)
      BY DEF close_owners
  <1> HIDE DEF Solves, g
  <1>4. Solves(close_owners)
      BY <1>2, <1>3
  <1> QED BY <1>4 DEF Solves, Wider

\* Whatever the library looks like, the closure contains what it started
\* from and every reader of what it contains.
LEMMA ClosureClosed ==
    ASSUME NEW S \in SUBSET Owners
    PROVE  /\ close_owners[S] \in SUBSET Owners
           /\ S \subseteq close_owners[S]
           /\ \A o \in close_owners[S] : Consumers[o] \subseteq close_owners[S]
  <1> DEFINE Right(X) == /\ close_owners[X] \in SUBSET Owners
                         /\ X \subseteq close_owners[X]
                         /\ \A o \in close_owners[X] : Consumers[o] \subseteq close_owners[X]
             Rest == {Owners \ X : X \in {Y \in SUBSET Owners : ~Right(Y)}}
  <1> SUFFICES ASSUME ~Right(S) PROVE FALSE
      OBVIOUS
  <1>1. IsWellFoundedOn(StrictSubsetOrdering(Owners), FiniteSubsetsOf(Owners))
      BY FS_StrictSubsetOrderingWellFounded
  <1>2. Rest \subseteq FiniteSubsetsOf(Owners) /\ Rest # {}
    <2>1. \A T \in SUBSET Owners : IsFiniteSet(T)
        BY FS_Subset, PlanAssumption
    <2> QED BY <2>1 DEF FiniteSubsetsOf
  <1>3. PICK R \in Rest : \A T \in Rest : ~(<<T, R>> \in StrictSubsetOrdering(Owners))
      BY <1>1, <1>2, WFMin
  <1>4. PICK X \in SUBSET Owners : R = Owners \ X /\ ~Right(X)
      BY <1>3
  <1>5. CASE Wider(X) = X
    <2>1. close_owners[X] = X
        BY <1>5, ClosureEquation
    <2> QED BY <1>4, <1>5, <2>1, WiderProperties
  <1>6. CASE Wider(X) # X
    <2>1. close_owners[X] = close_owners[Wider(X)]
        BY <1>6, ClosureEquation
    <2>2. X \subseteq Wider(X) /\ Wider(X) \in SUBSET Owners
        BY WiderProperties
    <2>3. ~Right(Wider(X))
        BY <1>4, <2>1, <2>2
    <2>4. Owners \ Wider(X) \in Rest
        BY <2>2, <2>3
    <2>5. Owners \ Wider(X) # Owners \ X /\ Owners \ Wider(X) \subseteq Owners \ X
        BY <1>6, <2>2
    <2>6. <<Owners \ Wider(X), R>> \in StrictSubsetOrdering(Owners)
        BY <1>4, <2>5 DEF StrictSubsetOrdering
    <2> QED BY <1>3, <2>4, <2>6
  <1> QED BY <1>5, <1>6

(***************************************************************************)
(* Answers and reports.                                                    *)
(***************************************************************************)

\* The i-th report is about the i-th input.
InOrder == [i \in 1..Units |-> i]

\* Whatever order the checker took the inputs in, the reports come out in
\* the order of the inputs: a permutation followed by its inverse.
LEMMA ReportsInOrder ==
    ASSUME NEW order \in Orders
    PROVE  assemble_project_reports(order) = InOrder
  <1>1. Units \in Nat
      BY SessionAssumption
  <1>2. IsFiniteSet(1..Units)
      BY <1>1, FS_Interval
  <1>3. order \in Injection(1..Units, 1..Units)
      BY DEF Orders, Injection, IsInjective
  <1>4. order \in Surjection(1..Units, 1..Units)
      BY <1>2, <1>3, FS_Injection
  <1>5. ASSUME NEW i \in 1..Units PROVE \E s \in 1..Units : order[s] = i
      BY <1>4 DEF Surjection
  <1>6. ASSUME NEW i \in 1..Units
        PROVE  order[CHOOSE s \in 1..Units : order[s] = i] = i
      BY <1>5
  <1> QED BY <1>6 DEF assemble_project_reports, InOrder

\* A schedule a sparse check may be answered from.
Complete(r) ==
    /\ r.mutated \subseteq r.replayed
    /\ r.mutated \cap Unplanned = {}
    /\ \A o \in r.replayed : Consumers[o] \subseteq r.replayed
    /\ \A o \in r.replayed \ {GlobalObject} : Site[o] \subseteq r.loaded

Successes == {"parse", "shared", "sparse", "complete"}

\* A worker has an answer exactly when it is done, and reports unless the
\* answer is an error.
Answered ==
    /\ reports \in [Jobs -> {<<>>, InOrder}]
    /\ \A j \in Jobs : IF pc[j] = "done"
                       THEN answer[j] = "error" \/ (answer[j] \in Successes /\ reports[j] = InOrder)
                       ELSE answer[j] = "none"

\* Only the failure of another file lets a file be dropped.
Excused ==
    \A j \in Jobs : pc[j] = "skipped" => \E k \in JobsOf(CallOf[j]) : answer[k] = "error"

\* A call runs its workers only with a library, and returns reports only
\* when all of them are done.
Returned ==
    \A c \in Calls :
        /\ call[c] \in {"fanout", "ok"} => seen[c] = "ready"
        /\ call[c] = "ok" => \A j \in JobsOf(c) : pc[j] = "done" /\ answer[j] # "error"

\* The schedule is complete from the pass on.
Scheduled ==
    \A j \in Jobs : pc[j] = "pass" \/ answer[j] = "sparse" => Complete(replay[j])

AnswerInv == TypeOK /\ Answered /\ Excused /\ Returned /\ Scheduled

\* The step of one worker, from a place where it can still move.
LEMMA AnswerStep ==
    ASSUME AnswerInv, TypeOK',
           NEW j \in Jobs, NEW place, NEW result, NEW rows \in {<<>>, InOrder}, NEW schedule,
           pc' = [pc EXCEPT ![j] = place], answer' = [answer EXCEPT ![j] = result],
           reports' = [reports EXCEPT ![j] = rows], replay' = [replay EXCEPT ![j] = schedule],
           UNCHANGED libraryVars, pc[j] \notin {"done", "skipped"},
           IF place = "done" THEN result = "error" \/ (result \in Successes /\ rows = InOrder)
                             ELSE result = "none",
           place = "skipped" => \E k \in JobsOf(CallOf[j]) : answer[k] = "error",
           place = "pass" \/ result = "sparse" => Complete(schedule)
    PROVE  AnswerInv'
  <1> USE DEF AnswerInv
  <1>1. /\ \A k \in Jobs \ {j} : /\ pc'[k] = pc[k] /\ answer'[k] = answer[k]
                                /\ reports'[k] = reports[k] /\ replay'[k] = replay[k]
        /\ pc'[j] = place /\ answer'[j] = result /\ reports'[j] = rows /\ replay'[j] = schedule
      BY DEF TypeOK, Answered
  <1>2. Answered'
      BY <1>1 DEF Answered
  <1>3. answer[j] = "none"
      BY DEF Answered
  <1>4. Excused'
    <2> SUFFICES ASSUME NEW i \in Jobs, pc'[i] = "skipped"
                 PROVE  \E k \in JobsOf(CallOf[i]) : answer'[k] = "error"
        BY DEF Excused
    <2>1. PICK k \in JobsOf(CallOf[i]) : answer[k] = "error"
        BY <1>1 DEF Excused
    <2>2. k \in Jobs \ {j}
        BY <1>3, <2>1 DEF JobsOf
    <2> QED BY <1>1, <2>1, <2>2
  <1>5. Returned'
    <2>1. ASSUME NEW c \in Calls, call[c] = "ok", NEW k \in JobsOf(c)
          PROVE  pc'[k] = "done" /\ answer'[k] # "error"
      <3>1. k \in Jobs /\ pc[k] = "done" /\ answer[k] # "error"
          BY <2>1 DEF Returned, JobsOf
      <3> QED BY <1>1, <3>1
    <2> QED BY <2>1 DEF Returned, libraryVars
  <1>6. Scheduled'
      BY <1>1 DEF Scheduled
  <1> QED BY <1>2, <1>4, <1>5, <1>6

\* Steps of a worker that leave its schedule alone.
LEMMA PlainStep ==
    ASSUME AnswerInv, TypeOK', NEW j \in Jobs,
           UNCHANGED <<libraryVars, replay>>,
           \/ \E place \in Places \ {"done", "skipped", "pass"} : GoTo(j, place)
           \/ Finish(j, "error", <<>>)
           \/ Finish(j, "parse", InOrder)
           \/ \E result \in {"shared", "complete"} : Reported(j, result)
           \/ pc[j] = "pass" /\ Reported(j, "sparse"),
           pc[j] \notin {"done", "skipped"}
    PROVE  AnswerInv'
  <1>0. answer[j] = "none" /\ reports[j] \in {<<>>, InOrder}
      BY DEF AnswerInv, Answered
  <1>r. replay' = [replay EXCEPT ![j] = replay[j]]
      BY DEF AnswerInv, TypeOK
  <1>1. ASSUME NEW place \in Places \ {"done", "skipped", "pass"}, GoTo(j, place)
        PROVE  AnswerInv'
    <2>1. /\ answer' = [answer EXCEPT ![j] = "none"]
          /\ reports' = [reports EXCEPT ![j] = reports[j]]
        BY <1>0, <1>1 DEF GoTo, AnswerInv, TypeOK, Answered
    <2>2. pc' = [pc EXCEPT ![j] = place]
        BY <1>1 DEF GoTo
    <2> QED BY <1>0, <1>r, <2>1, <2>2, AnswerStep
  <1>2. ASSUME NEW result, NEW rows \in {<<>>, InOrder}, Finish(j, result, rows),
               result = "error" \/ (result \in Successes /\ rows = InOrder),
               result = "sparse" => pc[j] = "pass"
        PROVE  AnswerInv'
    <2>1. result = "sparse" => Complete(replay[j])
        BY <1>2 DEF AnswerInv, Scheduled
    <2> QED BY <1>2, <1>r, <2>1, AnswerStep DEF Finish
  <1>3. ASSUME NEW result, Reported(j, result) PROVE Finish(j, result, InOrder)
      BY <1>3, ReportsInOrder DEF Reported
  <1>4. {"parse", "shared", "complete", "sparse"} \subseteq Successes
      BY DEF Successes
  <1> QED BY <1>1, <1>2, <1>3, <1>4

\* The schedule an epoch is installed with, and what binding makes of it.
LEMMA ScheduleTypes ==
    ASSUME NEW S \in SUBSET Owners
    PROVE  SourceOrdinals(S) \in SUBSET Files /\ RequiredSources(S) \in SUBSET Files
  <1>1. RequiredSources(S) \in SUBSET Files
      BY PlanAssumption DEF RequiredSources
  <1>2. Site[GlobalObject] \in SUBSET Files
      BY PlanAssumption DEF Owners
  <1>3. Site[GlobalObject] # {} => (CHOOSE f \in Site[GlobalObject] : TRUE) \in Files
      BY <1>2
  <1> QED BY <1>1, <1>3 DEF SourceOrdinals

LEMMA SeedTypes ==
    ASSUME NEW p \in Projects
    PROVE  SeedOwners(p.names) \in SUBSET Owners
  <1>1. p.names \subseteq Names
      BY DEF Projects
  <1>2. ASSUME NEW names \in SUBSET Names, NEW o \in SeedOwners(names)
        PROVE  o \in Planned
    <2>1. CASE o \in UNION {Seeded[n] : n \in names}
      <3>1. PICK n \in names : o \in Seeded[n]
          BY <2>1
      <3> QED BY <3>1, PlanAssumption
    <2>2. CASE o \in (IF names \cap Contributors # {} THEN {GlobalObject} ELSE {})
        BY <2>2, PlanAssumption
    <2> QED BY <1>2, <2>1, <2>2, Zenon DEF SeedOwners
  <1> QED BY <1>1, <1>2 DEF Owners

\* The types of a worker's schedule and answer.
LEMMA RestTypes ==
    ASSUME TypeOK, [Next]_vars
    PROVE  /\ input' \in [Jobs -> Projects]
           /\ replay' \in [Jobs -> Schedule]
           /\ answer' \in [Jobs -> {"none", "parse", "shared", "sparse", "complete", "error"}]
  <1> USE DEF TypeOK
  <1>1. CASE UNCHANGED <<input, replay, answer>>
      BY <1>1
  <1>2. ASSUME NEW j \in Jobs, NEW S \in SUBSET Owners, NEW F \in SUBSET Files,
               NEW M \in SUBSET Owners,
               replay' = [replay EXCEPT ![j] = [replayed |-> S, loaded |-> F, mutated |-> M]],
               UNCHANGED <<input, answer>>
        PROVE  replay' \in [Jobs -> Schedule]
      BY <1>2 DEF Schedule
  <1>3. ASSUME NEW c \in Calls, Serve(c) PROVE UNCHANGED <<input, replay, answer>>
      BY <1>3 DEF Serve, EnterInitialize, FinishInitialize, TakeLibrary, Return
  <1>4. ASSUME NEW j \in Jobs, InstallSparse(j) PROVE replay' \in [Jobs -> Schedule]
    <2> DEFINE owners == close_owners[SeedOwners(input[j].names)]
    <2>1. owners \in SUBSET Owners
        BY SeedTypes, ClosureClosed
    <2>2. SourceOrdinals(owners) \in SUBSET Files
        BY <2>1, ScheduleTypes
    <2> QED BY <1>4, <2>1, <2>2 DEF InstallSparse, Schedule
  <1>5. ASSUME NEW j \in Jobs, NEW M \in Mutations
        PROVE  M \in SUBSET Owners /\ Reclosed(replay[j].replayed, M) \in SUBSET Owners
    <2>1. M \in SUBSET Owners /\ replay[j].replayed \in SUBSET Owners
        BY SessionAssumption DEF Schedule
    <2> QED BY <2>1, ClosureClosed DEF Reclosed
  <1>6. ASSUME NEW j \in Jobs, BindSparse(j) PROVE replay' \in [Jobs -> Schedule]
    <2>1. PICK M \in Mutations :
            \/ UNCHANGED replay
            \/ replay' = [replay EXCEPT ![j].replayed = Reclosed(replay[j].replayed, M),
                                        ![j].mutated = M]
        BY <1>6 DEF BindSparse
    <2> QED BY <1>5, <2>1 DEF Schedule
  <1>7. ASSUME NEW j \in Jobs, CompileSource(j) PROVE replay' \in [Jobs -> Schedule]
      BY <1>7 DEF CompileSource, Schedule, Owners
  <1>8. ASSUME NEW j \in Jobs, BindSource(j) PROVE replay' \in [Jobs -> Schedule]
    <2>1. PICK M \in Mutations :
            \/ UNCHANGED replay
            \/ replay' = [replay EXCEPT ![j].mutated = M,
                                        ![j].replayed = Reclosed(replay[j].replayed, M)]
        BY <1>8 DEF BindSource
    <2> QED BY <1>5, <2>1 DEF Schedule
  <1>9. ASSUME NEW j \in Jobs, Work(j) \/ Skip(j) \/ SpuriousWakeup(j) \/ Panic(j)
        PROVE  /\ input' = input
               /\ \/ UNCHANGED replay \/ InstallSparse(j) \/ BindSparse(j)
                  \/ CompileSource(j) \/ BindSource(j)
               /\ \/ UNCHANGED answer
                  \/ \E a \in {"parse", "shared", "sparse", "complete", "error"} :
                        answer' = [answer EXCEPT ![j] = a]
      BY <1>9 DEF Work, Spawn, Skip, RouteShared, RoutePrivate, Acquire, SpuriousWakeup,
            RouteSparse, InstallSparse, BindSparse, PassSparse, CompileSource, BindSource,
            PassSource, Panic, Finish, GoTo, Reported
  <1>10. ASSUME NEW j \in Jobs, Work(j) \/ Skip(j) \/ SpuriousWakeup(j) \/ Panic(j)
         PROVE  /\ input' \in [Jobs -> Projects]
                /\ replay' \in [Jobs -> Schedule]
                /\ answer' \in [Jobs -> {"none", "parse", "shared", "sparse", "complete", "error"}]
    <2>1. replay' \in [Jobs -> Schedule]
        BY <1>4, <1>6, <1>7, <1>8, <1>9, <1>10
    <2>2. answer' \in [Jobs -> {"none", "parse", "shared", "sparse", "complete", "error"}]
        BY <1>9, <1>10
    <2> QED BY <1>9, <1>10, <2>1, <2>2
  <1> QED BY <1>1, <1>3, <1>10 DEF Next, vars

\* All types, from the parts the permit and the library already have.
LEMMA TypeStep == SessionInv /\ LibraryInv /\ TypeOK /\ [Next]_vars => TypeOK'
  <1> SUFFICES ASSUME SessionInv, LibraryInv, TypeOK, [Next]_vars PROVE TypeOK'
      OBVIOUS
  <1>1. SessionInv' /\ LibraryInv'
      BY SessionStep, LibraryStep
  <1> QED BY <1>1, RestTypes DEF SessionInv, LibraryInv, PermitTypes, LibraryTypes, TypeOK

\* A worker that may answer from its replay has replayed enough.
LEMMA BindCompletes ==
    ASSUME TypeOK, NEW j \in Jobs, NEW M \in Mutations, Authenticated(M),
           Loadable(Reclosed(replay[j].replayed, M), replay[j].loaded)
    PROVE  Complete([replay[j] EXCEPT !.replayed = Reclosed(replay[j].replayed, M), !.mutated = M])
  <1> DEFINE affected == Reclosed(replay[j].replayed, M)
  <1>1. M \in SUBSET Owners /\ replay[j].replayed \in SUBSET Owners /\ replay[j] \in Schedule
      BY SessionAssumption DEF TypeOK, Schedule
  <1>2. /\ affected \in SUBSET Owners /\ M \subseteq affected
        /\ \A o \in affected : Consumers[o] \subseteq affected
      BY <1>1, ClosureClosed DEF Reclosed
  <1>3. \A o \in affected \ {GlobalObject} : Site[o] \subseteq replay[j].loaded
      BY <1>2 DEF Loadable, RequiredSources
  <1>4. M \cap Unplanned = {}
      BY DEF Authenticated
  <1> HIDE DEF affected
  <1>5. Complete([replay[j] EXCEPT !.replayed = affected, !.mutated = M])
      BY <1>1, <1>2, <1>3, <1>4 DEF Complete, Schedule
  <1> QED BY <1>5 DEF affected

LEMMA WorkerAnswers ==
    ASSUME AnswerInv, TypeOK', NEW j \in Jobs, Work(j) \/ Skip(j) \/ SpuriousWakeup(j) \/ Panic(j)
    PROVE  AnswerInv'
  <1>p. {"start", "acquire", "route", "install", "bind", "compile", "rebind", "repass"}
            \subseteq Places \ {"done", "skipped", "pass"}
      BY DEF Places, PrivateWork
  <1>0. answer[j] = "none" \/ pc[j] = "done"
      BY DEF AnswerInv, Answered
  <1>t. /\ pc \in [Jobs -> Places] /\ answer \in [Jobs -> {"none", "error"} \cup Successes]
        /\ reports \in [Jobs -> {<<>>, InOrder}] /\ replay \in [Jobs -> Schedule]
      BY DEF AnswerInv, TypeOK, Answered, Places, Successes
  <1>1. CASE Spawn(j)
      BY <1>1, <1>p, PlainStep DEF Spawn
  <1>2. CASE Skip(j)
    <2>1. \E k \in JobsOf(CallOf[j]) : answer[k] = "error"
        BY <1>2 DEF Skip
    <2>2. /\ pc[j] = "idle" /\ pc' = [pc EXCEPT ![j] = "skipped"]
          /\ UNCHANGED <<libraryVars, answer, reports, replay>>
        BY <1>2 DEF Skip, GoTo
    <2>3. answer' = [answer EXCEPT ![j] = "none"] /\ reports' = [reports EXCEPT ![j] = reports[j]]
          /\ replay' = [replay EXCEPT ![j] = replay[j]] /\ reports[j] \in {<<>>, InOrder}
        BY <1>0, <1>t, <2>2
    <2>4. ASSUME NEW place, NEW result, NEW rows \in {<<>>, InOrder}, NEW schedule,
                 place = "skipped", result = "none", pc' = [pc EXCEPT ![j] = place],
                 answer' = [answer EXCEPT ![j] = result],
                 reports' = [reports EXCEPT ![j] = rows],
                 replay' = [replay EXCEPT ![j] = schedule]
          PROVE  AnswerInv'
      <3>1. place # "done" /\ place # "pass" /\ result # "sparse"
          BY <2>4
      <3>2. pc[j] \notin {"done", "skipped"} /\ UNCHANGED libraryVars
          BY <2>2
      <3> QED BY <2>1, <2>4, <3>1, <3>2, AnswerStep
    <2> QED BY <2>2, <2>3, <2>4
  <1>3. CASE RouteShared(j)
      BY <1>3, PlainStep DEF RouteShared, InOrder
  <1>4. CASE RoutePrivate(j)
      BY <1>4, <1>p, PlainStep DEF RoutePrivate
  <1>5. CASE Acquire(j)
    <2>1. CASE occupied
      <3>1. UNCHANGED <<libraryVars, pc, answer, reports, replay>>
          BY <1>5, <2>1 DEF Acquire
      <3> QED BY <3>1 DEF AnswerInv, Answered, Excused, Returned, Scheduled, libraryVars
    <2>2. CASE ~occupied
        BY <1>5, <2>2, <1>p, PlainStep DEF Acquire
    <2> QED BY <2>1, <2>2
  <1>6. CASE RouteSparse(j)
      BY <1>6, <1>p, PlainStep DEF RouteSparse
  <1>7. CASE InstallSparse(j)
    <2>1. CASE UNCHANGED replay /\ GoTo(j, "compile")
        BY <1>7, <2>1, <1>p, PlainStep DEF InstallSparse
    <2>2. CASE GoTo(j, "bind")
      <3>1. PICK schedule : replay' = [replay EXCEPT ![j] = schedule]
          BY <1>7, <1>t, <2>2 DEF InstallSparse
      <3>2. /\ pc[j] = "install" /\ pc' = [pc EXCEPT ![j] = "bind"]
            /\ UNCHANGED <<libraryVars, answer, reports>>
          BY <1>7, <2>2 DEF InstallSparse, GoTo
      <3>3. answer' = [answer EXCEPT ![j] = "none"] /\ reports' = [reports EXCEPT ![j] = reports[j]]
            /\ reports[j] \in {<<>>, InOrder}
          BY <1>0, <1>t, <3>2
      <3> QED BY <3>1, <3>2, <3>3, AnswerStep
    <2> QED BY <1>7, <2>1, <2>2 DEF InstallSparse
  <1>8. CASE BindSparse(j)
    <2>1. PICK M \in Mutations :
            \/ /\ Authenticated(M) /\ Loadable(Reclosed(replay[j].replayed, M), replay[j].loaded)
               /\ replay' = [replay EXCEPT ![j].replayed = Reclosed(replay[j].replayed, M),
                                           ![j].mutated = M]
               /\ GoTo(j, "pass")
            \/ UNCHANGED replay /\ GoTo(j, "compile")
        BY <1>8 DEF BindSparse
    <2>2. pc[j] = "bind" /\ UNCHANGED libraryVars
        BY <1>8 DEF BindSparse
    <2>3. CASE UNCHANGED replay /\ GoTo(j, "compile")
        BY <2>2, <2>3, <1>p, PlainStep
    <2>4. CASE /\ Authenticated(M) /\ Loadable(Reclosed(replay[j].replayed, M), replay[j].loaded)
               /\ replay' = [replay EXCEPT ![j].replayed = Reclosed(replay[j].replayed, M),
                                           ![j].mutated = M]
               /\ GoTo(j, "pass")
      <3> DEFINE schedule ==
            [replay[j] EXCEPT !.replayed = Reclosed(replay[j].replayed, M), !.mutated = M]
      <3>1. Complete(schedule)
          BY <2>4, BindCompletes DEF AnswerInv
      <3>2. replay' = [replay EXCEPT ![j] = schedule]
          BY <2>4, <1>t
      <3>3. /\ answer' = [answer EXCEPT ![j] = "none"] /\ reports' = [reports EXCEPT ![j] = reports[j]]
            /\ reports[j] \in {<<>>, InOrder} /\ pc' = [pc EXCEPT ![j] = "pass"]
          BY <1>0, <1>t, <2>2, <2>4 DEF GoTo
      <3> HIDE DEF schedule
      <3> QED BY <2>2, <3>1, <3>2, <3>3, AnswerStep
    <2> QED BY <2>1, <2>3, <2>4
  <1>9. CASE PassSparse(j)
      BY <1>9, <1>p, PlainStep DEF PassSparse
  <1>10. CASE CompileSource(j)
    <2>1. CASE UNCHANGED replay /\ Finish(j, "error", <<>>)
        BY <1>10, <2>1, PlainStep DEF CompileSource
    <2>2. CASE GoTo(j, "rebind")
      <3>1. PICK schedule : replay' = [replay EXCEPT ![j] = schedule]
          BY <1>10, <1>t, <2>2 DEF CompileSource
      <3>2. /\ pc[j] = "compile" /\ pc' = [pc EXCEPT ![j] = "rebind"]
            /\ UNCHANGED <<libraryVars, answer, reports>>
          BY <1>10, <2>2 DEF CompileSource, GoTo
      <3>3. answer' = [answer EXCEPT ![j] = "none"] /\ reports' = [reports EXCEPT ![j] = reports[j]]
            /\ reports[j] \in {<<>>, InOrder}
          BY <1>0, <1>t, <3>2
      <3> QED BY <3>1, <3>2, <3>3, AnswerStep
    <2> QED BY <1>10, <2>1, <2>2 DEF CompileSource
  <1>11. CASE BindSource(j)
    <2>1. PICK M \in Mutations :
            \/ /\ replay' = [replay EXCEPT ![j].mutated = M,
                                           ![j].replayed = Reclosed(replay[j].replayed, M)]
               /\ GoTo(j, "repass")
            \/ UNCHANGED replay /\ Finish(j, "error", <<>>)
        BY <1>11 DEF BindSource
    <2>2. pc[j] = "rebind" /\ UNCHANGED libraryVars
        BY <1>11 DEF BindSource
    <2>3. CASE UNCHANGED replay /\ Finish(j, "error", <<>>)
        BY <2>2, <2>3, PlainStep
    <2>4. CASE /\ replay' = [replay EXCEPT ![j].mutated = M,
                                           ![j].replayed = Reclosed(replay[j].replayed, M)]
               /\ GoTo(j, "repass")
      <3>1. PICK schedule : replay' = [replay EXCEPT ![j] = schedule]
          BY <2>4, <1>t
      <3>2. /\ answer' = [answer EXCEPT ![j] = "none"] /\ reports' = [reports EXCEPT ![j] = reports[j]]
            /\ reports[j] \in {<<>>, InOrder} /\ pc' = [pc EXCEPT ![j] = "repass"]
          BY <1>0, <1>t, <2>2, <2>4 DEF GoTo
      <3> QED BY <2>2, <3>1, <3>2, AnswerStep
    <2> QED BY <2>1, <2>3, <2>4
  <1>12. CASE PassSource(j)
      BY <1>12, PlainStep DEF PassSource
  <1>13. CASE SpuriousWakeup(j)
    <2>1. UNCHANGED <<libraryVars, pc, answer, reports, replay>>
        BY <1>13 DEF SpuriousWakeup
    <2> QED BY <2>1 DEF AnswerInv, Answered, Excused, Returned, Scheduled, libraryVars
  <1>14. CASE Panic(j)
    <2>1. pc[j] \notin {"done", "skipped"}
        BY <1>14 DEF Panic, PrivateWork
    <2> QED BY <1>14, <2>1, PlainStep DEF Panic
  <1> QED BY <1>1, <1>2, <1>3, <1>4, <1>5, <1>6, <1>7, <1>8, <1>9, <1>10, <1>11,
             <1>12, <1>13, <1>14 DEF Work

\* A call returns reports only when each of its workers has an answer.
LEMMA CallAnswers ==
    ASSUME AnswerInv, LibraryInv, TypeOK', NEW c \in Calls, Serve(c)
    PROVE  AnswerInv'
  <1> USE DEF AnswerInv
  <1>1. UNCHANGED <<pc, answer, reports, replay>>
      BY DEF Serve, EnterInitialize, FinishInitialize, TakeLibrary, Return
  <1>2. Answered' /\ Excused' /\ Scheduled'
      BY <1>1 DEF Answered, Excused, Scheduled
  <1>3. Returned'
    <2>1. CASE EnterInitialize(c) \/ FinishInitialize(c) \/ TakeLibrary(c)
        BY <1>1, <2>1 DEF EnterInitialize, FinishInitialize, TakeLibrary, Returned, TypeOK
    <2>2. CASE Return(c)
      <3>1. /\ call[c] = "fanout" /\ seen' = seen
            /\ call' = [call EXCEPT ![c] =
                          IF \E j \in JobsOf(c) : answer[j] = "error" THEN "error" ELSE "ok"]
            /\ \A j \in JobsOf(c) : pc[j] \in {"skipped", "done"}
          BY <2>2 DEF Return
      <3>2. ASSUME call'[c] = "ok", NEW j \in JobsOf(c)
            PROVE  pc[j] = "done" /\ answer[j] # "error"
        <4>1. j \in Jobs /\ CallOf[j] = c
            BY DEF JobsOf
        <4>2. ~\E k \in JobsOf(c) : answer[k] = "error"
            BY <3>1, <3>2 DEF TypeOK
        <4> QED BY <3>1, <4>1, <4>2 DEF Excused
      <3> QED BY <1>1, <3>1, <3>2 DEF Returned, TypeOK
    <2> QED BY <2>1, <2>2 DEF Serve
  <1> QED BY <1>2, <1>3

LEMMA InitAnswers == Init => AnswerInv
  <1> SUFFICES ASSUME Init PROVE AnswerInv
      OBVIOUS
  <1>1. TypeOK
      BY DEF Init, TypeOK, Tokens, Schedule, NoSchedule
  <1> QED BY <1>1 DEF Init, AnswerInv, Answered, Excused, Returned, Scheduled

LEMMA AnswersStep ==
    SessionInv /\ LibraryInv /\ AnswerInv /\ [Next]_vars => AnswerInv'
  <1> SUFFICES ASSUME SessionInv, LibraryInv, AnswerInv, [Next]_vars PROVE AnswerInv'
      OBVIOUS
  <1>1. TypeOK'
      BY TypeStep DEF AnswerInv
  <1>2. CASE UNCHANGED vars
      BY <1>1, <1>2 DEF vars, libraryVars, AnswerInv, Answered, Excused, Returned, Scheduled
  <1>3. CASE \E c \in Calls : Serve(c)
      BY <1>1, <1>3, CallAnswers
  <1>4. CASE \E j \in Jobs : Work(j) \/ Skip(j) \/ SpuriousWakeup(j) \/ Panic(j)
      BY <1>1, <1>4, WorkerAnswers
  <1> QED BY <1>2, <1>3, <1>4 DEF Next

LEMMA AnswersAlways == Spec => []AnswerInv
  <1>1. Init => SessionInv /\ LibraryInv /\ AnswerInv
      BY InitInv, InitAnswers
  <1> QED BY <1>1, SessionStep, LibraryStep, AnswersStep, PTL DEF Spec

\* Every variable of the session keeps its type.
THEOREM SessionTypesAlways == Spec => []TypeOK
  <1>1. AnswerInv => TypeOK
      BY DEF AnswerInv
  <1> QED BY <1>1, AnswersAlways, PTL

\* For any library, any reading relation between its owners and anything
\* binding may mutate: a sparse check answers only from a schedule that
\* holds what was mutated and all its readers, out of loaded files.
THEOREM SparseCompleteAlways == Spec => []SparseComplete
  <1>1. AnswerInv => SparseComplete
      BY DEF AnswerInv, Scheduled, SparseComplete, Complete
  <1> QED BY <1>1, AnswersAlways, PTL

\* For any number of calls, workers and inputs, whatever fails or panics: a
\* call that succeeds returns a report for every input, in input order.
THEOREM AllOrNothingAlways == Spec => []AllOrNothing
  <1>1. ASSUME AnswerInv, NEW c \in Calls, call[c] = "ok"
        PROVE  /\ seen[c] = "ready"
               /\ \A j \in JobsOf(c) :
                    answer[j] \notin {"none", "error"} /\ reports[j] = InOrder
    <2>1. \A j \in JobsOf(c) : j \in Jobs
        BY DEF JobsOf
    <2> QED BY <1>1, <2>1 DEF AnswerInv, Returned, Answered, Successes
  <1>2. AnswerInv => AllOrNothing
      BY <1>1 DEF AllOrNothing, InOrder
  <1> QED BY <1>2, AnswersAlways, PTL
=============================================================================
