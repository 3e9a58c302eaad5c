---------------------------- MODULE RelationEngine ----------------------------
(***************************************************************************)
(* SemanticQueryCoordinator::is_assignable and the Relater it drives: the  *)
(* demand-driven attempt loop of the coordinator, and the depth-first      *)
(* search of the relation engine with its cycle stack, its provisional     *)
(* assumptions and its caches.                                             *)
(*                                                                         *)
(* The machine is sequential.  What makes it hard is what survives from    *)
(* one query to the next: a verdict is worth caching only if it rests on   *)
(* no assumption about a key still in flight, on no unexpanded type, on no *)
(* exhausted plan and on no cycle-tainted one.                             *)
(***************************************************************************)
EXTENDS RelationRules, FiniteSets

CONSTANTS
    Identical,     \* keys whose source and target are the same type
    Contextual,    \* keys compared below a generic binder environment
    Poisoned,      \* root keys that reach a class whose publication failed
    Witness,       \* argument pairs checked before a same-class pair is planned
    ClassNodes,    \* class applications, expanded by projection
    EvalNodes,     \* deferred types, expanded by evaluation
    SurfaceNodes,  \* native sources, expanded to their apparent surface
    Cyclic,        \* nodes whose expansion may meet a substitution cycle
    Needs,         \* the nodes a key's operands must be expanded through
    Apparent,      \* the surfaces a key's own rule consults
    Garbled,       \* the key a call reaches through a cycle-tainted expansion
    MaxExpansions, \* MAX_CLASS_PROJECTION_EXPANSIONS
    NoNode

Nodes == ClassNodes \cup EvalNodes \cup SurfaceNodes

ASSUME KeyAssumption ==
    /\ Keys # {}
    /\ Identical \subseteq Keys /\ Contextual \subseteq Keys /\ Poisoned \subseteq Keys
    /\ \A k \in Identical : Rule[k] = <<>>
    /\ Garbled \in [Keys -> Keys]

(* A binder environment stays in force for everything below it.            *)
ASSUME ContextAssumption ==
    \A k \in Contextual :
        /\ Garbled[k] \in Contextual
        /\ \A i \in DOMAIN Rule[k] : \A j \in DOMAIN Rule[k][i] :
             Rule[k][i][j].key \in Contextual \cup Identical

ASSUME NodeAssumption ==
    /\ NoNode \notin Nodes
    /\ Cyclic \subseteq Nodes
    /\ Needs \in [Keys -> SUBSET (ClassNodes \cup EvalNodes)]
    /\ Apparent \in [Keys -> SUBSET SurfaceNodes]
    /\ MaxExpansions \in Nat

(* A public property of the parameter's own type makes the argument pair a *)
(* conjunct of the same-class relation.  Equal arguments are not compared. *)
ASSUME WitnessAssumption ==
    /\ Witness \in [Keys -> Seq(Keys)]
    /\ \A k \in Keys : \A i \in DOMAIN Witness[k] :
         /\ k \in Holds => Witness[k][i] \in Holds
         /\ Witness[k][i] \notin Contextual \cup Identical

VARIABLES
    pc,          \* the handler's position
    queries,     \* open is_assignable calls, innermost last
    result,      \* what the latest finished is_assignable call returned
    durable,     \* SemanticQueryState.relation_cache
    memo,        \* SemanticQueryState.completed_relations
    strike,      \* SemanticQueryState.completed_relation_no_candidates
    normal,      \* SemanticQueryState.projection_memo and evaluation_memo
    plan,        \* ProjectionPlanner.plan: how far each node is expanded
    planTaint,   \* ProjectionPlanner.planning_tainted
    cycleTaint,  \* ProjectionPlanner.cycle_taint_reason
    todo,        \* demands the planner still has to expand
    frames,      \* active relate calls; their keys are Relater.stack
    call,        \* the relate call being entered
    ret,         \* what the latest relate call returned
    pending,     \* Relater.pending_cache
    contextYes,  \* Relater.completed_contextual_yes
    demand,      \* Relater.query_demand
    batch,       \* Relater.query_apparent_demands
    observed,    \* Relater.query_demand_observed
    exhausted    \* Relater.query_exhaustion

stateVars   == <<durable, memo, strike, normal>>
plannerVars == <<plan, planTaint, cycleTaint, todo>>
demandVars  == <<demand, batch, observed, exhausted>>
cacheVars   == <<pending, contextYes>>
relaterVars == <<frames, call, ret, cacheVars, demandVars>>
queryVars   == <<queries, result>>
vars        == <<pc, queryVars, stateVars, plannerVars, relaterVars>>

Verdict == {"yes", "no"}
Entry   == {"none", "yes", "no"}
Outcome == {"none", "yes", "no", "exhausted"}

Frame == [key : Keys, want : BOOLEAN, cached : Entry,
          clause : Nat \ {0}, arm : Nat \ {0}, acc : SUBSET Keys]
Query == [root : Keys, next : Nat \ {0}]

Empty == [k \in Keys |-> "none"]

Init ==
    /\ pc = "idle"
    /\ queries = <<>>
    /\ result = [key |-> CHOOSE k \in Keys : TRUE, verdict |-> "none", tainted |-> FALSE]
    /\ durable = Empty /\ memo = Empty /\ strike = {}
    /\ normal = [n \in Nodes |-> "open"]
    /\ plan = [n \in Nodes |-> "open"]
    /\ planTaint = FALSE /\ cycleTaint = FALSE /\ todo = {}
    /\ frames = <<>>
    /\ call = [key |-> CHOOSE k \in Keys : TRUE, want |-> TRUE]
    /\ ret = [verdict |-> "no", assumed |-> {}]
    /\ pending = Empty /\ contextYes = {}
    /\ demand = NoNode /\ batch = {} /\ observed = FALSE /\ exhausted = FALSE

-----------------------------------------------------------------------------
(* The coordinator, before it plans.                                       *)

Current == queries[Len(queries)]
Root    == Current.root

(* Faulty variant of Return: the enclosing call is forgotten.              *)
ReturnToChecker(v, tainted) ==
    /\ result' = [key |-> Root, verdict |-> v, tainted |-> tainted]
    /\ queries' = SubSeq(queries, 1, Len(queries) - 1)
    /\ pc' = "idle"

(* is_assignable returns v to its caller: the checker, or the same-class   *)
(* shortcut of an enclosing call.  "tainted" only records, for the         *)
(* properties, whether a taint was met on the way to v.                    *)
Return(v, tainted) ==
    /\ result' = [key |-> Root, verdict |-> v, tainted |-> tainted]
    /\ queries' = SubSeq(queries, 1, Len(queries) - 1)
    /\ pc' = IF Len(queries) = 1 THEN "idle" ELSE "witnessed"

(* The checker asks for a relation between two types; no binder            *)
(* environment is active yet.                                              *)
Ask(k) ==
    /\ pc = "idle"
    /\ k \notin Contextual
    /\ queries' = <<[root |-> k, next |-> 1]>>
    /\ pc' = "ask"
    /\ UNCHANGED <<result, stateVars, plannerVars, relaterVars>>

(* publication_exhaustion, the completed-relation memo and type identity   *)
(* answer before any planning.                                             *)
AnswerEarly ==
    /\ pc = "ask"
    /\ \/ Root \in Poisoned /\ Return("exhausted", FALSE)
       \/ Root \notin Poisoned /\ memo[Root] # "none" /\ Return(memo[Root], FALSE)
       \/ Root \in Identical \ Poisoned /\ memo[Root] = "none" /\ Return("yes", FALSE)
    /\ UNCHANGED <<stateVars, plannerVars, relaterVars>>

NoEarlyAnswer ==
    /\ pc = "ask"
    /\ Root \notin Poisoned \cup Identical /\ memo[Root] = "none"
    /\ pc' = "witness"
    /\ UNCHANGED <<queryVars, stateVars, plannerVars, relaterVars>>

(* Faulty variant of Remember: exhaustion counts as a failure.             *)
RememberAnyFailure(k, v) ==
    /\ memo' = IF memo[k] = "none" /\ (v = "yes" \/ k \in strike)
               THEN [memo EXCEPT ![k] = IF v = "yes" THEN "yes" ELSE "no"] ELSE memo
    /\ strike' = CASE v # "yes" /\ k \notin strike -> strike \cup {k}
                   [] v # "yes" /\ k \in strike    -> strike \ {k}
                   [] OTHER                        -> strike

(* remember_completed_relation: a failure is remembered at its second      *)
(* occurrence, a success at once, exhaustion never.                        *)
Remember(k, v) ==
    /\ memo' = IF memo[k] = "none" /\ (v = "yes" \/ (v = "no" /\ k \in strike))
               THEN [memo EXCEPT ![k] = v] ELSE memo
    /\ strike' = CASE v = "no" /\ k \notin strike -> strike \cup {k}
                   [] v = "no" /\ k \in strike    -> strike \ {k}
                   [] OTHER                       -> strike

(* same_class_covariant_argument_mismatch asks is_assignable about each    *)
(* witnessed argument pair in turn.                                        *)
AskWitness ==
    /\ pc = "witness"
    /\ Current.next \in DOMAIN Witness[Root]
    /\ queries' = Append(queries, [root |-> Witness[Root][Current.next], next |-> 1])
    /\ pc' = "ask"
    /\ UNCHANGED <<result, stateVars, plannerVars, relaterVars>>

WitnessHolds ==
    /\ pc = "witnessed"
    /\ result.verdict = "yes"
    /\ queries' = [queries EXCEPT ![Len(queries)] = [root |-> Root, next |-> Current.next + 1]]
    /\ pc' = "witness"
    /\ UNCHANGED <<result, stateVars, plannerVars, relaterVars>>

WitnessFails ==
    /\ pc = "witnessed"
    /\ result.verdict # "yes"
    /\ Remember(Root, result.verdict)
    /\ Return(result.verdict, result.tainted)
    /\ UNCHANGED <<durable, normal, plannerVars, relaterVars>>

-----------------------------------------------------------------------------
(* The planner.                                                            *)

(* A durable evaluation is consulted by normalisation itself; a durable    *)
(* class projection must still be admitted into this query's plan.         *)
BeginPlan ==
    /\ pc = "witness"
    /\ Current.next \notin DOMAIN Witness[Root]
    /\ plan' = [n \in Nodes |-> IF n \in EvalNodes THEN normal[n] ELSE "open"]
    /\ planTaint' = FALSE /\ cycleTaint' = FALSE
    /\ todo' = Needs[Root]
    /\ pc' = "expand"
    /\ UNCHANGED <<queryVars, stateVars, relaterVars>>

(* Faulty variant of Forms: beyond the budget the node is left alone.      *)
FormsUnmarked(n) ==
    CASE plan[n] # "open" -> {plan[n]}
      [] n \in ClassNodes /\ Cardinality({m \in ClassNodes : plan[m] # "open"}) >= MaxExpansions
           -> {"open"}
      [] n \in ClassNodes /\ normal[n] # "open" -> {normal[n]}
      [] OTHER -> {"ready"} \cup (IF n \in Cyclic THEN {"cyclic"} ELSE {})
                            \cup (IF n \in SurfaceNodes THEN {} ELSE {"frontier"})

(* The forms an expansion can leave a node in.  A class application beyond *)
(* the budget goes to the frontier; so does one whose class is not         *)
(* published and an evaluation that exhausts its own budget.  A memoised   *)
(* projection is read back, whatever form it was committed in.             *)
Forms(n) ==
    CASE plan[n] # "open" -> {plan[n]}
      [] n \in ClassNodes /\ Cardinality({m \in ClassNodes : plan[m] # "open"}) >= MaxExpansions
           -> {"frontier"}
      [] n \in ClassNodes /\ normal[n] # "open" -> {normal[n]}
      [] OTHER -> {"ready"} \cup (IF n \in Cyclic THEN {"cyclic"} ELSE {})
                            \cup (IF n \in SurfaceNodes THEN {} ELSE {"frontier"})

Expand(n) ==
    /\ pc = "expand"
    /\ n \in todo
    /\ \E form \in Forms(n) :
         /\ plan' = [plan EXCEPT ![n] = form]
         /\ planTaint' = (planTaint \/ (form = "frontier" /\ plan[n] = "open"))
         /\ cycleTaint' = (cycleTaint \/ (form = "cyclic" /\ plan[n] = "open" /\ normal[n] # "cyclic"))
    /\ todo' = todo \ {n}
    /\ UNCHANGED <<pc, queryVars, stateVars, relaterVars>>

(* Relater::planned and the entry of is_assignable_attempt: everything but *)
(* the durable cache is fresh.                                             *)
StartAttempt ==
    /\ pc = "expand"
    /\ todo = {}
    /\ pending' = Empty /\ contextYes' = {}
    /\ demand' = NoNode /\ batch' = {} /\ observed' = FALSE /\ exhausted' = FALSE
    /\ call' = [key |-> Root, want |-> TRUE]
    /\ pc' = "call"
    /\ UNCHANGED <<queryVars, stateVars, plannerVars, frames, ret>>

-----------------------------------------------------------------------------
(* relate: the checks that may answer a call without running a rule.       *)

Top == frames[Len(frames)]
InFlight == {frames[i].key : i \in DOMAIN frames}

OpenNodes == {n \in Needs[call.key] : plan[n] = "open"}
AtFrontier == \E n \in Needs[call.key] : plan[n] = "frontier"

(* The operands after the plan's overlays have been followed.              *)
Normalized(c) ==
    IF \E n \in Needs[c] \cup Apparent[c] : plan[n] = "cyclic" THEN Garbled[c] ELSE c

(* Pending decisions shadow durable ones; below a binder environment the   *)
(* three-word cache is neither read nor written.                           *)
Cached(k) ==
    CASE k \in Contextual      -> "none"
      [] pending[k] # "none"   -> pending[k]
      [] OTHER                 -> durable[k]

Answer(v, assumed) ==
    /\ ret' = [verdict |-> v, assumed |-> assumed]
    /\ pc' = "ret"

CallFrontier ==
    /\ pc = "call"
    /\ AtFrontier
    /\ exhausted' = TRUE
    /\ Answer("no", {})
    /\ UNCHANGED <<queryVars, stateVars, plannerVars, frames, call, cacheVars,
                   demand, batch, observed>>

CallIdentical ==
    /\ pc = "call"
    /\ ~AtFrontier /\ call.key \in Identical
    /\ Answer("yes", {})
    /\ UNCHANGED <<queryVars, stateVars, plannerVars, frames, call, cacheVars, demandVars>>

(* The first open node becomes the attempt's demand; the pass goes on with *)
(* a "no" that is not a verdict.                                           *)
CallDemand ==
    /\ pc = "call"
    /\ ~AtFrontier /\ call.key \notin Identical
    /\ \E n \in OpenNodes : demand' = IF demand = NoNode THEN n ELSE demand
    /\ observed' = TRUE
    /\ Answer("no", {})
    /\ UNCHANGED <<queryVars, stateVars, plannerVars, frames, call, cacheVars, batch, exhausted>>

(* The call reaches the cycle stack and the caches.                        *)
Normal ==
    /\ pc = "call"
    /\ ~AtFrontier /\ call.key \notin Identical /\ OpenNodes = {}

(* Assume-true: a key in flight is taken to hold, and the assumption is    *)
(* reported to the caller.                                                 *)
CallInFlight ==
    /\ Normal
    /\ Normalized(call.key) \in InFlight
    /\ Answer("yes", {Normalized(call.key)})
    /\ UNCHANGED <<queryVars, stateVars, plannerVars, frames, call, cacheVars, demandVars>>

CallContextYes ==
    /\ Normal
    /\ LET k == Normalized(call.key) IN k \notin InFlight /\ k \in contextYes
    /\ Answer("yes", {})
    /\ UNCHANGED <<queryVars, stateVars, plannerVars, frames, call, cacheVars, demandVars>>

(* A cached success answers; a cached failure answers only a caller that   *)
(* will not read its reason.                                               *)
CallCached ==
    /\ Normal
    /\ LET k == Normalized(call.key) IN
         /\ k \notin InFlight \cup contextYes
         /\ \/ Cached(k) = "yes"
            \/ Cached(k) = "no" /\ ~call.want
         /\ Answer(Cached(k), {})
    /\ UNCHANGED <<queryVars, stateVars, plannerVars, frames, call, cacheVars, demandVars>>

(* Otherwise the key goes on the stack and its rule runs.  A rule that     *)
(* consults an apparent surface not yet planned records the demand and     *)
(* lets the pass continue with a "yes" that is not a verdict.              *)
OpenSurfaces(k) == {n \in Apparent[k] : plan[n] = "open"}

CallPush ==
    /\ Normal
    /\ LET k == Normalized(call.key)
           waits == OpenSurfaces(k) # {}
       IN
         /\ k \notin InFlight \cup contextYes
         /\ Cached(k) = "none" \/ (Cached(k) = "no" /\ call.want)
         /\ frames' = Append(frames,
                [key |-> k, want |-> call.want, cached |-> Cached(k),
                 clause |-> IF waits THEN Len(Rule[k]) + 1 ELSE 1, arm |-> 1, acc |-> {}])
         /\ observed' = (observed \/ waits)
         /\ batch' = IF waits /\ demand = NoNode THEN batch \cup OpenSurfaces(k) ELSE batch
    /\ pc' = "run"
    /\ UNCHANGED <<queryVars, stateVars, plannerVars, call, ret, cacheVars, demand, exhausted>>

-----------------------------------------------------------------------------
(* relate_uncached: clauses and arms in order, with early exits.           *)

Proved(f)  == f.clause > Len(Rule[f.key])
Refuted(f) == ~Proved(f) /\ f.arm > Len(Rule[f.key][f.clause])
Running(f) == ~Proved(f) /\ ~Refuted(f)
ArmOf(f)   == Rule[f.key][f.clause][f.arm]

Descend ==
    /\ pc = "run"
    /\ Running(Top)
    /\ call' = [key |-> ArmOf(Top).key, want |-> Top.want /\ ~ArmOf(Top).quiet]
    /\ pc' = "call"
    /\ UNCHANGED <<queryVars, stateVars, plannerVars, frames, ret, cacheVars, demandVars>>

(* A winning arm settles its clause; a losing one passes to the next arm.  *)
(* What the losing arm assumed is dropped only if the arm was local.       *)
Won(f, A)  == [f EXCEPT !.clause = f.clause + 1, !.arm = 1, !.acc = f.acc \cup A]
Lost(f, A) == [f EXCEPT !.arm = f.arm + 1,
                        !.acc = IF ArmOf(f).local THEN f.acc ELSE f.acc \cup A]

Deliver ==
    /\ pc = "ret"
    /\ frames # <<>>
    /\ frames' = [frames EXCEPT ![Len(frames)] =
           IF ret.verdict = "yes" THEN Won(Top, ret.assumed) ELSE Lost(Top, ret.assumed)]
    /\ pc' = "run"
    /\ UNCHANGED <<queryVars, stateVars, plannerVars, call, ret, cacheVars, demandVars>>

(* A failure already cached is never contradicted by its own recompute.    *)
Clamped(f) == IF Proved(f) /\ f.cached # "no" THEN "yes" ELSE "no"

(* Faulty variant of Outstanding: the frame's own key is not discharged.   *)
Undischarged(f) == f.acc

(* The frame discharges the assumption about its own key; what is left is  *)
(* about keys still in flight above it.                                    *)
Outstanding(f) == f.acc \ {f.key}

(* Faulty variant of Commits: provisional successes are committed.         *)
CommitsProvisional(f) == f.key \notin Contextual /\ f.cached = "none" /\ ~observed

(* A failure is always committed, a success only when it is not            *)
(* provisional, and nothing once a demand has been observed.               *)
Commits(f) ==
    /\ f.key \notin Contextual
    /\ f.cached = "none"
    /\ ~observed
    /\ Clamped(f) = "no" \/ Outstanding(f) = {}

CommitsContext(f) ==
    /\ f.key \in Contextual
    /\ Clamped(f) = "yes" /\ Outstanding(f) = {}
    /\ ~observed /\ ~exhausted

Complete ==
    /\ pc = "run"
    /\ ~Running(Top)
    /\ pending' = IF Commits(Top) THEN [pending EXCEPT ![Top.key] = Clamped(Top)] ELSE pending
    /\ contextYes' = IF CommitsContext(Top) THEN contextYes \cup {Top.key} ELSE contextYes
    /\ Answer(Clamped(Top), Outstanding(Top))
    /\ frames' = SubSeq(frames, 1, Len(frames) - 1)
    /\ UNCHANGED <<queryVars, stateVars, plannerVars, call, demandVars>>

-----------------------------------------------------------------------------
(* The coordinator, after an attempt.                                      *)

(* Exhaustion comes first, then the batch of surfaces, then the demand.    *)
Retry ==
    /\ pc = "ret"
    /\ frames = <<>>
    /\ ~exhausted
    /\ observed
    /\ todo' = IF batch # {} THEN batch ELSE {demand}
    /\ pc' = "expand"
    /\ UNCHANGED <<queryVars, stateVars, plan, planTaint, cycleTaint, relaterVars>>

(* Faulty variants of Promote: an undecided pass is promoted; the pass     *)
(* replaces the cache.                                                     *)
PromoteUndecided(decided) ==
    durable' = [k \in Keys |-> IF pending[k] # "none" THEN pending[k] ELSE durable[k]]
PromoteReplacing(decided) ==
    durable' = IF decided /\ ~planTaint /\ ~cycleTaint THEN pending ELSE durable

(* finish_planned and RelationCache::promote.                              *)
Promote(decided) ==
    durable' = IF decided /\ ~planTaint /\ ~cycleTaint
               THEN [k \in Keys |-> IF pending[k] # "none" THEN pending[k] ELSE durable[k]]
               ELSE durable

(* Faulty variant of CommitPlan: the expansions of every plan are kept.    *)
CommitEveryPlan ==
    normal' = [n \in Nodes |-> IF n \notin SurfaceNodes /\ plan[n] \in {"ready", "cyclic"}
                               THEN plan[n] ELSE normal[n]]

(* commit_plan: into_commit drops the expansions of a cycle-tainted plan.  *)
CommitPlan ==
    normal' = IF cycleTaint THEN normal
              ELSE [n \in Nodes |-> IF n \notin SurfaceNodes /\ plan[n] \in {"ready", "cyclic"}
                                    THEN plan[n] ELSE normal[n]]

Finish ==
    /\ pc = "ret"
    /\ frames = <<>>
    /\ exhausted \/ ~observed
    /\ Promote(~exhausted)
    /\ LET outcome == IF exhausted \/ (ret.verdict = "yes" /\ planTaint)
                      THEN "exhausted" ELSE ret.verdict
           commit  == ~planTaint /\ outcome # "exhausted"
       IN
         /\ IF commit THEN CommitPlan ELSE UNCHANGED normal
         /\ IF commit /\ ~cycleTaint THEN Remember(Root, outcome) ELSE UNCHANGED <<memo, strike>>
         /\ Return(outcome, planTaint \/ cycleTaint)
    /\ UNCHANGED <<plannerVars, relaterVars>>

-----------------------------------------------------------------------------
Coordinate ==
    \/ AnswerEarly \/ NoEarlyAnswer
    \/ AskWitness \/ WitnessHolds \/ WitnessFails
    \/ BeginPlan \/ (\E n \in Nodes : Expand(n)) \/ StartAttempt
    \/ Retry \/ Finish

Relate ==
    \/ CallFrontier \/ CallIdentical \/ CallDemand
    \/ CallInFlight \/ CallContextYes \/ CallCached \/ CallPush
    \/ Descend \/ Deliver \/ Complete

Next == (\E k \in Keys : Ask(k)) \/ Coordinate \/ Relate

Spec == Init /\ [][Next]_vars

(* The handler is ordinary sequential code: once entered it keeps running. *)
FairSpec == Spec /\ WF_vars(Coordinate \/ Relate)
-----------------------------------------------------------------------------
(* Properties.                                                             *)

TypeOK ==
    /\ pc \in {"idle", "ask", "witness", "witnessed", "expand", "call", "run", "ret"}
    /\ queries \in Seq(Query) /\ (pc = "idle" <=> queries = <<>>)
    /\ result \in [key : Keys, verdict : Outcome, tainted : BOOLEAN]
    /\ durable \in [Keys -> Entry] /\ memo \in [Keys -> Entry] /\ strike \subseteq Keys
    /\ normal \in [Nodes -> {"open", "ready", "cyclic"}]
    /\ plan \in [Nodes -> {"open", "ready", "cyclic", "frontier"}]
    /\ planTaint \in BOOLEAN /\ cycleTaint \in BOOLEAN /\ todo \subseteq Nodes
    /\ frames \in Seq(Frame) /\ (frames # <<>> => pc \in {"call", "run", "ret"})
    /\ (pc = "run" => frames # <<>>)
    /\ call \in [key : Keys, want : BOOLEAN]
    /\ ret \in [verdict : Verdict, assumed : SUBSET Keys]
    /\ pending \in [Keys -> Entry] /\ contextYes \subseteq Keys
    /\ demand \in Nodes \cup {NoNode} /\ batch \subseteq Nodes
    /\ observed \in BOOLEAN /\ exhausted \in BOOLEAN
    /\ (observed /\ batch = {} => demand # NoNode)

(* A verdict table agrees with the fixpoint.                               *)
Agrees(table) ==
    \A k \in Keys : /\ table[k] = "yes" => k \in Holds
                    /\ table[k] = "no" => k \notin Holds

(* "Only sound verdicts are ever stored ... so a cached hit is ground      *)
(* truth" (relate): whatever was asked before, in whatever order, the      *)
(* durable relation cache says what the rules say - no provisional "yes"   *)
(* of a cycle, no "no" of an unexpanded or exhausted operand, nothing from *)
(* a tainted plan.                                                         *)
DurableSound == Agrees(durable)

(* The completed-relation memo, which answers whole queries, is sound too. *)
MemoSound == Agrees(memo)

(* A verdict the coordinator returns without taint is the fixpoint's,      *)
(* whichever queries ran before it and whatever they left in the caches.   *)
AnswerIsFixpoint ==
    ~result.tainted => /\ result.verdict = "yes" => result.key \in Holds
                       /\ result.verdict = "no" => result.key \notin Holds

(* "Whatever survives here would be an assumption about a key with no      *)
(* enclosing frame - impossible by construction" (is_assignable).          *)
AssumptionsInFlight ==
    /\ \A i \in DOMAIN frames : frames[i].acc \subseteq {frames[j].key : j \in 1..i}
    /\ pc = "ret" => ret.assumed \subseteq InFlight

(* No cycle-tainted expansion outlives its query (into_commit), so every   *)
(* later query normalises through clean forms.                             *)
ExpansionsClean == \A n \in Nodes : normal[n] # "cyclic"

(* Promotion overwrites, but it never changes a durable verdict: the       *)
(* engine does not contradict its own cache.                               *)
DurableStable == [][\A k \in Keys : durable[k] # "none" => durable'[k] = durable[k]]_vars

(* "A tainted query changes none of it" (SemanticQueryState): durable      *)
(* state moves only with a verdict reached without taint.                  *)
TaintChangesNothing == [][stateVars' # stateVars => ~result'.tainted]_vars

(* The invariant the soundness of the caches rests on, in named parts.     *)

(* Nothing that disqualifies the attempt's verdicts has been met so far.   *)
Clean == ~observed /\ ~exhausted /\ ~cycleTaint
Searching == pc \in {"call", "run", "ret"}

(* The key the active relate call was asked about.                         *)
Callee == IF frames = <<>> THEN Root ELSE ArmOf(Top).key

(* A key that follows once the keys of A are assumed.                      *)
Given(A) == Under(A) \cup A

(* A plan holds a cycle-tainted form only if it says so.                   *)
PlanClean ==
    /\ ~cycleTaint => \A n \in Nodes : plan[n] # "cyclic"
    /\ cycleTaint => Cyclic # {}

(* Every frame but the innermost waits for the call its arm made.          *)
StackShape ==
    /\ \A i \in DOMAIN frames :
         i < Len(frames) \/ pc \in {"call", "ret"} => Running(frames[i])
    /\ pc = "call" => call.key = Callee

StackLinked ==
    /\ frames # <<>> => frames[1].key = Root
    /\ \A i \in DOMAIN frames : i < Len(frames) => frames[i + 1].key = ArmOf(frames[i]).key

(* What a frame has established of its rule: each settled clause follows   *)
(* from what the frame assumed, each rejected arm is really false.         *)
FrameSound(f) ==
    /\ \A c \in DOMAIN Rule[f.key] : c < f.clause =>
         \E i \in DOMAIN Rule[f.key][c] : Rule[f.key][c][i].key \in Given(f.acc)
    /\ ~Proved(f) => \A i \in DOMAIN Rule[f.key][f.clause] :
         i < f.arm => Rule[f.key][f.clause][i].key \notin Holds
    /\ f.cached = "no" => f.key \notin Holds

AnswerSound ==
    /\ ret.verdict = "yes" => Callee \in Given(ret.assumed)
    /\ ret.verdict = "no" => Callee \notin Holds

(* While nothing disqualifying was met, every intermediate result of the   *)
(* search is right relative to the assumptions it carries.                 *)
SearchSound ==
    Searching /\ Clean =>
        /\ Agrees(pending) /\ contextYes \subseteq Holds
        /\ StackLinked
        /\ \A i \in DOMAIN frames : FrameSound(frames[i])
        /\ pc = "ret" => AnswerSound

(* An open query below another waits for the argument pair it asked about. *)
QueriesLinked ==
    /\ \A i \in DOMAIN queries : i < Len(queries) =>
         /\ queries[i].next \in DOMAIN Witness[queries[i].root]
         /\ queries[i + 1].root = Witness[queries[i].root][queries[i].next]
    /\ pc = "witnessed" => /\ Current.next \in DOMAIN Witness[Root]
                           /\ result.key = Witness[Root][Current.next]

(* A verdict is wrong only if a tainted expansion was used on the way.     *)
ResultReliable ==
    Cyclic = {} \/ ~result.tainted =>
        /\ result.verdict = "yes" => result.key \in Holds
        /\ result.verdict = "no" => result.key \notin Holds

EngineInv ==
    /\ TypeOK /\ ExpansionsClean /\ PlanClean /\ DurableSound
    /\ AssumptionsInFlight /\ StackShape /\ SearchSound

(* Every query is answered: the search terminates on recursive types and   *)
(* the demand loop runs out of nodes to expand.                            *)
EveryQueryAnswered == (pc # "idle") ~> (pc = "idle")
=============================================================================
