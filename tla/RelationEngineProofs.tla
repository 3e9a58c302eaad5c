------------------------- MODULE RelationEngineProofs -------------------------
(***************************************************************************)
(* What RelationEngine guarantees for every rule system, every plan and    *)
(* every sequence of queries.                                              *)
(***************************************************************************)
EXTENDS RelationEngine, SequenceLemmas, SequenceTheorems, TLAPS

-----------------------------------------------------------------------------
(* The rules.                                                              *)

(* A key derivable from W is derivable from more.                          *)
LEMMA SatMonotone ==
    ASSUME NEW k \in Keys, NEW W, NEW V, W \subseteq V, Sat(k, W)
    PROVE  Sat(k, V)
  BY DEF Sat

LEMMA UnderMonotone ==
    ASSUME NEW A, NEW B, A \subseteq B
    PROVE  Under(A) \subseteq Under(B)
  <1> SUFFICES ASSUME NEW k \in Under(A) PROVE k \in Under(B)
    OBVIOUS
  <1>1. PICK W \in SUBSET Keys : k \in W /\ Closed(W, A)
    BY DEF Under
  <1>2. Closed(W, B)
    <2> SUFFICES ASSUME NEW w \in W PROVE Sat(w, W \cup B)
      BY DEF Closed
    <2>1. Sat(w, W \cup A)
      BY <1>1 DEF Closed
    <2>2. W \cup A \subseteq W \cup B
      OBVIOUS
    <2> QED
      BY <2>1, <2>2, SatMonotone
  <1> QED
    BY <1>1, <1>2 DEF Under

(* What follows from A justifies itself, given A.                          *)
LEMMA UnderClosed ==
    ASSUME NEW A
    PROVE  Closed(Under(A), A)
  <1> SUFFICES ASSUME NEW k \in Under(A) PROVE Sat(k, Under(A) \cup A)
    BY DEF Closed
  <1>1. PICK W \in SUBSET Keys : k \in W /\ Closed(W, A)
    BY DEF Under
  <1>2. W \subseteq Under(A)
    BY <1>1 DEF Under
  <1>3. Sat(k, W \cup A)
    BY <1>1 DEF Closed
  <1> QED
    BY <1>2, <1>3, SatMonotone DEF Under

(* Discharging a frame's own key: a key whose rule succeeds under the      *)
(* assumption that the key itself holds does not need that assumption.     *)
LEMMA Discharge ==
    ASSUME NEW k \in Keys, NEW A,
           Sat(k, Under(A \cup {k}) \cup A \cup {k})
    PROVE  k \in Under(A)
  <1> DEFINE W == Under(A \cup {k}) \cup {k}
  <1>1. W \in SUBSET Keys
    BY DEF Under
  <1>2. Closed(W, A)
    <2> SUFFICES ASSUME NEW w \in W PROVE Sat(w, W \cup A)
      BY DEF Closed
    <2>1. CASE w = k
      <3>1. Under(A \cup {k}) \cup A \cup {k} = W \cup A
        OBVIOUS
      <3> QED
        BY <2>1, <3>1
    <2>2. CASE w # k
      <3>1. w \in Under(A \cup {k})
        BY <2>2
      <3>2. Sat(w, Under(A \cup {k}) \cup (A \cup {k}))
        BY <3>1, UnderClosed DEF Closed
      <3>3. Under(A \cup {k}) \cup (A \cup {k}) = W \cup A
        OBVIOUS
      <3> QED
        BY <3>2, <3>3
    <2> QED
      BY <2>1, <2>2
  <1>3. k \in W
    OBVIOUS
  <1> QED
    BY <1>1, <1>2, <1>3 DEF Under

(* The relation satisfies its own rules.                                   *)
LEMMA HoldsIsFixpoint ==
    ASSUME NEW k \in Holds
    PROVE  Sat(k, Holds)
  <1>1. Sat(k, Under({}) \cup {})
    BY UnderClosed DEF Holds, Closed
  <1>2. Under({}) \cup {} = Holds
    BY DEF Holds
  <1> QED
    BY <1>1, <1>2

(* Two operands of the same type are related.                              *)
LEMMA IdenticalHolds ==
    ASSUME NEW k \in Identical
    PROVE  k \in Under({})
  <1>1. k \in Keys /\ Rule[k] = <<>>
    BY KeyAssumption
  <1>2. Closed({k}, {})
    BY <1>1 DEF Closed, Sat
  <1> QED
    BY <1>1, <1>2 DEF Under

-----------------------------------------------------------------------------
(* Types.                                                                  *)

LEMMA TypeInit == Init => TypeOK
  <1> SUFFICES ASSUME Init PROVE TypeOK
    OBVIOUS
  <1>1. (CHOOSE k \in Keys : TRUE) \in Keys
    BY KeyAssumption
  <1> QED
    BY <1>1, EmptySeq DEF Init, TypeOK, Empty, Entry, Outcome, Verdict

(* The innermost query and the innermost frame.                            *)
LEMMA TopTypes ==
    ASSUME TypeOK
    PROVE  /\ pc # "idle" => /\ Len(queries) \in Nat \ {0}
                             /\ Current \in Query /\ Root \in Keys
           /\ frames # <<>> => Len(frames) \in Nat \ {0} /\ Top \in Frame
           /\ \A i \in 1..Len(frames) : frames[i] \in Frame
  <1>1. queries \in Seq(Query) /\ frames \in Seq(Frame) /\ (pc # "idle" => queries # <<>>)
    BY DEF TypeOK
  <1>2. queries # <<>> => Len(queries) \in Nat \ {0} /\ queries[Len(queries)] \in Query
    BY <1>1, PopProperties
  <1>3. frames # <<>> => Len(frames) \in Nat \ {0} /\ frames[Len(frames)] \in Frame
    BY <1>1, PopProperties
  <1>4. \A i \in 1..Len(frames) : frames[i] \in Frame
    BY <1>1, LenProperties
  <1> QED
    BY <1>1, <1>2, <1>3, <1>4 DEF Current, Root, Top, Query

(* Returning from is_assignable keeps the query stack well formed.         *)
LEMMA TypeReturn ==
    ASSUME TypeOK, pc # "idle", NEW v \in Outcome, NEW tainted \in BOOLEAN, Return(v, tainted)
    PROVE  /\ result' \in [key : Keys, verdict : Outcome, tainted : BOOLEAN]
           /\ queries' \in Seq(Query) /\ (pc' = "idle" <=> queries' = <<>>)
           /\ pc' \in {"idle", "witnessed"}
  <1>1. queries \in Seq(Query) /\ queries # <<>>
    BY DEF TypeOK
  <1>2. /\ queries' \in Seq(Query) /\ Len(queries') = Len(queries) - 1
        /\ Len(queries) \in Nat \ {0}
    BY <1>1, PopProperties DEF Return
  <1>3. queries' = <<>> <=> Len(queries) = 1
    <2>1. queries' = <<>> <=> Len(queries') = 0
      BY <1>2, EmptySeq
    <2>2. \A n \in Nat \ {0} : n - 1 = 0 <=> n = 1
      OBVIOUS
    <2> QED
      BY <1>2, <2>1, <2>2
  <1> QED
    BY <1>2, <1>3, TopTypes DEF Return

LEMMA TypeRemember ==
    ASSUME TypeOK, NEW k \in Keys, NEW v \in {"yes", "no", "exhausted"}, Remember(k, v)
    PROVE  memo' \in [Keys -> Entry] /\ strike' \subseteq Keys
  BY DEF TypeOK, Remember, Entry

LEMMA TypeCoordinate ==
    ASSUME TypeOK, Coordinate
    PROVE  TypeOK'
  <1> USE DEF queryVars, stateVars, plannerVars, relaterVars, cacheVars, demandVars
  <1>1. CASE AnswerEarly
    <2>1. pc = "ask" /\ memo[Root] \in Outcome
      BY <1>1, TopTypes DEF AnswerEarly, TypeOK, Outcome, Entry
    <2>2. \E v \in Outcome : Return(v, FALSE)
      BY <1>1, <2>1 DEF AnswerEarly, Outcome
    <2> QED
      BY <1>1, <2>1, <2>2, TypeReturn DEF AnswerEarly, TypeOK
  <1>2. CASE NoEarlyAnswer
    BY <1>2 DEF NoEarlyAnswer, TypeOK
  <1>3. CASE AskWitness
    <2>1. Witness[Root] \in Seq(Keys)
      BY <1>3, TopTypes, WitnessAssumption DEF AskWitness
    <2>2. Witness[Root][Current.next] \in Keys
      BY <1>3, <2>1 DEF AskWitness
    <2>3. [root |-> Witness[Root][Current.next], next |-> 1] \in Query
      BY <2>2 DEF Query
    <2>4. queries' \in Seq(Query) /\ queries' # <<>>
      BY <1>3, <2>3 DEF AskWitness, TypeOK
    <2> QED
      BY <1>3, <2>4 DEF AskWitness, TypeOK
  <1>4. CASE WitnessHolds
    <2>1. pc # "idle"
      BY <1>4 DEF WitnessHolds
    <2>2. [root |-> Root, next |-> Current.next + 1] \in Query
      BY <2>1, TopTypes DEF Query
    <2>3. queries \in Seq(Query) /\ Len(queries) \in 1..Len(queries)
      BY <2>1, TopTypes DEF TypeOK
    <2>4. queries' \in Seq(Query) /\ Len(queries') = Len(queries)
      BY <1>4, <2>2, <2>3, ExceptSeq DEF WitnessHolds
    <2> QED
      BY <1>4, <2>1, <2>4, TopTypes DEF WitnessHolds, TypeOK
  <1>5. CASE WitnessFails
    <2>1. pc = "witnessed" /\ result.verdict \in Outcome /\ result.tainted \in BOOLEAN
      BY <1>5 DEF WitnessFails, TypeOK
    <2>2. Return(result.verdict, result.tainted) /\ Remember(Root, result.verdict)
      BY <1>5 DEF WitnessFails
    <2>3. memo' \in [Keys -> Entry] /\ strike' \subseteq Keys
      BY <2>1, <2>2, TopTypes DEF TypeOK, Remember, Entry
    <2> QED
      BY <1>5, <2>1, <2>2, <2>3, TypeReturn DEF WitnessFails, TypeOK
  <1>6. CASE BeginPlan
    BY <1>6, TopTypes, NodeAssumption DEF BeginPlan, TypeOK, Nodes
  <1>7. ASSUME NEW n \in Nodes, Expand(n) PROVE TypeOK'
    <2>1. Forms(n) \subseteq {"open", "ready", "cyclic", "frontier"}
      BY DEF Forms, TypeOK
    <2> QED
      BY <1>7, <2>1 DEF Expand, TypeOK
  <1>8. CASE StartAttempt
    BY <1>8, TopTypes, NodeAssumption DEF StartAttempt, TypeOK, Empty, Entry
  <1>9. CASE Retry
    BY <1>9 DEF Retry, TypeOK
  <1>10. CASE Finish
    <2> DEFINE outcome == IF exhausted \/ (ret.verdict = "yes" /\ planTaint)
                          THEN "exhausted" ELSE ret.verdict
               commit == ~planTaint /\ outcome # "exhausted"
    <2>1. pc = "ret" /\ outcome \in {"yes", "no", "exhausted"}
      BY <1>10 DEF Finish, TypeOK, Verdict
    <2>2. Return(outcome, planTaint \/ cycleTaint)
      BY <1>10 DEF Finish
    <2>3. durable' \in [Keys -> Entry]
      BY <1>10 DEF Finish, Promote, TypeOK
    <2>4. normal' \in [Nodes -> {"open", "ready", "cyclic"}]
      <3>1. normal' = normal \/ CommitPlan
        BY <1>10 DEF Finish
      <3> QED
        BY <3>1 DEF CommitPlan, TypeOK
    <2>5. memo' \in [Keys -> Entry] /\ strike' \subseteq Keys
      <3>1. CASE commit /\ ~cycleTaint
        <4>1. Remember(Root, outcome)
          BY <1>10, <3>1 DEF Finish
        <4> QED
          BY <4>1, <2>1, TypeRemember, TopTypes
      <3>2. CASE ~(commit /\ ~cycleTaint)
        BY <1>10, <3>2 DEF Finish, TypeOK
      <3> QED
        BY <3>1, <3>2
    <2>6. (planTaint \/ cycleTaint) \in BOOLEAN /\ outcome \in Outcome
      BY <2>1 DEF Outcome
    <2>7. /\ result' \in [key : Keys, verdict : Outcome, tainted : BOOLEAN]
          /\ queries' \in Seq(Query) /\ (pc' = "idle" <=> queries' = <<>>)
          /\ pc' \in {"idle", "witnessed"}
      BY <2>1, <2>2, <2>6, TypeReturn
    <2> QED
      BY <1>10, <2>3, <2>4, <2>5, <2>7 DEF Finish, TypeOK
  <1> QED
    BY <1>1, <1>2, <1>3, <1>4, <1>5, <1>6, <1>7, <1>8, <1>9, <1>10 DEF Coordinate

(* The arm a running frame is at.                                          *)
LEMMA ArmType ==
    ASSUME NEW f \in Frame, Running(f)
    PROVE  /\ f.clause \in DOMAIN Rule[f.key] /\ f.arm \in DOMAIN Rule[f.key][f.clause]
           /\ ArmOf(f) \in Arm
  <1>1. Rule[f.key] \in Seq(Seq(Arm)) /\ f.clause \in Nat \ {0} /\ f.arm \in Nat \ {0}
    BY RuleAssumption DEF Frame
  <1>2. f.clause \in DOMAIN Rule[f.key] /\ Rule[f.key][f.clause] \in Seq(Arm)
    BY <1>1 DEF Running, Proved
  <1>3. f.arm \in DOMAIN Rule[f.key][f.clause] /\ Rule[f.key][f.clause][f.arm] \in Arm
    BY <1>1, <1>2 DEF Running, Proved, Refuted
  <1> QED
    BY <1>2, <1>3 DEF ArmOf

(* Delivering an answer leaves a frame a frame.                            *)
LEMMA StepTypes ==
    ASSUME NEW f \in Frame, NEW A \in SUBSET Keys
    PROVE  Won(f, A) \in Frame /\ Lost(f, A) \in Frame
  <1>1. f.acc \cup A \in SUBSET Keys /\ f.acc \in SUBSET Keys
    BY DEF Frame
  <1>2. f.clause + 1 \in Nat \ {0} /\ f.arm + 1 \in Nat \ {0}
    BY DEF Frame
  <1>3. (IF ArmOf(f).local THEN f.acc ELSE f.acc \cup A) \in SUBSET Keys
    BY <1>1
  <1>4. Won(f, A) \in Frame
    <2> DEFINE f1 == [f EXCEPT !.clause = f.clause + 1]
               f2 == [f1 EXCEPT !.arm = 1]
    <2>1. f1 \in Frame
      BY <1>2 DEF Frame
    <2>2. Won(f, A) = [f2 EXCEPT !.acc = f.acc \cup A]
      BY DEF Won
    <2> HIDE DEF f1
    <2>3. f2 \in Frame
      BY <2>1 DEF Frame
    <2> HIDE DEF f2
    <2>4. [f2 EXCEPT !.acc = f.acc \cup A] \in Frame
      BY <1>1, <2>3 DEF Frame
    <2> QED
      BY <2>2, <2>4
  <1>5. Lost(f, A) \in Frame
    BY <1>2, <1>3 DEF Lost, Frame
  <1> QED
    BY <1>4, <1>5

(* What delivering an answer does to each field of a frame.                *)
LEMMA WonLost ==
    ASSUME NEW f \in Frame, NEW A \in SUBSET Keys
    PROVE  /\ Won(f, A).key = f.key /\ Lost(f, A).key = f.key
           /\ Won(f, A).cached = f.cached /\ Lost(f, A).cached = f.cached
           /\ Won(f, A).clause = f.clause + 1 /\ Won(f, A).arm = 1
           /\ Lost(f, A).clause = f.clause /\ Lost(f, A).arm = f.arm + 1
           /\ Won(f, A).acc = f.acc \cup A
           /\ f.acc \subseteq Lost(f, A).acc /\ Lost(f, A).acc \subseteq f.acc \cup A
  BY DEF Won, Lost, Frame

LEMMA NormalizedType ==
    ASSUME NEW k \in Keys
    PROVE  Normalized(k) \in Keys
  BY KeyAssumption DEF Normalized

LEMMA TypeRelate ==
    ASSUME TypeOK, Relate
    PROVE  TypeOK'
  <1> USE DEF queryVars, stateVars, plannerVars, relaterVars, cacheVars, demandVars
  <1>1. CASE CallFrontier
    BY <1>1 DEF CallFrontier, Answer, TypeOK, Verdict
  <1>2. CASE CallIdentical
    BY <1>2 DEF CallIdentical, Answer, TypeOK, Verdict
  <1>3. CASE CallDemand
    <2>1. Needs[call.key] \subseteq Nodes
      BY NodeAssumption DEF TypeOK, Nodes
    <2>2. demand' \in Nodes
      BY <1>3, <2>1 DEF CallDemand, OpenNodes, TypeOK
    <2> QED
      BY <1>3, <2>2, NodeAssumption DEF CallDemand, Answer, TypeOK, Verdict
  <1>4. CASE CallInFlight
    <2>1. Normalized(call.key) \in Keys
      BY NormalizedType DEF TypeOK
    <2> QED
      BY <1>4, <2>1 DEF CallInFlight, Normal, Answer, TypeOK, Verdict
  <1>5. CASE CallContextYes
    BY <1>5 DEF CallContextYes, Normal, Answer, TypeOK, Verdict
  <1>6. CASE CallCached
    <2>1. ret' \in [verdict : Verdict, assumed : SUBSET Keys] /\ pc' = "ret"
      BY <1>6 DEF CallCached, Answer, Verdict
    <2> QED
      BY <1>6, <2>1 DEF CallCached, Normal, TypeOK
  <1>7. CASE CallPush
    <2> DEFINE k == Normalized(call.key)
               waits == OpenSurfaces(k) # {}
               f == [key |-> k, want |-> call.want, cached |-> Cached(k),
                     clause |-> IF waits THEN Len(Rule[k]) + 1 ELSE 1, arm |-> 1, acc |-> {}]
    <2>1. k \in Keys
      BY NormalizedType DEF TypeOK
    <2>2. Cached(k) \in Entry
      BY <2>1 DEF Cached, TypeOK, Entry
    <2>3. Len(Rule[k]) \in Nat
      BY <2>1, RuleAssumption
    <2>4. f \in Frame
      BY <2>1, <2>2, <2>3 DEF Frame, TypeOK
    <2>5. frames' = Append(frames, f) /\ pc' = "run"
      BY <1>7 DEF CallPush
    <2>6. frames' \in Seq(Frame) /\ frames' # <<>>
      <3> HIDE DEF f
      <3>1. frames \in Seq(Frame)
        BY DEF TypeOK
      <3> QED
        BY <2>4, <2>5, <3>1
    <2>7. OpenSurfaces(k) \subseteq Nodes
      BY <2>1, NodeAssumption DEF OpenSurfaces, Nodes
    <2>8. /\ observed' = (observed \/ waits)
          /\ batch' = IF waits /\ demand = NoNode THEN batch \cup OpenSurfaces(k) ELSE batch
          /\ UNCHANGED demand
      BY <1>7 DEF CallPush
    <2>9. observed' \in BOOLEAN /\ batch' \subseteq Nodes /\ (observed' /\ batch' = {} => demand' # NoNode)
      BY <2>7, <2>8 DEF TypeOK
    <2> QED
      BY <1>7, <2>5, <2>6, <2>9 DEF CallPush, Normal, TypeOK
  <1>8. CASE Descend
    <2>1. Top \in Frame /\ Running(Top)
      BY <1>8, TopTypes DEF Descend, TypeOK
    <2>2. ArmOf(Top).key \in Keys /\ ArmOf(Top).quiet \in BOOLEAN /\ Top.want \in BOOLEAN
      BY <2>1, ArmType DEF Arm, Frame
    <2>3. call' \in [key : Keys, want : BOOLEAN]
      BY <1>8, <2>2 DEF Descend
    <2> QED
      BY <1>8, <2>3 DEF Descend, TypeOK
  <1>9. CASE Deliver
    <2>1. Top \in Frame /\ Len(frames) \in Nat \ {0} /\ ret.assumed \subseteq Keys
      BY <1>9, TopTypes DEF Deliver, TypeOK
    <2>2. Won(Top, ret.assumed) \in Frame /\ Lost(Top, ret.assumed) \in Frame
      BY <2>1, StepTypes
    <2>3. frames' \in Seq(Frame) /\ Len(frames') = Len(frames)
      BY <1>9, <2>1, <2>2, ExceptSeq DEF Deliver, TypeOK
    <2>4. frames' # <<>>
      BY <2>1, <2>3, EmptySeq
    <2> QED
      BY <1>9, <2>3, <2>4 DEF Deliver, TypeOK
  <1>10. CASE Complete
    <2>1. Top \in Frame /\ frames # <<>> /\ frames \in Seq(Frame)
      BY <1>10, TopTypes DEF Complete, TypeOK
    <2>2. frames' \in Seq(Frame)
      BY <1>10, <2>1, PopProperties DEF Complete
    <2>3. Clamped(Top) \in Verdict /\ Outstanding(Top) \subseteq Keys /\ Top.key \in Keys
      BY <2>1 DEF Clamped, Verdict, Outstanding, Frame
    <2>4. pending' \in [Keys -> Entry] /\ contextYes' \subseteq Keys
      BY <1>10, <2>3 DEF Complete, TypeOK, Entry, Verdict
    <2> QED
      BY <1>10, <2>2, <2>3, <2>4 DEF Complete, Answer, TypeOK
  <1> QED
    BY <1>1, <1>2, <1>3, <1>4, <1>5, <1>6, <1>7, <1>8, <1>9, <1>10 DEF Relate

LEMMA TypeNext == TypeOK /\ [Next]_vars => TypeOK'
  <1> SUFFICES ASSUME TypeOK, [Next]_vars PROVE TypeOK'
    OBVIOUS
  <1>1. ASSUME NEW k \in Keys, Ask(k) PROVE TypeOK'
    <2>1. [root |-> k, next |-> 1] \in Query
      BY DEF Query
    <2>2. queries' \in Seq(Query) /\ queries' # <<>>
      BY <1>1, <2>1 DEF Ask
    <2> QED
      BY <1>1, <2>2 DEF Ask, TypeOK, stateVars, plannerVars, relaterVars, cacheVars, demandVars
  <1>2. CASE UNCHANGED vars
    BY <1>2 DEF vars, queryVars, stateVars, plannerVars, relaterVars, cacheVars, demandVars,
                TypeOK
  <1> QED
    BY <1>1, <1>2, TypeCoordinate, TypeRelate DEF Next

(* Every reachable state of the coordinator and of the relation engine is  *)
(* well formed.                                                            *)
THEOREM TypeCorrect == Spec => []TypeOK
  <1> QED
    BY TypeInit, TypeNext, PTL DEF Spec
-----------------------------------------------------------------------------
(* Expansions.                                                             *)

(* No action but these three touches a plan or what is kept of one.        *)
LEMMA PlanFrame ==
    ASSUME Next, ~BeginPlan, ~Finish, \A n \in Nodes : ~Expand(n)
    PROVE  UNCHANGED <<normal, plan, cycleTaint>>
  <1> USE DEF queryVars, stateVars, plannerVars, relaterVars, cacheVars, demandVars
  <1>1. CASE \E k \in Keys : Ask(k)
    BY <1>1 DEF Ask
  <1>2. CASE Coordinate
    BY <1>2 DEF Coordinate, AnswerEarly, NoEarlyAnswer, AskWitness, WitnessHolds, WitnessFails,
                StartAttempt, Retry
  <1>3. CASE Relate
    BY <1>3 DEF Relate, CallFrontier, CallIdentical, CallDemand, CallInFlight, CallContextYes,
                CallCached, CallPush, Descend, Deliver, Complete
  <1> QED
    BY <1>1, <1>2, <1>3 DEF Next

LEMMA PlanStep ==
    ASSUME TypeOK, ExpansionsClean, PlanClean, Next
    PROVE  ExpansionsClean' /\ PlanClean'
  <1> USE DEF queryVars, stateVars, plannerVars, relaterVars, cacheVars, demandVars
  <1>1. CASE BeginPlan
    BY <1>1 DEF BeginPlan, ExpansionsClean, PlanClean, TypeOK
  <1>2. ASSUME NEW n \in Nodes, Expand(n) PROVE ExpansionsClean' /\ PlanClean'
    <2>1. PICK form \in Forms(n) :
            /\ plan' = [plan EXCEPT ![n] = form]
            /\ cycleTaint' = (cycleTaint \/ (form = "cyclic" /\ plan[n] = "open" /\ normal[n] # "cyclic"))
      BY <1>2 DEF Expand
    <2>2. form = "cyclic" => plan[n] = "cyclic" \/ (plan[n] = "open" /\ n \in Cyclic)
      BY DEF Forms, ExpansionsClean, TypeOK
    <2>3. normal' = normal
      BY <1>2 DEF Expand
    <2> QED
      BY <2>1, <2>2, <2>3 DEF ExpansionsClean, PlanClean, TypeOK
  <1>3. CASE Finish
    <2>1. normal' = normal \/ CommitPlan
      BY <1>3 DEF Finish
    <2>2. plan' = plan /\ cycleTaint' = cycleTaint
      BY <1>3 DEF Finish
    <2> QED
      BY <2>1, <2>2 DEF CommitPlan, ExpansionsClean, PlanClean, TypeOK
  <1>4. CASE UNCHANGED <<normal, plan, cycleTaint>>
    BY <1>4 DEF ExpansionsClean, PlanClean
  <1> QED
    BY <1>1, <1>2, <1>3, <1>4, PlanFrame
-----------------------------------------------------------------------------
(* The stack of frames.                                                    *)

LEMMA StackTypes ==
    ASSUME TypeOK
    PROVE  /\ Len(frames) \in Nat /\ DOMAIN frames = 1..Len(frames)
           /\ frames = <<>> <=> Len(frames) = 0
           /\ \A i \in 1..Len(frames) : frames[i] \in Frame
  BY EmptySeq, LenProperties DEF TypeOK

LEMMA StackTypesNext ==
    ASSUME TypeOK, Relate
    PROVE  DOMAIN frames' = 1..Len(frames') /\ Len(frames') \in Nat
  <1>1. TypeOK'
    BY TypeRelate
  <1>2. frames' \in Seq(Frame)
    BY <1>1 DEF TypeOK
  <1> QED
    BY <1>2, LenProperties

LEMMA Pushed ==
    ASSUME TypeOK, CallPush
    PROVE  LET k == Normalized(call.key) IN
           /\ Len(frames') = Len(frames) + 1
           /\ \A i \in 1..Len(frames) : frames'[i] = frames[i]
           /\ frames'[Len(frames) + 1] =
                [key |-> k, want |-> call.want, cached |-> Cached(k),
                 clause |-> IF OpenSurfaces(k) # {} THEN Len(Rule[k]) + 1 ELSE 1,
                 arm |-> 1, acc |-> {}]
           /\ observed' = (observed \/ OpenSurfaces(k) # {})
  <1> DEFINE k == Normalized(call.key)
             f == [key |-> k, want |-> call.want, cached |-> Cached(k),
                   clause |-> IF OpenSurfaces(k) # {} THEN Len(Rule[k]) + 1 ELSE 1,
                   arm |-> 1, acc |-> {}]
  <1>1. frames' = Append(frames, f) /\ observed' = (observed \/ OpenSurfaces(k) # {})
    BY DEF CallPush
  <1>2. frames \in Seq(Frame)
    BY DEF TypeOK
  <1> HIDE DEF f
  <1>3. /\ Len(frames') = Len(frames) + 1 /\ frames'[Len(frames) + 1] = f
        /\ \A i \in 1..Len(frames) : frames'[i] = frames[i]
    BY <1>1, <1>2
  <1> QED
    BY <1>1, <1>3 DEF f

LEMMA Delivered ==
    ASSUME TypeOK, Deliver
    PROVE  /\ Len(frames') = Len(frames) /\ Len(frames) \in Nat \ {0}
           /\ \A i \in 1..Len(frames) : i # Len(frames) => frames'[i] = frames[i]
           /\ frames'[Len(frames)] = IF ret.verdict = "yes" THEN Won(Top, ret.assumed)
                                                             ELSE Lost(Top, ret.assumed)
  <1> DEFINE g == IF ret.verdict = "yes" THEN Won(Top, ret.assumed) ELSE Lost(Top, ret.assumed)
  <1>1. frames' = [frames EXCEPT ![Len(frames)] = g] /\ frames # <<>>
    BY DEF Deliver
  <1>2. frames \in Seq(Frame) /\ Len(frames) \in Nat \ {0}
    BY <1>1, TopTypes DEF TypeOK
  <1>3. DOMAIN frames = 1..Len(frames) /\ Len(frames) \in 1..Len(frames)
    BY <1>2
  <1> HIDE DEF g
  <1>4. /\ frames'[Len(frames)] = g
        /\ \A i \in 1..Len(frames) : i # Len(frames) => frames'[i] = frames[i]
    BY <1>1, <1>3
  <1>5. Len(frames') = Len(frames)
    <2>1. g \in Frame
      BY <1>1, TopTypes, StepTypes DEF g, TypeOK
    <2> QED
      BY <1>1, <1>2, <1>3, <2>1, ExceptSeq
  <1> QED
    BY <1>2, <1>4, <1>5 DEF g

LEMMA Completed ==
    ASSUME TypeOK, Complete
    PROVE  /\ Len(frames) \in Nat \ {0} /\ Len(frames') = Len(frames) - 1
           /\ \A i \in 1..(Len(frames) - 1) : frames'[i] = frames[i]
           /\ Top \in Frame /\ ~Running(Top)
           /\ ret' = [verdict |-> Clamped(Top), assumed |-> Outstanding(Top)]
  <1>1. frames \in Seq(Frame) /\ frames # <<>>
    BY DEF TypeOK, Complete
  <1> QED
    BY <1>1, PopProperties, TopTypes DEF Complete, Answer

(* The coordinator runs only while no frame is active.                     *)
LEMMA Outside ==
    ASSUME TypeOK, Next, ~Relate
    PROVE  /\ frames = <<>> /\ frames' = <<>>
           /\ pc' \notin {"run", "ret"} /\ (pc' = "call" => StartAttempt)
  <1> USE DEF queryVars, stateVars, plannerVars, relaterVars, cacheVars, demandVars
  <1>1. CASE \E k \in Keys : Ask(k)
    BY <1>1 DEF Ask, TypeOK
  <1>2. CASE Coordinate
    <2>1. CASE AnswerEarly
      BY <2>1 DEF AnswerEarly, Return, TypeOK
    <2>2. CASE NoEarlyAnswer \/ AskWitness \/ WitnessHolds \/ BeginPlan \/ Retry
      BY <2>2 DEF NoEarlyAnswer, AskWitness, WitnessHolds, BeginPlan, Retry, TypeOK
    <2>3. CASE WitnessFails
      BY <2>3 DEF WitnessFails, Return, TypeOK
    <2>4. CASE \E n \in Nodes : Expand(n)
      BY <2>4 DEF Expand, TypeOK
    <2>5. CASE StartAttempt
      BY <2>5 DEF StartAttempt, TypeOK
    <2>6. CASE Finish
      BY <2>6 DEF Finish, Return, TypeOK
    <2> QED
      BY <1>2, <2>1, <2>2, <2>3, <2>4, <2>5, <2>6 DEF Coordinate
  <1> QED
    BY <1>1, <1>2 DEF Next

(* A call answered on the spot leaves the stack as it is.                  *)
LEMMA AnsweredFrames ==
    ASSUME \/ CallFrontier \/ CallIdentical \/ CallDemand
           \/ CallInFlight \/ CallContextYes \/ CallCached
    PROVE  /\ frames' = frames /\ pc = "call" /\ pc' = "ret"
           /\ UNCHANGED <<queryVars, stateVars, plannerVars, pending, contextYes>>
  BY DEF CallFrontier, CallIdentical, CallDemand, CallInFlight, CallContextYes, CallCached,
         Normal, Answer, cacheVars

-----------------------------------------------------------------------------
(* Assumptions are about keys in flight.                                   *)

LEMMA AssumptionsStep ==
    ASSUME TypeOK, AssumptionsInFlight, Next
    PROVE  AssumptionsInFlight'
  <1>1. CASE ~Relate
    BY <1>1, Outside DEF AssumptionsInFlight
  <1>2. CASE CallFrontier \/ CallIdentical \/ CallDemand \/ CallContextYes \/ CallCached
    <2>1. ret'.assumed = {} /\ frames' = frames
      BY <1>2 DEF CallFrontier, CallIdentical, CallDemand, CallContextYes, CallCached, Answer
    <2> QED
      BY <2>1 DEF AssumptionsInFlight, InFlight
  <1>3. CASE CallInFlight
    <2>1. ret'.assumed \subseteq InFlight /\ frames' = frames
      BY <1>3 DEF CallInFlight, Answer
    <2> QED
      BY <2>1 DEF AssumptionsInFlight, InFlight
  <1>4. CASE CallPush
    <2>1. /\ Len(frames') = Len(frames) + 1 /\ frames'[Len(frames) + 1].acc = {}
          /\ \A i \in 1..Len(frames) : frames'[i] = frames[i]
          /\ DOMAIN frames = 1..Len(frames) /\ Len(frames) \in Nat
      BY <1>4, Pushed, StackTypes
    <2>2. DOMAIN frames' = 1..Len(frames')
      BY <1>4, TypeNext, StackTypes DEF Next, Relate, TypeOK
    <2>3. pc' = "run"
      BY <1>4 DEF CallPush
    <2> QED
      BY <2>1, <2>2, <2>3 DEF AssumptionsInFlight
  <1>5. CASE Descend
    BY <1>5 DEF Descend, AssumptionsInFlight
  <1>6. CASE Deliver
    <2> DEFINE n == Len(frames)
    <2>1. /\ Len(frames') = n /\ n \in Nat \ {0} /\ DOMAIN frames = 1..n
          /\ \A i \in 1..n : i # n => frames'[i] = frames[i]
          /\ frames'[n] = Won(Top, ret.assumed) \/ frames'[n] = Lost(Top, ret.assumed)
      BY <1>6, Delivered, StackTypes
    <2>2. DOMAIN frames' = 1..n
      BY <1>6, <2>1, TypeNext, StackTypes DEF Next, Relate, TypeOK
    <2>3. Top = frames[n] /\ Top \in Frame /\ ret.assumed \in SUBSET Keys
      BY <2>1, StackTypes DEF Top, TypeOK
    <2>4. frames'[n].key = frames[n].key /\ frames'[n].acc \subseteq frames[n].acc \cup ret.assumed
      BY <2>1, <2>3, WonLost
    <2>5. \A i \in 1..n : frames'[i].key = frames[i].key
      BY <2>1, <2>4
    <2>6. ret.assumed \subseteq {frames[j].key : j \in 1..n}
      BY <1>6, <2>1 DEF AssumptionsInFlight, InFlight, Deliver
    <2>7. ASSUME NEW i \in 1..n PROVE frames'[i].acc \subseteq {frames'[j].key : j \in 1..i}
      <3>1. {frames'[j].key : j \in 1..i} = {frames[j].key : j \in 1..i}
        BY <2>5, <2>1
      <3>2. frames[i].acc \subseteq {frames[j].key : j \in 1..i}
        BY <2>1 DEF AssumptionsInFlight
      <3> QED
        BY <2>1, <2>4, <2>6, <3>1, <3>2
    <2> QED
      BY <1>6, <2>2, <2>7 DEF AssumptionsInFlight, Deliver
  <1>7. CASE Complete
    <2> DEFINE n == Len(frames)
    <2>1. /\ n \in Nat \ {0} /\ Len(frames') = n - 1 /\ DOMAIN frames = 1..n
          /\ \A i \in 1..(n - 1) : frames'[i] = frames[i]
          /\ ret'.assumed = Top.acc \ {Top.key}
      BY <1>7, Completed, StackTypes DEF Outstanding
    <2>2. DOMAIN frames' = 1..(n - 1)
      BY <1>7, <2>1, TypeNext, StackTypes DEF Next, Relate, TypeOK
    <2>3. Top.acc \subseteq {frames[j].key : j \in 1..n} /\ Top = frames[n]
      BY <2>1 DEF AssumptionsInFlight, Top
    <2>4. ret'.assumed \subseteq {frames'[j].key : j \in 1..(n - 1)}
      BY <2>1, <2>3
    <2>5. ASSUME NEW i \in 1..(n - 1) PROVE frames'[i].acc \subseteq {frames'[j].key : j \in 1..i}
      <3>1. {frames'[j].key : j \in 1..i} = {frames[j].key : j \in 1..i}
        BY <2>1
      <3>2. frames[i].acc \subseteq {frames[j].key : j \in 1..i} /\ frames'[i] = frames[i]
        BY <2>1 DEF AssumptionsInFlight
      <3> QED
        BY <3>1, <3>2
    <2> QED
      BY <2>2, <2>4, <2>5 DEF AssumptionsInFlight, InFlight
  <1> QED
    BY <1>1, <1>2, <1>3, <1>4, <1>5, <1>6, <1>7 DEF Relate
-----------------------------------------------------------------------------
(* Frames below the innermost wait for it.                                 *)

LEMMA ShapeStep ==
    ASSUME TypeOK, StackShape, Next
    PROVE  StackShape'
  <1> USE DEF queryVars
  <1> DEFINE n == Len(frames)
  <1>0. TypeOK'
    BY TypeNext
  <1>1. /\ DOMAIN frames = 1..n /\ n \in Nat /\ (frames = <<>> <=> n = 0)
        /\ DOMAIN frames' = 1..Len(frames') /\ Len(frames') \in Nat
        /\ (frames' = <<>> <=> Len(frames') = 0)
    BY <1>0, StackTypes DEF TypeOK
  <1>2. CASE ~Relate
    <2>1. pc' = "call" => call'.key = Root /\ Root' = Root
      BY <1>2, Outside DEF StartAttempt, Root, Current
    <2> QED
      BY <1>1, <1>2, <2>1, Outside DEF StackShape, Callee
  <1>3. CASE \/ CallFrontier \/ CallIdentical \/ CallDemand
             \/ CallInFlight \/ CallContextYes \/ CallCached
    BY <1>1, <1>3, AnsweredFrames DEF StackShape
  <1>4. CASE CallPush
    <2>1. pc = "call" /\ pc' = "run"
      BY <1>4 DEF CallPush, Normal
    <2> QED
      BY <1>1, <1>4, <2>1, Pushed DEF StackShape, Running, Proved, Refuted
  <1>5. CASE Descend
    <2>1. pc = "run" /\ Running(Top) /\ frames' = frames /\ frames # <<>>
      BY <1>5 DEF Descend, TypeOK
    <2>2. call'.key = ArmOf(Top).key /\ Callee' = ArmOf(Top).key
      BY <1>5, <2>1 DEF Descend, Callee, Top
    <2> QED
      BY <1>1, <2>1, <2>2 DEF StackShape, Top
  <1>6. CASE Deliver
    <2>1. pc = "ret" /\ pc' = "run"
      BY <1>6 DEF Deliver
    <2>2. Len(frames') = n /\ \A i \in 1..n : i # n => frames'[i] = frames[i]
      BY <1>6, Delivered
    <2>3. \A i \in 1..n : i < n => Running(frames[i])
      BY <1>1 DEF StackShape
    <2>4. \A i \in 1..n : i < n => Running(frames'[i])
      <3>1. \A m \in Nat : \A i \in 1..m : i < m => i # m
        OBVIOUS
      <3> QED
        BY <1>1, <2>2, <2>3, <3>1
    <2> QED
      BY <1>1, <2>1, <2>2, <2>4 DEF StackShape
  <1>7. CASE Complete
    <2>1. pc = "run" /\ pc' = "ret"
      BY <1>7 DEF Complete, Answer
    <2> QED
      BY <1>1, <1>7, <2>1, Completed DEF StackShape
  <1> QED
    BY <1>2, <1>3, <1>4, <1>5, <1>6, <1>7 DEF Relate
-----------------------------------------------------------------------------
(* What a frame establishes.                                               *)

LEMMA GivenMonotone ==
    ASSUME NEW A, NEW B, A \subseteq B
    PROVE  Given(A) \subseteq Given(B)
  BY UnderMonotone DEF Given

(* A winning arm extends the part of the rule that is established.         *)
LEMMA FrameWon ==
    ASSUME NEW f \in Frame, NEW A \in SUBSET Keys,
           FrameSound(f), Running(f), ArmOf(f).key \in Given(A)
    PROVE  FrameSound(Won(f, A))
  <1> DEFINE g == Won(f, A)
  <1>1. /\ g.key = f.key /\ g.cached = f.cached /\ g.clause = f.clause + 1 /\ g.arm = 1
        /\ g.acc = f.acc \cup A
    BY WonLost
  <1>2. f.key \in Keys /\ f.clause \in Nat /\ f.acc \subseteq Keys
    BY DEF Frame
  <1>3. Given(f.acc) \subseteq Given(g.acc) /\ Given(A) \subseteq Given(g.acc)
    BY <1>1, GivenMonotone
  <1>4. ASSUME NEW c \in DOMAIN Rule[f.key], c < f.clause + 1
        PROVE  \E i \in DOMAIN Rule[f.key][c] : Rule[f.key][c][i].key \in Given(g.acc)
    <2>1. CASE c = f.clause
      <3>1. f.arm \in DOMAIN Rule[f.key][c] /\ Rule[f.key][c][f.arm].key \in Given(A)
        BY <2>1, ArmType DEF ArmOf
      <3> QED
        BY <1>3, <3>1
    <2>2. CASE c # f.clause
      <3>1. c \in Nat
        BY <1>2, RuleAssumption
      <3>2. c < f.clause
        BY <1>2, <1>4, <2>2, <3>1
      <3> QED
        BY <1>3, <3>2 DEF FrameSound
    <2> QED
      BY <2>1, <2>2
  <1>5. \A c \in DOMAIN Rule[g.key] : c < g.clause =>
          \E i \in DOMAIN Rule[g.key][c] : Rule[g.key][c][i].key \in Given(g.acc)
    BY <1>1, <1>4
  <1>6. ~Proved(g) => \A i \in DOMAIN Rule[g.key][g.clause] :
          i < g.arm => Rule[g.key][g.clause][i].key \notin Holds
    <2>1. SUFFICES ASSUME ~Proved(g), NEW i \in DOMAIN Rule[g.key][g.clause], i < g.arm PROVE FALSE
      OBVIOUS
    <2>2. Rule[g.key] \in Seq(Seq(Arm)) /\ g.clause \in Nat \ {0}
      BY <1>1, <1>2, RuleAssumption
    <2>3. g.clause \in DOMAIN Rule[g.key] /\ Rule[g.key][g.clause] \in Seq(Arm)
      BY <2>1, <2>2 DEF Proved
    <2>4. i \in Nat \ {0}
      BY <2>3
    <2> QED
      BY <1>1, <2>1, <2>4
  <1>7. g.cached = "no" => g.key \notin Holds
    BY <1>1 DEF FrameSound
  <1> QED
    BY <1>5, <1>6, <1>7 DEF FrameSound

(* A losing arm is one more that is false, whatever it assumed.            *)
LEMMA FrameLost ==
    ASSUME NEW f \in Frame, NEW A \in SUBSET Keys,
           FrameSound(f), Running(f), ArmOf(f).key \notin Holds
    PROVE  FrameSound(Lost(f, A))
  <1> DEFINE g == Lost(f, A)
  <1>1. /\ g.key = f.key /\ g.cached = f.cached /\ g.clause = f.clause /\ g.arm = f.arm + 1
        /\ f.acc \subseteq g.acc
    BY WonLost
  <1>2. Given(f.acc) \subseteq Given(g.acc)
    BY <1>1, GivenMonotone
  <1>3. \A c \in DOMAIN Rule[g.key] : c < g.clause =>
          \E i \in DOMAIN Rule[g.key][c] : Rule[g.key][c][i].key \in Given(g.acc)
    BY <1>1, <1>2 DEF FrameSound
  <1>4. ASSUME NEW i \in DOMAIN Rule[f.key][f.clause], i < f.arm + 1
        PROVE  Rule[f.key][f.clause][i].key \notin Holds
    <2>1. i \in Nat /\ f.arm \in Nat
      <3>1. Rule[f.key] \in Seq(Seq(Arm)) /\ f.clause \in DOMAIN Rule[f.key] /\ f.arm \in Nat
        BY RuleAssumption, ArmType DEF Frame
      <3>2. Rule[f.key][f.clause] \in Seq(Arm)
        BY <3>1
      <3> QED
        BY <3>1, <3>2
    <2>2. i = f.arm \/ i < f.arm
      BY <1>4, <2>1
    <2>3. CASE i = f.arm
      BY <2>3 DEF ArmOf
    <2>4. CASE i < f.arm
      BY <2>4 DEF FrameSound, Running
    <2> QED
      BY <2>2, <2>3, <2>4
  <1>5. g.cached = "no" => g.key \notin Holds
    BY <1>1 DEF FrameSound
  <1> QED
    BY <1>1, <1>3, <1>4, <1>5 DEF FrameSound

(* A frame whose rule has run to its end decides its key: a success under  *)
(* the assumptions left after its own key is discharged, a failure         *)
(* without any.                                                            *)
LEMMA FrameDecides ==
    ASSUME NEW f \in Frame, FrameSound(f), ~Running(f)
    PROVE  /\ Clamped(f) = "yes" => f.key \in Under(Outstanding(f))
           /\ Clamped(f) = "no" => f.key \notin Holds
  <1>1. f.key \in Keys /\ Rule[f.key] \in Seq(Seq(Arm)) /\ f.clause \in Nat \ {0}
        /\ f.arm \in Nat \ {0}
    BY RuleAssumption DEF Frame
  <1>2. ASSUME Proved(f) PROVE f.key \in Under(Outstanding(f))
    <2> DEFINE A == Outstanding(f)
    <2>1. f.acc \subseteq A \cup {f.key}
      BY DEF Outstanding
    <2>2. Given(f.acc) \subseteq Under(A \cup {f.key}) \cup A \cup {f.key}
      BY <2>1, GivenMonotone DEF Given
    <2>3. \A c \in DOMAIN Rule[f.key] : c < f.clause
      BY <1>1, <1>2 DEF Proved
    <2>4. Sat(f.key, Under(A \cup {f.key}) \cup A \cup {f.key})
      BY <2>2, <2>3 DEF FrameSound, Sat
    <2> QED
      BY <1>1, <2>4, Discharge
  <1>3. ASSUME Refuted(f) PROVE f.key \notin Holds
    <2>1. f.clause \in DOMAIN Rule[f.key] /\ ~Proved(f)
      BY <1>1, <1>3 DEF Refuted, Proved
    <2>2. Rule[f.key][f.clause] \in Seq(Arm)
      BY <1>1, <2>1
    <2>3. \A i \in DOMAIN Rule[f.key][f.clause] : i < f.arm
      BY <1>1, <1>3, <2>2 DEF Refuted
    <2>4. ~Sat(f.key, Holds)
      BY <2>1, <2>3 DEF FrameSound, Sat
    <2> QED
      BY <2>4, HoldsIsFixpoint
  <1>4. Proved(f) \/ Refuted(f)
    BY DEF Running
  <1>5. Clamped(f) = "no" => f.cached = "no" \/ Refuted(f)
    BY <1>4 DEF Clamped
  <1>6. Clamped(f) = "yes" => Proved(f)
    BY DEF Clamped
  <1> QED
    BY <1>2, <1>3, <1>5, <1>6 DEF FrameSound
-----------------------------------------------------------------------------
(* The search.                                                             *)

(* Durable verdicts come from a promoted attempt, and only from a clean    *)
(* one.                                                                    *)
LEMMA DurableStep ==
    ASSUME TypeOK, DurableSound, SearchSound, Next
    PROVE  DurableSound' /\ \A k \in Keys : durable[k] # "none" => durable'[k] = durable[k]
  <1> USE DEF queryVars, stateVars, plannerVars, relaterVars, cacheVars, demandVars
  <1>1. CASE durable' = durable
    BY <1>1 DEF DurableSound, Agrees
  <1>2. CASE Finish /\ durable' # durable
    <2>1. /\ pc = "ret" /\ ~exhausted /\ ~observed /\ ~cycleTaint
          /\ durable' = [k \in Keys |-> IF pending[k] # "none" THEN pending[k] ELSE durable[k]]
      BY <1>2 DEF Finish, Promote
    <2>2. Agrees(pending) /\ Agrees(durable)
      BY <2>1 DEF SearchSound, Searching, Clean, DurableSound
    <2>3. \A k \in Keys : pending[k] \in Entry /\ durable[k] \in Entry
      BY DEF TypeOK
    <2>4. \A k \in Keys : durable'[k] = IF pending[k] # "none" THEN pending[k] ELSE durable[k]
      BY <2>1
    <2> QED
      BY <2>2, <2>3, <2>4 DEF DurableSound, Agrees, Entry
  <1>3. Finish \/ durable' = durable
    <2>1. CASE \E k \in Keys : Ask(k)
      BY <2>1 DEF Ask
    <2>2. CASE Coordinate
      BY <2>2 DEF Coordinate, AnswerEarly, NoEarlyAnswer, AskWitness, WitnessHolds, WitnessFails,
                  BeginPlan, Expand, StartAttempt, Retry
    <2>3. CASE Relate
      BY <2>3 DEF Relate, CallFrontier, CallIdentical, CallDemand, CallInFlight, CallContextYes,
                  CallCached, CallPush, Descend, Deliver, Complete
    <2> QED
      BY <2>1, <2>2, <2>3 DEF Next
  <1> QED
    BY <1>1, <1>2, <1>3

(* While the attempt is clean, normalisation follows no garbled overlay    *)
(* and a cached verdict is the relation's.                                 *)
LEMMA CleanCall ==
    ASSUME TypeOK, PlanClean, DurableSound, StackShape, SearchSound, Clean, pc = "call"
    PROVE  /\ Normalized(call.key) = call.key /\ call.key = Callee /\ call.key \in Keys
           /\ Cached(call.key) = "yes" => call.key \in Holds
           /\ Cached(call.key) = "no" => call.key \notin Holds
           /\ contextYes \subseteq Holds
  <1>1. call.key \in Keys
    BY DEF TypeOK
  <1>2. Needs[call.key] \cup Apparent[call.key] \subseteq Nodes
    BY <1>1, NodeAssumption DEF Nodes
  <1>3. Normalized(call.key) = call.key
    BY <1>2 DEF Normalized, PlanClean, Clean
  <1>4. Agrees(pending) /\ Agrees(durable) /\ contextYes \subseteq Holds
    BY DEF SearchSound, Searching, DurableSound
  <1> QED
    BY <1>1, <1>3, <1>4 DEF StackShape, Cached, Agrees

LEMMA SearchCalls ==
    ASSUME TypeOK, PlanClean, DurableSound, StackShape, SearchSound,
           \/ CallFrontier \/ CallIdentical \/ CallDemand
           \/ CallInFlight \/ CallContextYes \/ CallCached
    PROVE  SearchSound'
  <1> USE DEF queryVars, stateVars, plannerVars, relaterVars, cacheVars, demandVars
  <1>1. SUFFICES ASSUME Clean' PROVE SearchSound'
    BY DEF SearchSound
  <1>2. /\ frames' = frames /\ pc = "call" /\ pc' = "ret"
        /\ UNCHANGED <<queries, cycleTaint, pending, contextYes>>
    BY AnsweredFrames
  <1>3. Clean
    BY <1>1 DEF Clean, CallFrontier, CallIdentical, CallDemand, CallInFlight, CallContextYes,
                CallCached
  <1>4. Callee' = Callee
    BY <1>2 DEF Callee, Root, Current, Top
  <1>5. /\ Normalized(call.key) = call.key /\ call.key = Callee /\ call.key \in Keys
        /\ Cached(call.key) = "yes" => call.key \in Holds
        /\ Cached(call.key) = "no" => call.key \notin Holds
        /\ contextYes \subseteq Holds
    BY <1>2, <1>3, CleanCall
  <1>6. AnswerSound'
    <2>1. CASE CallFrontier \/ CallDemand
      BY <1>1, <2>1 DEF CallFrontier, CallDemand, Clean
    <2>2. CASE CallIdentical
      BY <1>4, <1>5, <2>2, IdenticalHolds DEF CallIdentical, Answer, AnswerSound, Given
    <2>3. CASE CallInFlight
      BY <1>4, <1>5, <2>3 DEF CallInFlight, Answer, AnswerSound, Given
    <2>4. CASE CallContextYes
      BY <1>4, <1>5, <2>4 DEF CallContextYes, Answer, AnswerSound, Given, Holds
    <2>5. CASE CallCached
      BY <1>4, <1>5, <2>5 DEF CallCached, Answer, AnswerSound, Given, Holds
    <2> QED
      BY <2>1, <2>2, <2>3, <2>4, <2>5
  <1>7. Agrees(pending) /\ StackLinked /\ \A i \in DOMAIN frames : FrameSound(frames[i])
    BY <1>2, <1>3 DEF SearchSound, Searching
  <1>8. StackLinked'
    BY <1>2, <1>7 DEF StackLinked, Root, Current
  <1> QED
    BY <1>2, <1>5, <1>6, <1>7, <1>8 DEF SearchSound, Agrees

LEMMA SearchPush ==
    ASSUME TypeOK, PlanClean, DurableSound, StackShape, SearchSound, CallPush
    PROVE  SearchSound'
  <1> USE DEF queryVars, stateVars, plannerVars, relaterVars, cacheVars, demandVars
  <1> DEFINE n == Len(frames)
             f == frames'[n + 1]
  <1>1. SUFFICES ASSUME Clean' PROVE SearchSound'
    BY DEF SearchSound
  <1>2. /\ pc = "call" /\ pc' = "run"
        /\ UNCHANGED <<queries, cycleTaint, exhausted, pending, contextYes>>
    BY DEF CallPush, Normal
  <1>3. Clean /\ OpenSurfaces(Normalized(call.key)) = {}
    BY <1>1, <1>2, Pushed DEF Clean
  <1>4. /\ Normalized(call.key) = call.key /\ call.key = Callee /\ call.key \in Keys
        /\ Cached(call.key) = "no" => call.key \notin Holds
        /\ contextYes \subseteq Holds
    BY <1>2, <1>3, CleanCall
  <1>5. /\ n \in Nat /\ DOMAIN frames = 1..n /\ (frames = <<>> <=> n = 0)
        /\ Len(frames') = n + 1 /\ \A i \in 1..n : frames'[i] = frames[i]
    BY Pushed, StackTypes
  <1>6. /\ f.key = call.key /\ f.cached = Cached(call.key) /\ f.clause = 1 /\ f.arm = 1
        /\ f.acc = {}
    BY <1>3, <1>4, Pushed
  <1>7. DOMAIN frames' = 1..(n + 1)
    BY <1>5, TypeNext, StackTypes DEF TypeOK, Next, Relate
  <1>8. Agrees(pending) /\ StackLinked /\ \A i \in DOMAIN frames : FrameSound(frames[i])
    BY <1>2, <1>3 DEF SearchSound, Searching
  <1>9. FrameSound(f)
    <2>1. Rule[f.key] \in Seq(Seq(Arm))
      BY <1>4, <1>6, RuleAssumption
    <2>2. \A c \in DOMAIN Rule[f.key] : ~(c < f.clause)
      BY <1>6, <2>1
    <2>3. ASSUME ~Proved(f) PROVE \A i \in DOMAIN Rule[f.key][f.clause] : ~(i < f.arm)
      <3>1. f.clause \in DOMAIN Rule[f.key]
        BY <1>6, <2>1, <2>3 DEF Proved
      <3>2. Rule[f.key][f.clause] \in Seq(Arm)
        BY <2>1, <3>1
      <3> QED
        BY <1>6, <3>2
    <2> HIDE DEF f
    <2> QED
      BY <1>4, <1>6, <2>2, <2>3 DEF FrameSound
  <1>10. StackLinked'
    <2>1. Root' = Root
      BY <1>2 DEF Root, Current
    <2>2. frames'[1].key = Root
      <3>1. CASE frames = <<>>
        BY <1>4, <1>5, <1>6, <3>1 DEF Callee
      <3>2. CASE frames # <<>>
        BY <1>5, <1>8, <3>2 DEF StackLinked
      <3> QED
        BY <3>1, <3>2
    <2>3. ASSUME NEW i \in 1..n PROVE frames'[i + 1].key = ArmOf(frames'[i]).key
      <3>1. CASE i = n
        <4>1. frames # <<>> /\ Callee = ArmOf(frames[n]).key
          BY <1>5, <3>1 DEF Callee, Top
        <4> QED
          BY <1>4, <1>5, <1>6, <3>1, <4>1
      <3>2. CASE i # n
        <4>1. i < n /\ i + 1 \in 1..n
          BY <1>5, <3>2, Positions
        <4>2. frames[i + 1].key = ArmOf(frames[i]).key
          BY <1>5, <1>8, <4>1 DEF StackLinked
        <4> QED
          BY <1>5, <4>1, <4>2
      <3> QED
        BY <3>1, <3>2
    <2>4. \A i \in 1..(n + 1) : i < n + 1 => i \in 1..n
      BY <1>5
    <2> QED
      BY <1>5, <1>7, <2>1, <2>2, <2>3, <2>4 DEF StackLinked
  <1>11. \A i \in DOMAIN frames' : FrameSound(frames'[i])
    <2>1. \A i \in 1..(n + 1) : i \in 1..n \/ i = n + 1
      BY <1>5
    <2> QED
      BY <1>5, <1>7, <1>8, <1>9, <2>1
  <1> QED
    BY <1>2, <1>4, <1>8, <1>10, <1>11 DEF SearchSound, Agrees

LEMMA SearchDeliver ==
    ASSUME TypeOK, StackShape, SearchSound, Deliver
    PROVE  SearchSound'
  <1> USE DEF queryVars, stateVars, plannerVars, relaterVars, cacheVars, demandVars
  <1> DEFINE n == Len(frames)
             f == frames'[n]
  <1>1. SUFFICES ASSUME Clean' PROVE SearchSound'
    BY DEF SearchSound
  <1>2. /\ pc = "ret" /\ pc' = "run" /\ frames # <<>>
        /\ UNCHANGED <<queries, pending, contextYes>> /\ Clean
    BY <1>1 DEF Deliver, Clean
  <1>3. /\ n \in Nat \ {0} /\ DOMAIN frames = 1..n /\ Len(frames') = n
        /\ \A i \in 1..n : i # n => frames'[i] = frames[i]
        /\ f = IF ret.verdict = "yes" THEN Won(Top, ret.assumed) ELSE Lost(Top, ret.assumed)
    BY Delivered, StackTypes
  <1>4. DOMAIN frames' = 1..n /\ 1 \in 1..n /\ n \in 1..n
    <2>1. Len(frames') = n /\ n \in Nat \ {0}
      BY <1>3
    <2>2. DOMAIN frames' = 1..n
      BY <2>1, StackTypesNext DEF Relate
    <2> QED
      BY <2>1, <2>2, Positions
  <1>5. /\ Top = frames[n] /\ Top \in Frame /\ Running(Top)
        /\ ret.assumed \in SUBSET Keys /\ ret.verdict \in {"yes", "no"}
    <2>1. Top = frames[n] /\ n \in DOMAIN frames
      BY <1>3, <1>4 DEF Top
    <2>2. Top \in Frame
      BY <1>2, TopTypes
    <2>3. Running(Top)
      BY <1>2, <2>1 DEF StackShape
    <2>4. ret.assumed \in SUBSET Keys /\ ret.verdict \in {"yes", "no"}
      BY DEF TypeOK, Verdict
    <2> QED
      BY <2>1, <2>2, <2>3, <2>4
  <1>6. /\ Agrees(pending) /\ contextYes \subseteq Holds /\ StackLinked /\ AnswerSound
        /\ \A i \in DOMAIN frames : FrameSound(frames[i])
    BY <1>2 DEF SearchSound, Searching
  <1>7. Callee = ArmOf(Top).key
    BY <1>2 DEF Callee
  <1>8. FrameSound(f) /\ f.key = Top.key
    <2>1. FrameSound(Top)
      BY <1>3, <1>4, <1>5, <1>6
    <2>2. CASE ret.verdict = "yes"
      <3>1. f = Won(Top, ret.assumed) /\ ArmOf(Top).key \in Given(ret.assumed)
        BY <1>3, <1>6, <1>7, <2>2 DEF AnswerSound
      <3> QED
        BY <1>5, <2>1, <3>1, FrameWon, WonLost
    <2>3. CASE ret.verdict = "no"
      <3>1. f = Lost(Top, ret.assumed) /\ ArmOf(Top).key \notin Holds
        BY <1>3, <1>6, <1>7, <2>3 DEF AnswerSound
      <3> QED
        BY <1>5, <2>1, <3>1, FrameLost, WonLost
    <2> QED
      BY <1>5, <2>2, <2>3
  <1> HIDE DEF f
  <1>9. \A i \in 1..n : frames'[i].key = frames[i].key /\ FrameSound(frames'[i])
    BY <1>3, <1>5, <1>6, <1>8 DEF f
  <1>10. StackLinked'
    <2>1. Root' = Root
      BY <1>2 DEF Root, Current
    <2>2. frames'[1].key = Root
      BY <1>2, <1>4, <1>6, <1>9 DEF StackLinked
    <2>3. ASSUME NEW i \in 1..n, i < n PROVE frames'[i + 1].key = ArmOf(frames'[i]).key
      <3>2. i # n /\ i + 1 \in 1..n
        BY <1>3, <2>3, Positions
      <3>3. frames[i + 1].key = ArmOf(frames[i]).key
        BY <1>3, <1>6, <2>3 DEF StackLinked
      <3> QED
        BY <1>3, <1>9, <3>2, <3>3
    <2> QED
      BY <1>3, <1>4, <2>1, <2>2, <2>3 DEF StackLinked
  <1> QED
    BY <1>2, <1>4, <1>6, <1>9, <1>10 DEF SearchSound, Agrees

LEMMA SearchComplete ==
    ASSUME TypeOK, StackShape, SearchSound, Complete
    PROVE  SearchSound'
  <1> USE DEF queryVars, stateVars, plannerVars, relaterVars, cacheVars, demandVars
  <1> DEFINE n == Len(frames)
  <1>1. SUFFICES ASSUME Clean' PROVE SearchSound'
    BY DEF SearchSound
  <1>2. pc = "run" /\ pc' = "ret" /\ queries' = queries /\ Clean
    BY <1>1 DEF Complete, Answer, Clean
  <1>3. /\ n \in Nat \ {0} /\ DOMAIN frames = 1..n /\ Len(frames') = n - 1
        /\ \A i \in 1..(n - 1) : frames'[i] = frames[i]
    BY Completed, StackTypes
  <1>4. /\ Top = frames[n] /\ Top \in Frame /\ ~Running(Top)
        /\ ret'.verdict = Clamped(Top) /\ ret'.assumed = Outstanding(Top)
    BY Completed DEF Top
  <1>5. /\ Agrees(pending) /\ contextYes \subseteq Holds /\ StackLinked
        /\ \A i \in DOMAIN frames : FrameSound(frames[i])
    BY <1>2 DEF SearchSound, Searching
  <1>6. 1 \in 1..n /\ n \in 1..n
    BY <1>3, Positions
  <1>7. /\ Clamped(Top) = "yes" => Top.key \in Under(Outstanding(Top))
        /\ Clamped(Top) = "no" => Top.key \notin Holds
        /\ Top.key \in Keys /\ Clamped(Top) \in {"yes", "no"}
    <2>1. FrameSound(Top)
      BY <1>3, <1>4, <1>5, <1>6
    <2> QED
      BY <1>4, <2>1, FrameDecides DEF Clamped, Frame
  <1>8. Agrees(pending')
    <2>1. CASE Commits(Top)
      <3>1. pending' = [pending EXCEPT ![Top.key] = Clamped(Top)]
        BY <2>1 DEF Complete
      <3>2. Clamped(Top) = "yes" => Top.key \in Holds
        BY <1>7, <2>1 DEF Commits, Holds
      <3> QED
        BY <1>5, <1>7, <3>1, <3>2 DEF Agrees, TypeOK
    <2>2. CASE ~Commits(Top)
      BY <1>5, <2>2 DEF Complete
    <2> QED
      BY <2>1, <2>2
  <1>9. contextYes' \subseteq Holds
    <2>1. CASE CommitsContext(Top)
      <3>1. Top.key \in Holds
        BY <1>7, <2>1 DEF CommitsContext, Holds
      <3> QED
        BY <1>5, <2>1, <3>1 DEF Complete
    <2>2. CASE ~CommitsContext(Top)
      BY <1>5, <2>2 DEF Complete
    <2> QED
      BY <2>1, <2>2
  <1>10. Callee' = Top.key
    <2>1. Root' = Root
      BY <1>2 DEF Root, Current
    <2>2. CASE n = 1
      <3>1. frames' = <<>>
        BY <1>3, <2>2, TypeRelate, StackTypes, EmptySeq DEF TypeOK, Relate
      <3>2. Top.key = Root
        BY <1>3, <1>4, <1>5, <2>2 DEF StackLinked
      <3> QED
        BY <2>1, <3>1, <3>2 DEF Callee
    <2>3. CASE n # 1
      <3>1. /\ n - 1 \in 1..n /\ n - 1 < n /\ n - 1 \in 1..(n - 1) /\ n - 1 # 0
            /\ (n - 1) + 1 = n
        <4>1. \A m \in Nat \ {0} : m # 1 =>
                /\ m - 1 \in 1..m /\ m - 1 < m /\ m - 1 \in 1..(m - 1) /\ m - 1 # 0
                /\ (m - 1) + 1 = m
          OBVIOUS
        <4> QED
          BY <1>3, <2>3, <4>1
      <3>2. Top.key = ArmOf(frames[n - 1]).key
        BY <1>3, <1>4, <1>5, <3>1 DEF StackLinked
      <3>3. frames' # <<>>
        BY <1>3, <3>1, EmptySeq
      <3>4. Top' = frames[n - 1]
        BY <1>3, <3>1 DEF Top
      <3> QED
        BY <3>2, <3>3, <3>4 DEF Callee
    <2> QED
      BY <2>2, <2>3
  <1>11. AnswerSound'
    BY <1>4, <1>7, <1>10 DEF AnswerSound, Given
  <1>12. DOMAIN frames' = 1..(n - 1)
    <2>1. Len(frames') = n - 1
      BY <1>3
    <2> QED
      BY <2>1, StackTypesNext DEF Relate
  <1>13. StackLinked' /\ \A i \in DOMAIN frames' : FrameSound(frames'[i])
    <2>1. Root' = Root
      BY <1>2 DEF Root, Current
    <2>2. \A i \in 1..(n - 1) : i \in 1..n /\ i < n /\ (i < n - 1 => i + 1 \in 1..(n - 1))
      BY <1>3
    <2>3. frames' # <<>> => frames'[1].key = Root
      <3>1. SUFFICES ASSUME frames' # <<>> PROVE frames'[1].key = Root
        OBVIOUS
      <3>2. n - 1 # 0
        BY <1>3, <3>1, TypeRelate, EmptySeq DEF TypeOK, Relate
      <3>3. 1 \in 1..(n - 1) /\ frames # <<>>
        BY <1>3, <3>2, EmptySeq
      <3> QED
        BY <1>3, <1>5, <3>3 DEF StackLinked
    <2>4. ASSUME NEW i \in 1..(n - 1), i < n - 1
          PROVE  frames'[i + 1].key = ArmOf(frames'[i]).key
      BY <1>3, <1>5, <2>2, <2>4 DEF StackLinked
    <2>5. \A i \in 1..(n - 1) : FrameSound(frames'[i])
      BY <1>3, <1>5, <2>2
    <2> QED
      BY <1>3, <1>12, <2>1, <2>3, <2>4, <2>5 DEF StackLinked
  <1> QED
    BY <1>2, <1>8, <1>9, <1>11, <1>13 DEF SearchSound, Agrees

LEMMA SearchStep ==
    ASSUME TypeOK, PlanClean, DurableSound, StackShape, SearchSound, Next
    PROVE  SearchSound'
  <1>1. CASE ~Relate
    <2>1. CASE StartAttempt
      <3>1. /\ pc' = "call" /\ pending' = Empty /\ contextYes' = {}
            /\ frames' = <<>>
        BY <1>1, <2>1, Outside DEF StartAttempt
      <3> QED
        BY <3>1 DEF SearchSound, Agrees, Empty, StackLinked
    <2>2. CASE ~StartAttempt
      BY <1>1, <2>2, Outside DEF SearchSound, Searching
    <2> QED
      BY <2>1, <2>2
  <1>2. CASE Descend
    <2>1. /\ UNCHANGED <<frames, queries, pending, contextYes, cycleTaint, observed, exhausted>>
          /\ pc = "run" /\ pc' = "call"
      BY <1>2 DEF Descend, queryVars, stateVars, plannerVars, cacheVars, demandVars
    <2> QED
      BY <2>1 DEF SearchSound, Searching, Clean, StackLinked, Root, Current, Agrees
  <1> QED
    BY <1>1, <1>2, SearchCalls, SearchPush, SearchDeliver, SearchComplete DEF Relate
-----------------------------------------------------------------------------
(* The theorems about the durable cache.                                   *)

LEMMA EngineInit == Init => EngineInv
  <1> SUFFICES ASSUME Init PROVE EngineInv
    OBVIOUS
  <1>1. TypeOK
    BY TypeInit
  <1>2. frames = <<>> /\ pc = "idle" /\ DOMAIN frames = {}
    BY DEF Init
  <1> QED
    BY <1>1, <1>2 DEF Init, EngineInv, ExpansionsClean, PlanClean, DurableSound, Agrees, Empty,
          AssumptionsInFlight, StackShape, SearchSound, Searching

LEMMA EngineNext == EngineInv /\ [Next]_vars => EngineInv'
  <1> SUFFICES ASSUME EngineInv, [Next]_vars PROVE EngineInv'
    OBVIOUS
  <1>1. CASE Next
    BY <1>1, TypeNext, PlanStep, DurableStep, AssumptionsStep, ShapeStep, SearchStep
       DEF EngineInv
  <1>2. CASE UNCHANGED vars
    <2> USE <1>2 DEF vars, queryVars, stateVars, plannerVars, relaterVars, cacheVars, demandVars
    <2>1. TypeOK'
      BY TypeNext DEF EngineInv
    <2>2. ExpansionsClean' /\ PlanClean' /\ DurableSound'
      BY DEF EngineInv, ExpansionsClean, PlanClean, DurableSound, Agrees
    <2>3. AssumptionsInFlight'
      BY DEF EngineInv, AssumptionsInFlight, InFlight
    <2>4. Callee' = Callee /\ Root' = Root
      BY DEF Callee, Root, Current, Top
    <2>5. StackShape'
      BY <2>4 DEF EngineInv, StackShape
    <2>6. SearchSound'
      BY <2>4 DEF EngineInv, SearchSound, Searching, Clean, Agrees, StackLinked, AnswerSound
    <2> QED
      BY <2>1, <2>2, <2>3, <2>5, <2>6 DEF EngineInv
  <1> QED
    BY <1>1, <1>2

LEMMA EngineInvariant == Spec => []EngineInv
  <1> QED
    BY EngineInit, EngineNext, PTL DEF Spec

(* Whatever the rules, the plans and the order of the queries, the durable *)
(* relation cache never holds a verdict that the rules do not justify.     *)
THEOREM CacheSound == Spec => []DurableSound
  <1>1. EngineInv => DurableSound
    BY DEF EngineInv
  <1> QED
    BY <1>1, EngineInvariant, PTL

(* No assumption outlives the frame whose key it is about.                 *)
THEOREM NoEscapingAssumption == Spec => []AssumptionsInFlight
  <1>1. EngineInv => AssumptionsInFlight
    BY DEF EngineInv
  <1> QED
    BY <1>1, EngineInvariant, PTL

(* Every step of the depth-first search keeps its bargain: what a frame has *)
(* settled so far follows from the rules and the assumptions it has listed. *)
THEOREM SearchSoundAlways == Spec => []SearchSound
  <1>1. EngineInv => SearchSound
    BY DEF EngineInv
  <1> QED
    BY <1>1, EngineInvariant, PTL

(* No cycle-tainted expansion is ever kept.                                *)
THEOREM KeptExpansionsClean == Spec => []ExpansionsClean
  <1>1. EngineInv => ExpansionsClean
    BY DEF EngineInv
  <1> QED
    BY <1>1, EngineInvariant, PTL

(* Promotion never revises a durable verdict.                              *)
THEOREM CacheStable == Spec => DurableStable
  <1>1. EngineInv /\ [Next]_vars =>
          [\A k \in Keys : durable[k] # "none" => durable'[k] = durable[k]]_vars
    BY DurableStep DEF EngineInv
  <1> QED
    BY <1>1, EngineInvariant, PTL DEF Spec, DurableStable
-----------------------------------------------------------------------------
(* The answers.                                                            *)

(* The same-class shortcut remembers a failure without asking whether the  *)
(* nested query was tainted, so what follows excludes a tainted witness.   *)
NoTaintedWitness == Cyclic = {} \/ \A k \in Keys : Witness[k] = <<>>

LEMMA QueryTypes ==
    ASSUME TypeOK
    PROVE  /\ Len(queries) \in Nat /\ DOMAIN queries = 1..Len(queries)
           /\ pc # "idle" <=> Len(queries) # 0
           /\ \A i \in 1..Len(queries) : queries[i] \in Query
  BY EmptySeq, LenProperties DEF TypeOK

(* Returning hands the answer to the query that asked for it.              *)
LEMMA ReturnLinked ==
    ASSUME TypeOK, QueriesLinked, pc # "idle", NEW v, NEW tainted, Return(v, tainted)
    PROVE  QueriesLinked'
  <1> DEFINE n == Len(queries)
  <1>1. /\ n \in Nat \ {0} /\ DOMAIN queries = 1..n
        /\ Len(queries') = n - 1 /\ \A i \in 1..(n - 1) : queries'[i] = queries[i]
        /\ DOMAIN queries' = 1..(n - 1)
    <2>1. queries \in Seq(Query) /\ queries # <<>>
      BY DEF TypeOK
    <2>2. /\ queries' \in Seq(Query) /\ n \in Nat \ {0} /\ Len(queries') = n - 1
          /\ \A i \in 1..(n - 1) : queries'[i] = queries[i]
      BY <2>1, PopProperties DEF Return
    <2>3. DOMAIN queries' = 1..Len(queries')
      BY <2>2, LenProperties
    <2> QED
      BY <2>2, <2>3, QueryTypes
  <1>2. \A m \in Nat \ {0} : \A i \in 1..(m - 1) : i \in 1..m /\ i < m /\ (i < m - 1 => i + 1 \in 1..(m - 1))
    OBVIOUS
  <1>3. \A i \in 1..(n - 1) : /\ queries[i].next \in DOMAIN Witness[queries[i].root]
                             /\ queries[i + 1].root = Witness[queries[i].root][queries[i].next]
    BY <1>1, <1>2 DEF QueriesLinked
  <1>4. \A i \in 1..(n - 1) : i < n - 1 =>
          /\ queries'[i].next \in DOMAIN Witness[queries'[i].root]
          /\ queries'[i + 1].root = Witness[queries'[i].root][queries'[i].next]
    BY <1>1, <1>2, <1>3
  <1>5. ASSUME pc' = "witnessed"
        PROVE  Current'.next \in DOMAIN Witness[Root'] /\ result'.key = Witness[Root'][Current'.next]
    <2>1. n # 1
      BY <1>5 DEF Return
    <2>2. \A m \in Nat \ {0} : m # 1 => m - 1 \in 1..(m - 1) /\ (m - 1) + 1 = m
      OBVIOUS
    <2>3. n - 1 \in 1..(n - 1) /\ (n - 1) + 1 = n
      BY <1>1, <2>1, <2>2
    <2>4. Current' = queries[n - 1] /\ Root' = queries[n - 1].root
      BY <1>1, <2>3 DEF Current, Root
    <2>5. result'.key = queries[n].root
      BY DEF Return, Root, Current
    <2> QED
      BY <1>3, <2>3, <2>4, <2>5
  <1> QED
    BY <1>1, <1>4, <1>5 DEF QueriesLinked

LEMMA QueriesStep ==
    ASSUME TypeOK, QueriesLinked, Next
    PROVE  QueriesLinked'
  <1> USE DEF queryVars
  <1> DEFINE n == Len(queries)
  <1>1. n \in Nat /\ DOMAIN queries = 1..n
    BY QueryTypes
  <1>2. ASSUME NEW k \in Keys, Ask(k) PROVE QueriesLinked'
    BY <1>2 DEF Ask, QueriesLinked
  <1>3. CASE AnswerEarly \/ WitnessFails \/ Finish
    <2>1. \E v, tainted : Return(v, tainted)
      BY <1>3 DEF AnswerEarly, WitnessFails, Finish
    <2>2. pc # "idle"
      BY <1>3 DEF AnswerEarly, WitnessFails, Finish
    <2> QED
      BY <2>1, <2>2, ReturnLinked
  <1>4. CASE AskWitness
    <2> DEFINE q == [root |-> Witness[Root][Current.next], next |-> 1]
    <2>1. /\ queries' = Append(queries, q) /\ pc' = "ask" /\ pc = "witness"
          /\ Current.next \in DOMAIN Witness[Root]
      BY <1>4 DEF AskWitness
    <2>2. q.root = Witness[Root][Current.next] /\ queries \in Seq(Query)
      BY DEF TypeOK
    <2> HIDE DEF q
    <2>3. /\ Len(queries') = n + 1 /\ queries'[n + 1] = q
          /\ \A i \in 1..n : queries'[i] = queries[i]
          /\ DOMAIN queries' = 1..(n + 1)
      BY <2>1, <2>2, <1>1
    <2>4. ASSUME NEW i \in 1..n
          PROVE  /\ queries'[i].next \in DOMAIN Witness[queries'[i].root]
                 /\ queries'[i + 1].root = Witness[queries'[i].root][queries'[i].next]
      <3>1. CASE i = n
        BY <2>1, <2>2, <2>3, <3>1 DEF Root, Current
      <3>2. CASE i # n
        <4>1. i < n /\ i + 1 \in 1..n
          BY <1>1, <3>2, Positions
        <4> QED
          BY <1>1, <2>3, <4>1 DEF QueriesLinked
      <3> QED
        BY <3>1, <3>2
    <2>5. \A i \in 1..(n + 1) : i < n + 1 => i \in 1..n
      BY <1>1
    <2> QED
      BY <2>1, <2>3, <2>4, <2>5 DEF QueriesLinked
  <1>5. CASE WitnessHolds
    <2> DEFINE q == [root |-> Root, next |-> Current.next + 1]
    <2>1. queries' = [queries EXCEPT ![n] = q] /\ pc' = "witness" /\ pc = "witnessed"
      BY <1>5 DEF WitnessHolds
    <2>2. q.root = queries[n].root /\ n \in 1..n /\ n \in Nat \ {0}
      BY <1>1, <2>1, QueryTypes, Positions DEF Root, Current
    <2>3. q \in Query
      BY <2>1, TopTypes DEF Query
    <2> HIDE DEF q
    <2>4. queries' \in Seq(Query) /\ Len(queries') = n
      BY <2>1, <2>2, <2>3, ExceptSeq DEF TypeOK
    <2>5. /\ DOMAIN queries' = 1..n /\ queries'[n] = q
          /\ \A i \in 1..n : i # n => queries'[i] = queries[i]
      BY <1>1, <2>1, <2>2
    <2>6. \A i \in 1..n : queries'[i].root = queries[i].root
      BY <2>2, <2>5
    <2>7. ASSUME NEW i \in 1..n, i < n
          PROVE  /\ queries'[i].next \in DOMAIN Witness[queries'[i].root]
                 /\ queries'[i + 1].root = Witness[queries'[i].root][queries'[i].next]
      <3>1. i # n /\ i + 1 \in 1..n
        BY <2>2, <2>7, Positions
      <3> QED
        BY <1>1, <2>5, <2>6, <2>7, <3>1 DEF QueriesLinked
    <2> QED
      BY <2>1, <2>4, <2>5, <2>7 DEF QueriesLinked
  <1>6. CASE queries' = queries /\ pc' # "witnessed"
    BY <1>6 DEF QueriesLinked
  <1>7. \/ \E k \in Keys : Ask(k)
        \/ AnswerEarly \/ WitnessFails \/ Finish \/ AskWitness \/ WitnessHolds
        \/ queries' = queries /\ pc' # "witnessed"
    <2>1. CASE Coordinate
      BY <2>1 DEF Coordinate, NoEarlyAnswer, BeginPlan, Expand, StartAttempt, Retry
    <2>2. CASE Relate
      BY <2>2 DEF Relate, CallFrontier, CallIdentical, CallDemand, CallInFlight, CallContextYes,
                  CallCached, CallPush, Descend, Deliver, Complete, Answer
    <2> QED
      BY <2>1, <2>2 DEF Next
  <1> QED
    BY <1>2, <1>3, <1>4, <1>5, <1>6, <1>7

(* The verdict v is the relation's for key k.                              *)
Right(v, k) == (v = "yes" => k \in Holds) /\ (v = "no" => k \notin Holds)

AnswerInv == EngineInv /\ QueriesLinked /\ MemoSound /\ ResultReliable

LEMMA RememberSound ==
    ASSUME TypeOK, MemoSound, NEW k \in Keys, NEW v, Right(v, k), Remember(k, v)
    PROVE  MemoSound'
  <1>1. memo' = memo \/ (memo' = [memo EXCEPT ![k] = v])
    BY DEF Remember
  <1>2. memo \in [Keys -> Entry]
    BY DEF TypeOK
  <1> QED
    BY <1>1, <1>2 DEF MemoSound, Agrees, Right

LEMMA ReturnReliable ==
    ASSUME NEW v, NEW tainted, Return(v, tainted), Cyclic = {} \/ ~tainted => Right(v, Root)
    PROVE  ResultReliable'
  <1>1. result'.key = Root /\ result'.verdict = v /\ result'.tainted = tainted
    BY DEF Return
  <1> QED
    BY <1>1 DEF ResultReliable, Right

(* An attempt that ends without exhaustion, demand or cycle taint has      *)
(* decided the query's root.                                               *)
LEMMA AttemptDecides ==
    ASSUME EngineInv, pc = "ret", frames = <<>>, ~exhausted, ~observed, ~cycleTaint
    PROVE  Right(ret.verdict, Root)
  <1>1. AnswerSound
    BY DEF EngineInv, SearchSound, Searching, Clean
  <1>2. ret.assumed = {}
    BY DEF EngineInv, AssumptionsInFlight, InFlight
  <1>3. Given({}) = Holds
    BY DEF Given, Holds
  <1> QED
    BY <1>1, <1>2, <1>3 DEF AnswerSound, Callee, Right

LEMMA AnswerStep ==
    ASSUME NoTaintedWitness, AnswerInv, Next
    PROVE  MemoSound' /\ ResultReliable'
  <1> USE DEF queryVars, stateVars, plannerVars, relaterVars, cacheVars, demandVars
  <1>0. TypeOK /\ QueriesLinked /\ MemoSound /\ ResultReliable /\ PlanClean
    BY DEF AnswerInv, EngineInv
  <1>1. CASE AnswerEarly
    <2>1. pc = "ask" /\ Root \in Keys /\ memo' = memo
      BY <1>0, <1>1, TopTypes DEF AnswerEarly
    <2>2. ResultReliable'
      <3>1. CASE Return("exhausted", FALSE)
        <4>1. Right("exhausted", Root)
          BY DEF Right
        <4> QED
          BY <3>1, <4>1, ReturnReliable
      <3>2. CASE Return(memo[Root], FALSE)
        <4>1. Right(memo[Root], Root)
          BY <1>0, <2>1 DEF Right, MemoSound, Agrees
        <4> QED
          BY <3>2, <4>1, ReturnReliable
      <3>3. CASE Root \in Identical /\ Return("yes", FALSE)
        <4>1. Right("yes", Root)
          BY <3>3, IdenticalHolds DEF Right, Holds
        <4> QED
          BY <3>3, <4>1, ReturnReliable
      <3> QED
        BY <1>1, <3>1, <3>2, <3>3 DEF AnswerEarly
    <2> QED
      BY <1>0, <2>1, <2>2 DEF MemoSound, Agrees
  <1>2. CASE WitnessFails
    <2>1. /\ pc = "witnessed" /\ result.verdict # "yes" /\ Root \in Keys
          /\ Remember(Root, result.verdict) /\ Return(result.verdict, result.tainted)
      BY <1>0, <1>2, TopTypes DEF WitnessFails
    <2>2. Current.next \in DOMAIN Witness[Root] /\ result.key = Witness[Root][Current.next]
      BY <1>0, <2>1 DEF QueriesLinked
    <2>3. Cyclic = {}
      BY <2>1, <2>2 DEF NoTaintedWitness
    <2>4. result.verdict = "no" => Root \notin Holds
      BY <1>0, <2>1, <2>2, <2>3, WitnessAssumption DEF ResultReliable
    <2>5. Right(result.verdict, Root)
      BY <2>1, <2>4 DEF Right
    <2> QED
      BY <1>0, <2>1, <2>5, RememberSound, ReturnReliable
  <1>3. CASE Finish
    <2> DEFINE outcome == IF exhausted \/ (ret.verdict = "yes" /\ planTaint)
                          THEN "exhausted" ELSE ret.verdict
               commit == ~planTaint /\ outcome # "exhausted"
    <2>1. /\ pc = "ret" /\ frames = <<>> /\ (exhausted \/ ~observed)
          /\ Return(outcome, planTaint \/ cycleTaint)
      BY <1>3 DEF Finish
    <2>2. Root \in Keys
      BY <1>0, <2>1, TopTypes
    <2>3. ~cycleTaint => Right(outcome, Root)
      <3>1. CASE exhausted
        BY <3>1 DEF Right
      <3>2. CASE ~exhausted /\ ~cycleTaint
        <4>1. Right(ret.verdict, Root)
          BY <2>1, <3>2, AttemptDecides DEF AnswerInv
        <4> QED
          BY <4>1 DEF Right
      <3> QED
        BY <3>1, <3>2
    <2>4. Cyclic = {} \/ ~(planTaint \/ cycleTaint) => ~cycleTaint
      BY <1>0 DEF PlanClean
    <2>5. MemoSound'
      <3>1. CASE commit /\ ~cycleTaint
        <4>1. Remember(Root, outcome)
          BY <1>3, <3>1 DEF Finish
        <4> QED
          BY <1>0, <2>2, <2>3, <3>1, <4>1, RememberSound
      <3>2. CASE ~(commit /\ ~cycleTaint)
        <4>1. memo' = memo
          BY <1>3, <3>2 DEF Finish
        <4> QED
          BY <1>0, <4>1 DEF MemoSound, Agrees
      <3> QED
        BY <3>1, <3>2
    <2> HIDE DEF outcome
    <2>6. ResultReliable'
      BY <2>1, <2>3, <2>4, ReturnReliable
    <2> QED
      BY <2>5, <2>6
  <1>4. CASE memo' = memo /\ result' = result
    BY <1>0, <1>4 DEF MemoSound, Agrees, ResultReliable
  <1>5. AnswerEarly \/ WitnessFails \/ Finish \/ (memo' = memo /\ result' = result)
    <2>1. CASE \E k \in Keys : Ask(k)
      BY <2>1 DEF Ask
    <2>2. CASE Coordinate
      BY <2>2 DEF Coordinate, NoEarlyAnswer, AskWitness, WitnessHolds, BeginPlan, Expand,
                  StartAttempt, Retry
    <2>3. CASE Relate
      BY <2>3 DEF Relate, CallFrontier, CallIdentical, CallDemand, CallInFlight, CallContextYes,
                  CallCached, CallPush, Descend, Deliver, Complete
    <2> QED
      BY <2>1, <2>2, <2>3 DEF Next
  <1> QED
    BY <1>1, <1>2, <1>3, <1>4, <1>5

LEMMA AnswerInvariant ==
    ASSUME NoTaintedWitness
    PROVE  Spec => []AnswerInv
  <1>1. Init => AnswerInv
    <2> SUFFICES ASSUME Init PROVE AnswerInv
      OBVIOUS
    <2>1. EngineInv
      BY EngineInit
    <2>2. QueriesLinked /\ MemoSound /\ ResultReliable
      BY DEF Init, QueriesLinked, MemoSound, Agrees, Empty, ResultReliable
    <2> QED
      BY <2>1, <2>2 DEF AnswerInv
  <1>2. AnswerInv /\ [Next]_vars => AnswerInv'
    <2> SUFFICES ASSUME AnswerInv, [Next]_vars PROVE AnswerInv'
      OBVIOUS
    <2>1. EngineInv'
      BY EngineNext DEF AnswerInv
    <2>2. CASE Next
      BY <2>1, <2>2, QueriesStep, AnswerStep DEF AnswerInv, EngineInv
    <2>3. CASE UNCHANGED vars
      BY <2>1, <2>3 DEF vars, queryVars, stateVars, AnswerInv, QueriesLinked, Current, Root,
                        MemoSound, Agrees, ResultReliable
    <2> QED
      BY <2>2, <2>3
  <1> QED
    BY <1>1, <1>2, PTL DEF Spec

(* Unless a same-class witness can be cycle-tainted, every verdict the     *)
(* coordinator returns without taint is the fixpoint's.                    *)
THEOREM AnswersCorrect ==
    ASSUME NoTaintedWitness
    PROVE  Spec => []AnswerIsFixpoint
  <1>1. AnswerInv => AnswerIsFixpoint
    BY DEF AnswerInv, ResultReliable, AnswerIsFixpoint
  <1> QED
    BY <1>1, AnswerInvariant, PTL

(* Under the same condition the completed-relation memo is sound.          *)
THEOREM MemoCorrect ==
    ASSUME NoTaintedWitness
    PROVE  Spec => []MemoSound
  <1>1. AnswerInv => MemoSound
    BY DEF AnswerInv
  <1> QED
    BY <1>1, AnswerInvariant, PTL
=============================================================================
