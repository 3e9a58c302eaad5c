------------------------ MODULE ClassPublicationProofs ------------------------
(***************************************************************************)
(* What class publication guarantees for any number of classes, however    *)
(* they extend and mention each other: bases are complete before they are  *)
(* composed, and poison is accounted for.  Both rest on components being a *)
(* partition that is worked off one whole component at a time.             *)
(***************************************************************************)
EXTENDS ClassPublication, FiniteSetTheorems, WellFoundedInduction, TLAPS

Types == TypeOK /\ program \in Program

Partition ==
    phase # "drafted" =>
        \A c \in Drafts : c \in scc[c] /\ \A d \in scc[c] : scc[d] = scc[c]

Unstarted ==
    phase = "drafted" =>
        current = {} /\ obligations = {} /\ \A c \in Drafts : state[c] = "pending"

(* The component being published is one, and the others are untouched or   *)
(* finished as a whole.                                                    *)
Whole ==
    /\ \A c \in current : scc[c] = current
    /\ phase # "drafted" => \A c \in Pending \ current : scc[c] \subseteq Pending

(* A clean component has complete bases.                                   *)
CleanBases ==
    fate = "clean" => \A c \in current : \A b \in Heritage(c) \ current : Available(b)

Structure == Types /\ Partition /\ Unstarted /\ Whole

(* Something recorded speaks of class c.                                   *)
Owes(c) ==
    \E o \in obligations : IF o.kind = "origin" THEN o.class = c ELSE o.class \in scc[c]

Accounted ==
    /\ \A c \in Drafts \ Pending : state[c] \in Origins <=> Owes(c)
    /\ \A c \in Pending \ current : phase # "drafted" => ~Owes(c)
    /\ \A c \in Pending \cap current : Owes(c) <=> fate # "clean"
    /\ phase = "done" => current = {}

-----------------------------------------------------------------------------

(* Components are equivalence classes of mutual reachability.              *)
LEMMA ComponentPartition ==
    ASSUME NEW edges, NEW c \in Drafts
    PROVE  /\ c \in Component(edges, c)
           /\ Component(edges, c) \subseteq Drafts
           /\ \A d \in Component(edges, c) : Component(edges, d) = Component(edges, c)
<1>1. \A a \in Drafts : a \in Reach(edges, a)
  BY DEF Reach
<1>2. \A a \in Drafts : \A b \in Reach(edges, a) : Reach(edges, b) \subseteq Reach(edges, a)
  BY DEF Reach
<1>3. c \in Component(edges, c) /\ Component(edges, c) \subseteq Drafts
  BY <1>1 DEF Component, Reach
<1>4. ASSUME NEW d \in Component(edges, c)
      PROVE  Component(edges, d) = Component(edges, c)
  <2>1. d \in Drafts /\ d \in Reach(edges, c) /\ c \in Reach(edges, d)
    BY <1>3 DEF Component
  <2>2. Reach(edges, d) = Reach(edges, c)
    BY <1>2, <2>1
  <2>3. \A e \in Reach(edges, c) : e \in Drafts
    BY DEF Reach
  <2>4. \A e \in Reach(edges, c) : c \in Reach(edges, e) <=> d \in Reach(edges, e)
    BY <1>2, <2>1, <2>3
  <2> QED
    BY <2>2, <2>4 DEF Component
<1> QED
  BY <1>3, <1>4

LEMMA StructureInit == Init => Structure
BY ProgramAssumption DEF Init, Structure, Types, TypeOK, Partition, Unstarted, Whole, Pending, Origins

LEMMA BuildGraphStructure ==
    ASSUME Structure, BuildGraph PROVE Structure'
<1>1. Types'
  <2>1. \A edges : [c \in Drafts |-> Component(edges, c)] \in [Drafts -> SUBSET Drafts]
    BY ComponentPartition
  <2> QED
    BY <2>1 DEF Structure, Types, TypeOK, BuildGraph
<1>2. Partition'
  BY ComponentPartition DEF Partition, BuildGraph
<1>3. Unstarted' /\ Whole'
  <2>1. Pending' = Drafts /\ current' = {} /\ scc' \in [Drafts -> SUBSET Drafts]
    BY <1>1 DEF Structure, Unstarted, BuildGraph, Pending, Types, TypeOK
  <2> QED
    BY <2>1 DEF Unstarted, Whole, BuildGraph
<1> QED
  BY <1>1, <1>2, <1>3 DEF Structure

LEMMA OpenComponentStructure ==
    ASSUME Structure, OpenComponent PROVE Structure'
<1>1. PICK C \in ReadyComponents :
        /\ current' = C
        /\ IF CycleEdges(C) # {}
           THEN /\ fate' = "cycle"
                /\ obligations' = obligations \cup Owed("cycle", CycleEdges(C))
           ELSE /\ fate' = IF PoisonedEdges(C) # {} THEN "poisoned_base" ELSE "clean"
                /\ obligations' = obligations \cup Owed("poisoned_base", PoisonedEdges(C))
  BY DEF OpenComponent
<1>2. PICK c \in Pending : C = scc[c]
  BY <1>1 DEF ReadyComponents
<1>3. c \in Drafts /\ C \subseteq Drafts /\ \A d \in C : scc[d] = C
  BY <1>2 DEF Structure, Types, TypeOK, Partition, Pending, OpenComponent
<1>4. /\ phase = "publishing" /\ phase' = "publishing"
      /\ UNCHANGED <<program, id, scc, kin, state, instance, statics>>
      /\ current = {}
  BY DEF OpenComponent
<1>5. Types'
  <2>1. CycleEdges(C) \subseteq Drafts \X Classes /\ PoisonedEdges(C) \subseteq Drafts \X Classes
    BY <1>3 DEF CycleEdges, PoisonedEdges, Classes
  <2>2. \A edges : edges \subseteq Drafts \X Classes =>
          \A kind \in {"cycle", "poisoned_base"} :
            Owed(kind, edges) \subseteq [kind : {"cycle", "poisoned_base", "origin"},
                                         class : Drafts, base : Classes \cup {NoBase}]
    BY DEF Owed
  <2>3. obligations' \subseteq [kind : {"cycle", "poisoned_base", "origin"},
                                class : Drafts, base : Classes \cup {NoBase}]
    BY <1>1, <2>1, <2>2 DEF Structure, Types, TypeOK
  <2>4. fate' \in {"clean", "cycle", "poisoned_base"}
    BY <1>1
  <2> QED
    BY <1>1, <1>3, <1>4, <2>3, <2>4 DEF Structure, Types, TypeOK
<1>6. Partition' /\ Unstarted'
  BY <1>4 DEF Structure, Partition, Unstarted
<1>7. Whole'
  BY <1>1, <1>3, <1>4 DEF Structure, Whole, Pending
<1> QED
  BY <1>5, <1>6, <1>7 DEF Structure

(* The two ways a construction step ends without having built a class.     *)
Failed ==
    /\ \/ phase' = "unordered"
       \/ /\ phase' = "missing_base"
          /\ \E c \in current : fate = "clean" /\ \E b \in Heritage(c) \ current : ~Available(b)
    /\ UNCHANGED <<current, state, instance, statics, obligations>>

Built(c) ==
    /\ Cause(c) = "published" => \A b \in Heritage(c) \ current : Available(b)
    /\ state' = [state EXCEPT ![c] = Cause(c)]
    /\ obligations' = obligations \cup
         {[kind |-> "origin", class |-> c, base |-> NoBase] : o \in program.origins[c]}
    /\ IF Cause(c) = "published"
       THEN /\ instance' = [instance EXCEPT ![c] =
                 {c} \cup UNION {InstanceOf(b) : b \in InstanceBases(c)}]
            /\ statics' = [statics EXCEPT ![c] =
                 {c} \cup UNION {StaticsOf(b) : b \in StaticBases(c)}]
       ELSE UNCHANGED <<instance, statics>>
    /\ current' = IF current \cap Pending = {c} THEN {} ELSE current
    /\ UNCHANGED phase

LEMMA ConstructCases ==
    ASSUME ConstructClass
    PROVE  /\ phase = "publishing" /\ UNCHANGED <<program, id, scc, kin, fate>>
           /\ Failed \/ \E c \in current \cap Pending : Built(c)
<1>1. CASE Constructible = {}
  BY <1>1 DEF ConstructClass, Failed
<1>2. CASE Constructible # {}
  <2>1. PICK c \in Constructible : Construct(c)
    BY <1>2 DEF ConstructClass
  <2>2. c \in current \cap Pending
    BY DEF Constructible
  <2>3. Cause(c) = "published" => fate = "clean"
    BY DEF Cause
  <2>4. Failed \/ Built(c)
    BY <2>1, <2>2, <2>3 DEF Construct, Failed, Built
  <2> QED
    BY <2>2, <2>4 DEF ConstructClass
<1> QED
  BY <1>1, <1>2

LEMMA CauseType == \A c : Cause(c) \in {"published"} \cup Origins
BY DEF Cause, Origins

LEMMA SurfaceType ==
    ASSUME Types, NEW c \in Drafts
    PROVE  /\ {c} \cup UNION {InstanceOf(b) : b \in InstanceBases(c)} \subseteq Classes
           /\ {c} \cup UNION {StaticsOf(b) : b \in StaticBases(c)} \subseteq Classes
<1>1. InstanceBases(c) \subseteq Classes /\ StaticBases(c) \subseteq Classes
  BY DEF InstanceBases, StaticBases, Heritage, HardBase, Types, Program
<1>2. \A b \in Classes : InstanceOf(b) \subseteq Classes /\ StaticsOf(b) \subseteq Classes
  BY DEF InstanceOf, StaticsOf, Types, TypeOK
<1> QED
  BY <1>1, <1>2 DEF Classes

LEMMA ConstructClassStructure ==
    ASSUME Structure, ConstructClass PROVE Structure'
<1>1. /\ phase = "publishing" /\ UNCHANGED <<program, id, scc, kin, fate>>
      /\ Failed \/ \E c \in current \cap Pending : Built(c)
  BY ConstructCases
<1>2. CASE Failed
  BY <1>1, <1>2 DEF Failed, Structure, Types, TypeOK, Partition, Unstarted, Whole, Pending
<1>3. ASSUME NEW c \in current \cap Pending, Built(c) PROVE Structure'
  <2>1. c \in Drafts /\ c \in current /\ state[c] = "pending"
    BY DEF Pending
  <2>2. Types'
    <3>1. state' \in [Drafts -> {"pending", "published"} \cup Origins]
      BY <1>3, CauseType DEF Built, Structure, Types, TypeOK
    <3>2. instance' \in [Drafts -> SUBSET Classes] /\ statics' \in [Drafts -> SUBSET Classes]
      BY <1>3, <2>1, SurfaceType DEF Built, Structure, Types, TypeOK
    <3>3. obligations' \subseteq [kind : {"cycle", "poisoned_base", "origin"},
                                  class : Drafts, base : Classes \cup {NoBase}]
      BY <1>3, <2>1 DEF Built, Structure, Types, TypeOK
    <3>4. current' \subseteq Drafts /\ phase' = "publishing"
      BY <1>1, <1>3 DEF Built, Structure, Types, TypeOK
    <3> QED
      BY <1>1, <3>1, <3>2, <3>3, <3>4 DEF Structure, Types, TypeOK
  <2>3. Partition' /\ Unstarted'
    BY <1>1, <1>3 DEF Built, Structure, Partition, Unstarted
  <2>4. Pending' = Pending \ {c}
    BY <1>3, <2>1, CauseType DEF Built, Pending, Structure, Types, TypeOK, Origins
  <2>5. \A d \in Pending' \ current' : d \in Pending \ current
    BY <1>3, <2>4 DEF Built
  <2>6. \A d \in Pending \ current : c \notin scc[d]
    BY <1>1, <2>1 DEF Structure, Partition, Whole, Pending
  <2>7. Whole'
    BY <1>1, <1>3, <2>4, <2>5, <2>6 DEF Structure, Whole, Built
  <2> QED
    BY <2>2, <2>3, <2>7 DEF Structure
<1> QED
  BY <1>1, <1>2, <1>3

LEMMA StructureNext ==
    ASSUME Structure, [Next]_vars PROVE Structure'
<1>1. CASE Publish
  BY <1>1 DEF Publish, Structure, Types, TypeOK, Partition, Unstarted, Whole, Pending
<1>2. CASE UNCHANGED vars
  BY <1>2 DEF vars, Structure, Types, TypeOK, Partition, Unstarted, Whole, Pending
<1> QED
  BY <1>1, <1>2, BuildGraphStructure, OpenComponentStructure, ConstructClassStructure DEF Next

(* Every variable of publication keeps its type: a class that ends         *)
(* poisoned ends with one of the three causes.                             *)
THEOREM TypeOKAlways == Spec => []TypeOK
<1>1. Structure => TypeOK
  BY DEF Structure, Types
<1> QED
  BY StructureInit, StructureNext, <1>1, PTL DEF Spec

-----------------------------------------------------------------------------

(* Bases.                                                                  *)
Composed == Structure /\ CleanBases /\ BasesComplete

LEMMA ComposedInit == Init => Composed
<1>1. Init => CleanBases /\ BasesComplete
  BY DEF Init, CleanBases, BasesComplete
<1> QED
  BY <1>1, StructureInit DEF Composed

(* Opening a component: its bases outside it are final, since it was       *)
(* ready, and none is poisoned, since it is clean.                         *)
LEMMA OpenComponentComposed ==
    ASSUME Composed, OpenComponent PROVE Composed'
<1>1. Structure'
  BY OpenComponentStructure DEF Composed
<1>2. PICK C \in ReadyComponents :
        /\ current' = C
        /\ fate' = "clean" => PoisonedEdges(C) = {}
  BY DEF OpenComponent
<1>3. UNCHANGED <<program, id, phase, scc, kin, state, instance, statics>>
  BY DEF OpenComponent
<1>4. C \subseteq Drafts
  BY <1>1, <1>2 DEF Structure, Types, TypeOK
<1>5. ASSUME fate' = "clean", NEW c \in C, NEW b \in Heritage(c) \ C PROVE Available(b)
  <2>1. c \in Drafts /\ Heritage(c) \subseteq Classes
    BY <1>4 DEF Heritage, HardBase, Composed, Structure, Types, Program
  <2>2. ~Poisoned(b)
    <3>1. <<c, b>> \notin PoisonedEdges(C)
      BY <1>2, <1>5
    <3> QED
      BY <2>1, <3>1 DEF PoisonedEdges
  <2>3. CASE b \in Drafts
    <3>1. b \in Dependencies[c]
      BY <2>1, <2>3 DEF Dependencies
    <3>2. b \notin Pending
      BY <1>2, <3>1 DEF ReadyComponents
    <3> QED
      BY <2>2, <2>3, <3>2 DEF Poisoned, Available, Pending, Composed, Structure, Types, TypeOK
  <2>4. CASE b \notin Drafts
    BY <2>1, <2>2, <2>4 DEF Poisoned, Available, Classes, Inherited
  <2> QED
    BY <2>3, <2>4
<1>6. CleanBases'
  BY <1>2, <1>3, <1>5 DEF CleanBases, Heritage, HardBase, Available
<1>7. BasesComplete'
  BY <1>3 DEF Composed, BasesComplete, Heritage, HardBase, Available, InstanceOf, StaticsOf
<1> QED
  BY <1>1, <1>6, <1>7 DEF Composed

(* Building a class: what it is composed from is not touched by the step.  *)
LEMMA BuiltComposed ==
    ASSUME Composed, NEW c \in current \cap Pending, Built(c),
           phase = "publishing", UNCHANGED <<program, id, scc, kin, fate>>
    PROVE  CleanBases' /\ BasesComplete'
<1>1. /\ c \in Drafts /\ c \in current /\ state[c] = "pending" /\ scc[c] = current
      /\ state \in [Drafts -> {"pending", "published"} \cup Origins]
      /\ instance \in [Drafts -> SUBSET Classes] /\ statics \in [Drafts -> SUBSET Classes]
  BY DEF Pending, Composed, Structure, Types, TypeOK, Whole
<1>2. \A d \in Drafts \ {c} :
        state'[d] = state[d] /\ instance'[d] = instance[d] /\ statics'[d] = statics[d]
  BY <1>1 DEF Built
<1>3. \A b : b # c => Available(b)' = Available(b) /\ InstanceOf(b)' = InstanceOf(b)
                      /\ StaticsOf(b)' = StaticsOf(b)
  BY <1>2 DEF Available, InstanceOf, StaticsOf
<1>4. \A d : Heritage(d)' = Heritage(d) /\ HardBase(d)' = HardBase(d)
  BY DEF Heritage, HardBase
<1>5. CleanBases'
  <2>1. current' \subseteq current
    BY DEF Built
  <2>2. CASE current' = {}
    BY <2>2 DEF CleanBases
  <2>3. CASE current' = current
    BY <1>1, <1>3, <1>4, <2>3 DEF CleanBases, Composed
  <2> QED
    BY <2>2, <2>3 DEF Built
<1>6. ASSUME NEW d \in Drafts, state'[d] = "published"
      PROVE  /\ \A b \in Heritage(d) \ scc[d] :
                  Available(b)' /\ InstanceOf(b)' \subseteq instance'[d]
             /\ \A b \in HardBase(d) \ scc[d] : StaticsOf(b)' \subseteq statics'[d]
  <2>1. CASE d # c
    <3>1. state[d] = "published" /\ instance'[d] = instance[d] /\ statics'[d] = statics[d]
      BY <1>2, <1>6, <2>1
    <3>2. \A b : Available(b) => b # c
      BY <1>1 DEF Available
    <3>3. \A b \in Heritage(d) \ scc[d] : Available(b) /\ InstanceOf(b) \subseteq instance[d]
      BY <3>1 DEF Composed, BasesComplete
    <3>4. \A b \in HardBase(d) \ scc[d] : StaticsOf(b) \subseteq statics[d]
      BY <3>1 DEF Composed, BasesComplete
    <3>5. HardBase(d) \subseteq Heritage(d)
      BY DEF Heritage
    <3> QED
      BY <1>3, <3>1, <3>2, <3>3, <3>4, <3>5
  <2>2. CASE d = c
    <3>1. Cause(c) = "published"
      BY <1>1, <1>6, <2>2 DEF Built
    <3>2. \A b \in Heritage(c) \ current : Available(b) /\ b # c
      BY <1>1, <3>1 DEF Built
    <3>3. /\ instance'[c] = {c} \cup UNION {InstanceOf(b) : b \in InstanceBases(c)}
          /\ statics'[c] = {c} \cup UNION {StaticsOf(b) : b \in StaticBases(c)}
      BY <1>1, <3>1 DEF Built
    <3>4. HardBase(c) \subseteq Heritage(c)
      BY DEF Heritage
    <3>5. \A b \in Heritage(c) \ current : InstanceOf(b) \subseteq instance'[c]
      BY <3>2, <3>3 DEF InstanceBases
    <3>6. \A b \in HardBase(c) \ current : StaticsOf(b) \subseteq statics'[c]
      BY <3>2, <3>3, <3>4 DEF StaticBases
    <3> QED
      BY <1>1, <1>3, <2>2, <3>2, <3>4, <3>5, <3>6
  <2> QED
    BY <2>1, <2>2
<1>7. phase' # "missing_base"
  BY DEF Built
<1> QED
  BY <1>4, <1>5, <1>6, <1>7 DEF BasesComplete

LEMMA ComposedNext ==
    ASSUME Composed, [Next]_vars PROVE Composed'
<1>1. CASE BuildGraph
  <2>1. /\ UNCHANGED <<program, current, fate, state>> /\ phase' = "publishing"
        /\ \A d \in Drafts : state[d] = "pending"
    BY <1>1 DEF BuildGraph, Composed, Structure, Unstarted
  <2>2. CleanBases'
    BY <2>1 DEF Composed, CleanBases, Heritage, HardBase, Available
  <2>3. BasesComplete'
    BY <2>1 DEF BasesComplete
  <2> QED
    BY <1>1, <2>2, <2>3, BuildGraphStructure DEF Composed
<1>2. CASE OpenComponent
  BY <1>2, OpenComponentComposed
<1>3. CASE ConstructClass
  <2>1. /\ phase = "publishing" /\ UNCHANGED <<program, id, scc, kin, fate>>
        /\ Failed \/ \E c \in current \cap Pending : Built(c)
    BY <1>3, ConstructCases
  <2>2. CASE Failed
    <3>1. phase' = "unordered"
      BY <2>2 DEF Failed, Composed, CleanBases
    <3>2. CleanBases' /\ BasesComplete'
      BY <2>1, <2>2, <3>1 DEF Failed, Composed, CleanBases, BasesComplete,
                               Heritage, HardBase, Available, InstanceOf, StaticsOf
    <3> QED
      BY <1>3, <3>2, ConstructClassStructure DEF Composed
  <2>3. ASSUME NEW c \in current \cap Pending, Built(c) PROVE Composed'
    BY <1>3, <2>1, <2>3, BuiltComposed, ConstructClassStructure DEF Composed
  <2> QED
    BY <2>1, <2>2, <2>3
<1>4. CASE Publish \/ UNCHANGED vars
  <2>1. CleanBases' /\ BasesComplete'
    BY <1>4 DEF Publish, vars, Composed, CleanBases, BasesComplete,
                Heritage, HardBase, Available, InstanceOf, StaticsOf
  <2> QED
    BY <2>1, StructureNext DEF Composed
<1> QED
  BY <1>1, <1>2, <1>3, <1>4 DEF Next

(* A class composed from a base of another component finds it published    *)
(* and has all of its members; the missing-base error never happens.       *)
THEOREM BasesCompleteAlways == Spec => []BasesComplete
<1>1. Composed => BasesComplete
  BY DEF Composed
<1> QED
  BY ComposedInit, ComposedNext, <1>1, PTL DEF Spec

-----------------------------------------------------------------------------

(* Records.                                                                *)
Recorded == Structure /\ Accounted

LEMMA RecordedInit == Init => Recorded
<1>1. Init => Accounted
  BY DEF Init, Accounted, Owes, Pending, Origins
<1> QED
  BY <1>1, StructureInit DEF Recorded

(* Opening a component records something about each of its classes, or     *)
(* about none, and nothing about any other.                                *)
LEMMA OpenComponentRecorded ==
    ASSUME Recorded, OpenComponent PROVE Recorded'
<1>1. Structure'
  BY OpenComponentStructure DEF Recorded
<1>2. PICK C \in ReadyComponents :
        /\ current' = C
        /\ IF CycleEdges(C) # {}
           THEN /\ fate' = "cycle"
                /\ obligations' = obligations \cup Owed("cycle", CycleEdges(C))
           ELSE /\ fate' = IF PoisonedEdges(C) # {} THEN "poisoned_base" ELSE "clean"
                /\ obligations' = obligations \cup Owed("poisoned_base", PoisonedEdges(C))
  BY DEF OpenComponent
<1>3. /\ phase = "publishing" /\ current = {}
      /\ UNCHANGED <<program, id, phase, scc, kin, state, instance, statics>>
  BY DEF OpenComponent
<1>4. PICK c \in Pending : C = scc[c]
  BY <1>2 DEF ReadyComponents
<1>5. C \subseteq Pending /\ \A d \in Drafts : d \in C <=> scc[d] = C
  BY <1>3, <1>4 DEF Recorded, Structure, Whole, Partition, Pending
<1>6. PICK kind \in {"cycle", "poisoned_base"}, edges \in SUBSET (C \X Classes) :
        /\ obligations' = obligations \cup Owed(kind, edges)
        /\ edges # {} <=> fate' # "clean"
  <2>1. CycleEdges(C) \subseteq C \X Classes
    BY <1>5 DEF CycleEdges, Classes, Pending
  <2>2. PoisonedEdges(C) \subseteq C \X Classes
    BY DEF PoisonedEdges
  <2> QED
    BY <1>2, <2>1, <2>2
<1>7. \A o \in Owed(kind, edges) : o.kind = kind /\ o.class \in C
  BY DEF Owed
<1>8. Owed(kind, edges) # {} <=> fate' # "clean"
  BY <1>6 DEF Owed
<1>9. \A d \in C : Owes(d)' <=> fate' # "clean"
  <2>1. \A d \in C : ~Owes(d)
    BY <1>3, <1>5 DEF Recorded, Accounted
  <2>2. \A d \in C : d \in Drafts /\ scc[d] = C
    BY <1>5 DEF Pending
  <2> QED
    BY <1>3, <1>6, <1>7, <1>8, <2>1, <2>2 DEF Owes
<1>10. \A d \in Drafts \ C : Owes(d)' <=> Owes(d)
  <2>1. \A d \in Drafts \ C : \A e \in C : e \notin scc[d]
    BY <1>3, <1>5 DEF Recorded, Structure, Partition, Pending
  <2> QED
    BY <1>3, <1>6, <1>7, <2>1 DEF Owes
<1>11. Accounted'
  <2>1. Pending' = Pending /\ Pending \subseteq Drafts
    BY <1>3 DEF Pending
  <2>2. \A d \in Drafts \ Pending : (state[d] \in Origins)' <=> Owes(d)'
    BY <1>3, <1>5, <1>10 DEF Recorded, Accounted
  <2>3. \A d \in Pending \ C : ~Owes(d)'
    BY <1>3, <1>10, <2>1 DEF Recorded, Accounted
  <2> QED
    BY <1>2, <1>3, <1>9, <2>1, <2>2, <2>3 DEF Accounted
<1> QED
  BY <1>1, <1>11 DEF Recorded

(* Building a class records something about that class only, and poisons   *)
(* it exactly if something has been recorded.                              *)
LEMMA BuiltRecorded ==
    ASSUME Recorded, NEW c \in current \cap Pending, Built(c),
           phase = "publishing", UNCHANGED <<program, id, scc, kin, fate>>
    PROVE  Accounted'
<1>1. /\ c \in Drafts /\ c \in current /\ state[c] = "pending"
      /\ state \in [Drafts -> {"pending", "published"} \cup Origins]
      /\ program.origins[c] \subseteq Origins
  BY DEF Pending, Recorded, Structure, Types, TypeOK, Program
<1>2. \A d \in Drafts \ {c} : state'[d] = state[d]
  BY <1>1 DEF Built
<1>3. Pending' = Pending \ {c}
  BY <1>1, CauseType DEF Built, Pending, Origins
<1>4. \A d \in Drafts \ {c} : Owes(d)' <=> Owes(d)
  BY DEF Owes, Built
<1>5. Owes(c)' <=> Owes(c) \/ program.origins[c] # {}
  <2> DEFINE record == [kind |-> "origin", class |-> c, base |-> NoBase]
  <2>1. record.kind = "origin" /\ record.class = c
    OBVIOUS
  <2> HIDE DEF record
  <2>2. obligations' = obligations \cup {record : o \in program.origins[c]}
    BY DEF Built, record
  <2>3. program.origins[c] # {} => record \in obligations'
    BY <2>2
  <2>4. \A o \in obligations' : o \in obligations \/ program.origins[c] # {}
    BY <2>2
  <2> QED
    BY <2>1, <2>2, <2>3, <2>4 DEF Owes
<1>6. Cause(c) \in Origins <=> fate # "clean" \/ program.origins[c] # {}
  <2>1. program.origins[c] # {} <=> \E o \in Origins : o \in program.origins[c]
    BY <1>1
  <2> QED
    BY <2>1 DEF Cause, Origins
<1>7. state'[c] \in Origins <=> Owes(c)'
  <2>1. Owes(c) <=> fate # "clean"
    BY <1>1 DEF Recorded, Accounted
  <2> QED
    BY <1>1, <1>5, <1>6, <2>1 DEF Built
<1>8. \A d \in Drafts \ Pending' : state'[d] \in Origins <=> Owes(d)'
  BY <1>2, <1>3, <1>4, <1>7 DEF Recorded, Accounted
<1>9. \A d \in Pending' \ current' : d \in Pending \ current /\ d # c /\ d \in Drafts
  BY <1>3 DEF Built, Pending
<1>10. \A d \in Pending' \ current' : ~Owes(d)'
  BY <1>4, <1>9 DEF Recorded, Accounted
<1>11. \A d \in Pending' \cap current' : Owes(d)' <=> fate' # "clean"
  <2>1. \A d \in Pending' \cap current' : d \in Pending \cap current /\ d # c /\ d \in Drafts
    BY <1>3 DEF Built, Pending
  <2> QED
    BY <1>4, <2>1 DEF Recorded, Accounted
<1>12. phase' = "publishing"
  BY DEF Built
<1> QED
  BY <1>8, <1>10, <1>11, <1>12 DEF Accounted

LEMMA RecordedNext ==
    ASSUME Recorded, [Next]_vars PROVE Recorded'
<1>1. CASE BuildGraph
  <2>1. /\ UNCHANGED <<current, fate, state, obligations>> /\ phase' = "publishing"
        /\ current = {} /\ obligations = {} /\ \A d \in Drafts : state[d] = "pending"
    BY <1>1 DEF BuildGraph, Recorded, Structure, Unstarted
  <2>2. Accounted'
    BY <2>1 DEF Accounted, Owes, Pending
  <2> QED
    BY <1>1, <2>2, BuildGraphStructure DEF Recorded
<1>2. CASE OpenComponent
  BY <1>2, OpenComponentRecorded
<1>3. CASE ConstructClass
  <2>1. /\ phase = "publishing" /\ UNCHANGED <<program, id, scc, kin, fate>>
        /\ Failed \/ \E c \in current \cap Pending : Built(c)
    BY <1>3, ConstructCases
  <2>2. CASE Failed
    <3>1. Accounted'
      BY <2>1, <2>2 DEF Failed, Recorded, Accounted, Owes, Pending
    <3> QED
      BY <1>3, <3>1, ConstructClassStructure DEF Recorded
  <2>3. ASSUME NEW c \in current \cap Pending, Built(c) PROVE Recorded'
    BY <1>3, <2>1, <2>3, BuiltRecorded, ConstructClassStructure DEF Recorded
  <2> QED
    BY <2>1, <2>2, <2>3
<1>4. CASE Publish
  <2>1. Accounted'
    BY <1>4 DEF Publish, Recorded, Accounted, Owes, Pending
  <2> QED
    BY <2>1, StructureNext DEF Recorded
<1>5. CASE UNCHANGED vars
  <2>1. Accounted'
    BY <1>5 DEF vars, Recorded, Accounted, Owes, Pending
  <2> QED
    BY <2>1, StructureNext DEF Recorded
<1> QED
  BY <1>1, <1>2, <1>3, <1>4, <1>5 DEF Next

(* A class is poisoned if and only if a record speaks of it or of an       *)
(* extends clause in its component.                                        *)
THEOREM ExplainedAlways == Spec => []Explained
<1>1. Recorded => Explained
  BY DEF Recorded, Accounted, Explained, Owes, Pending, Origins
<1> QED
  BY RecordedInit, RecordedNext, <1>1, PTL DEF Spec

-----------------------------------------------------------------------------

(* Graphs.                                                                 *)
LEMMA ReachBasics ==
    ASSUME NEW edges, NEW a \in Drafts
    PROVE  /\ a \in Reach(edges, a) /\ Reach(edges, a) \subseteq Drafts
           /\ \A b \in Reach(edges, a) :
                /\ Reach(edges, b) \subseteq Reach(edges, a)
                /\ edges[b] \cap Drafts \subseteq Reach(edges, a)
BY DEF Reach, Closed

LEMMA ReachLeast ==
    ASSUME NEW edges, NEW S \in SUBSET Drafts, NEW a \in S, Closed(edges, S)
    PROVE  Reach(edges, a) \subseteq S
BY DEF Reach

LEMMA ReachMonotone ==
    ASSUME NEW few, NEW many, \A c \in Drafts : few[c] \subseteq many[c], NEW a \in Drafts
    PROVE  Reach(few, a) \subseteq Reach(many, a)
<1>1. \A S \in SUBSET Drafts : Closed(many, S) => Closed(few, S)
  BY DEF Closed
<1> QED
  BY <1>1 DEF Reach

(* The components are those of the drafts' own edges.                      *)
Graph ==
    phase # "drafted" =>
        /\ scc = [c \in Drafts |-> Component(Dependencies, c)]
        /\ kin = [c \in Drafts |-> Component(HeritageEdges, c)]

LEMMA Edges ==
    ASSUME NEW c \in Drafts
    PROVE  /\ HeritageEdges[c] = Heritage(c) \cap Drafts
           /\ HardEdges[c] = HardBase(c) \cap Drafts
           /\ HardEdges[c] \subseteq HeritageEdges[c]
           /\ HeritageEdges[c] \subseteq Dependencies[c]
           /\ Dependencies[c] \subseteq Drafts
BY DEF HeritageEdges, HardEdges, Dependencies, Heritage

(* An edge of a cycle is one inside a heritage component.                  *)
LEMMA KinIsBackTo ==
    ASSUME Graph, phase # "drafted", NEW c \in Drafts, NEW b \in Heritage(c) \cap Drafts
    PROVE  b \in kin[c] <=> BackTo(b, c)
<1>1. b \in Reach(HeritageEdges, c)
  BY Edges, ReachBasics
<1> QED
  BY <1>1 DEF Graph, Component, BackTo

LEMMA KinInComponent ==
    ASSUME Graph, phase # "drafted", NEW c \in Drafts
    PROVE  c \in kin[c] /\ kin[c] \subseteq scc[c] /\ scc[c] \subseteq Drafts
<1>1. \A a \in Drafts : Reach(HeritageEdges, a) \subseteq Reach(Dependencies, a)
  BY Edges, ReachMonotone
<1>2. \A a \in Drafts : Reach(HeritageEdges, a) \subseteq Drafts /\ a \in Reach(HeritageEdges, a)
  BY ReachBasics
<1>3. kin[c] = Component(HeritageEdges, c) /\ scc[c] = Component(Dependencies, c)
  BY DEF Graph
<1> QED
  BY <1>1, <1>2, <1>3, ComponentPartition DEF Component

(* The program, and with it every graph, stays as it was drafted.          *)
LEMMA GraphNext ==
    ASSUME Graph, [Next]_vars
    PROVE  Graph' /\ program' = program /\ (phase # "drafted" => scc' = scc /\ kin' = kin)
<1>1. program' = program
  BY DEF Next, vars, BuildGraph, OpenComponent, ConstructClass, Publish
<1>2. Dependencies' = Dependencies /\ HeritageEdges' = HeritageEdges
  BY <1>1 DEF Dependencies, HeritageEdges, Heritage, HardBase
<1>4. CASE BuildGraph
  BY <1>2, <1>4 DEF BuildGraph, Graph
<1>5. CASE ~BuildGraph
  <2>1. UNCHANGED <<scc, kin>> /\ (phase = "drafted" <=> phase' = "drafted")
    BY <1>5 DEF Next, vars, OpenComponent, ConstructClass, Construct, Publish
  <2> QED
    BY <1>1, <1>2, <2>1 DEF Graph
<1> QED
  BY <1>1, <1>4, <1>5 DEF BuildGraph

-----------------------------------------------------------------------------

(* A heritage cycle condemns a component exactly when the code says so.    *)

(* Without a soft edge in it, a cycle is one of extends clauses alone.     *)
LEMMA HardCycle ==
    ASSUME Graph, phase # "drafted", NEW c \in Drafts, NEW b \in HardBase(c) \cap kin[c],
           \A d \in kin[c] : program.soft[d] \cap kin[c] = {}
    PROVE  c \in Reach(HardEdges, b)
<1> DEFINE far == Reach(HeritageEdges, b)
           S == {d \in far : d \in kin[c] => d \in Reach(HardEdges, b)}
<1>1. b \in Drafts /\ c \in far /\ b \in far /\ far \subseteq Drafts /\ b \in Reach(HardEdges, b)
  BY KinInComponent, ReachBasics DEF Graph, Component
<1>2. Reach(HeritageEdges, c) = far
  <2>1. b \in Reach(HeritageEdges, c)
    BY DEF Graph, Component
  <2>2. far \subseteq Reach(HeritageEdges, c)
    BY <2>1, ReachBasics
  <2>3. Reach(HeritageEdges, c) \subseteq far
    BY <1>1, ReachBasics
  <2> QED
    BY <2>2, <2>3
<1>3. ASSUME NEW d \in S, NEW e \in HeritageEdges[d] PROVE e \in S
  <2>1. d \in Drafts /\ d \in far /\ e \in Drafts /\ e \in far
    BY <1>1, <1>3, ReachBasics, Edges
  <2>2. CASE e \notin kin[c]
    BY <2>1, <2>2
  <2>3. CASE e \in kin[c]
    <3>1. c \in Reach(HeritageEdges, e)
      BY <2>3 DEF Graph, Component
    <3>2. c \in Reach(HeritageEdges, d)
      BY <1>3, <2>1, <3>1, ReachBasics
    <3>3. d \in kin[c]
      BY <1>2, <2>1, <3>2 DEF Graph, Component
    <3>4. e \in HardEdges[d]
      BY <1>3, <2>1, <2>3, <3>3, Edges DEF Heritage
    <3>5. e \in Reach(HardEdges, b)
      BY <1>1, <1>3, <2>1, <3>3, <3>4, ReachBasics
    <3> QED
      BY <2>1, <3>5
  <2> QED
    BY <2>2, <2>3
<1>4. S \in SUBSET Drafts /\ b \in S /\ Closed(HeritageEdges, S)
  BY <1>1, <1>3 DEF Closed
<1>5. c \in S /\ c \in kin[c]
  <2> HIDE DEF S
  <2> QED
    BY <1>1, <1>4, ReachLeast, KinInComponent
<1> QED
  BY <1>5

LEMMA CycleIsDoom ==
    ASSUME Graph, Types, phase # "drafted", NEW C \in SUBSET Drafts, \A c \in C : scc[c] = C
    PROVE  CycleEdges(C) # {} <=> Doomed(C)
<1> DEFINE inner == {c \in C : HardBase(c) \cap C # {}}
<1>1. \A c \in C : HardBase(c) = {program.hard[c]} \ {NoBase} /\ kin[c] \subseteq C /\ c \in kin[c]
  BY KinInComponent DEF HardBase
<1>2. \A c \in C : \A b \in HardBase(c) \cap C : b \in kin[c] <=> BackTo(b, c)
  BY KinIsBackTo DEF Heritage
<1>3. {e \in C \X C : e[2] \in HardBase(e[1])} # {} <=> inner # {}
  <2>1. ASSUME NEW c \in inner PROVE {e \in C \X C : e[2] \in HardBase(e[1])} # {}
    <3>1. PICK b \in C : b \in HardBase(c)
      BY <2>1
    <3>2. <<c, b>> \in {e \in C \X C : e[2] \in HardBase(e[1])}
      BY <2>1, <3>1
    <3> QED
      BY <3>2
  <2>2. ASSUME NEW e \in C \X C, e[2] \in HardBase(e[1]) PROVE e[1] \in inner
    BY <2>2
  <2> QED
    BY <2>1, <2>2
<1>4. ASSUME ~Doomed(C), inner # {} PROVE has_recoverable_mixed_heritage_cycle(C)
  <2>1. \A c \in C : \A b \in HardBase(c) \cap C : b \in kin[c] /\ c \notin Reach(HardEdges, b)
    BY <1>2, <1>4 DEF Doomed
  <2>2. \A c \in inner : program.hard[c] \in HardBase(c) \cap C
    BY <1>1
  <2>3. \A c \in inner : \A d \in kin[c] : \A b \in HardBase(d) \cap kin[c] :
          d \notin Reach(HardEdges, b)
    BY <1>1, <2>1
  <2>4. \A c \in inner : \E d \in kin[c] : program.soft[d] \cap kin[c] # {}
    BY <2>1, <2>2, HardCycle
  <2> QED
    BY <1>4, <2>1, <2>2, <2>3, <2>4 DEF has_recoverable_mixed_heritage_cycle
<1>5. ASSUME Doomed(C), has_recoverable_mixed_heritage_cycle(C) PROVE FALSE
  <2>0. PICK c \in C : \E b \in HardBase(c) \cap C : ~BackTo(b, c) \/ c \in Reach(HardEdges, b)
    BY <1>5 DEF Doomed
  <2>1. PICK b \in HardBase(c) \cap C : ~BackTo(b, c) \/ c \in Reach(HardEdges, b)
    BY <2>0
  <2>2. b = program.hard[c] /\ c \in inner
    BY <1>1, <2>1
  <2>3. b \in kin[c] /\ \A d \in kin[c] : \A e \in HardBase(d) \cap kin[c] : d \notin Reach(HardEdges, e)
    BY <1>5, <2>2 DEF has_recoverable_mixed_heritage_cycle
  <2> QED
    BY <1>1, <1>2, <2>1, <2>3
<1>6. Doomed(C) => inner # {}
  BY DEF Doomed
<1> QED
  BY <1>3, <1>4, <1>5, <1>6 DEF CycleEdges

-----------------------------------------------------------------------------

(* Progress: some component, and some class of it, can always go next.     *)

(* The earliest of the members of S that lead to the fewest others.        *)
LEMMA First ==
    ASSUME NEW edges, NEW S \in SUBSET Drafts, S # {}
    PROVE  \E x \in S : \A y \in S :
             Reach(edges, y) \subseteq Reach(edges, x) =>
                Reach(edges, y) = Reach(edges, x) /\ x <= y
<1> DEFINE Reaches == {Reach(edges, y) : y \in S}
<1>1. IsWellFoundedOn(StrictSubsetOrdering(Drafts), FiniteSubsetsOf(Drafts))
  BY FS_StrictSubsetOrderingWellFounded
<1>2. \A y \in S : Reach(edges, y) \in SUBSET Drafts
  BY DEF Reach
<1>3. Reaches \subseteq FiniteSubsetsOf(Drafts) /\ Reaches # {}
  <2>1. FiniteSubsetsOf(Drafts) = SUBSET Drafts
    BY FS_FiniteSubsetsOfFinite, ProgramAssumption
  <2> QED
    BY <1>2, <2>1
<1>4. PICK R \in Reaches : \A T \in Reaches : ~(<<T, R>> \in StrictSubsetOrdering(Drafts))
  <2> HIDE DEF Reaches
  <2> QED
    BY <1>1, <1>3, WFMin
<1>5. \A y \in S : Reach(edges, y) \subseteq R => Reach(edges, y) = R
  <2>1. R \in SUBSET Drafts
    BY <1>2, <1>4
  <2> QED
    BY <1>2, <1>4, <2>1 DEF StrictSubsetOrdering
<1> DEFINE Least == {y \in S : Reach(edges, y) = R}
<1>6. Least \in SUBSET Nat /\ Least # {}
  BY <1>4, ProgramAssumption
<1>7. PICK x \in Least : \A y \in Least : x <= y
  <2> HIDE DEF Least
  <2> DEFINE Before == {ss \in Nat \X Nat : ss[1] < ss[2]}
  <2>1. IsWellFoundedOn(Before, Nat)
    BY NatLessThanWellFounded, Zenon DEF OpToRel
  <2>2. \A x, y \in Nat : <<y, x>> \in Before <=> y < x
    OBVIOUS
  <2> HIDE DEF Before
  <2>3. PICK x \in Least : \A y \in Least : ~(<<y, x>> \in Before)
    BY <1>6, <2>1, WFMin
  <2>4. ASSUME NEW y \in Least PROVE x <= y
    <3>1. x \in Nat /\ y \in Nat /\ ~(y < x)
      BY <1>6, <2>2, <2>3
    <3> QED
      BY <3>1
  <2> QED
    BY <2>4
<1> QED
  BY <1>5, <1>7

LEMMA ReadyExists ==
    ASSUME Graph, phase # "drafted", Pending # {}
    PROVE  ReadyComponents # {}
<1>1. PICK x \in Pending : \A y \in Pending :
        Reach(Dependencies, y) \subseteq Reach(Dependencies, x) =>
            Reach(Dependencies, y) = Reach(Dependencies, x)
  <2>1. Pending \in SUBSET Drafts
    BY DEF Pending
  <2> QED
    BY <2>1, First
<1>2. x \in Drafts /\ scc[x] = Component(Dependencies, x)
  BY DEF Pending, Graph
<1>3. ASSUME NEW c \in scc[x], NEW y \in Dependencies[c] \cap Pending PROVE y \in scc[x]
  <2>1. c \in Drafts /\ c \in Reach(Dependencies, x) /\ y \in Drafts
    BY <1>2, ReachBasics DEF Component, Pending
  <2>2. y \in Reach(Dependencies, x)
    BY <1>2, <2>1, ReachBasics
  <2>3. Reach(Dependencies, y) \subseteq Reach(Dependencies, x)
    BY <1>2, <2>2, ReachBasics
  <2>4. Reach(Dependencies, y) = Reach(Dependencies, x)
    BY <1>1, <2>3
  <2>5. x \in Reach(Dependencies, x)
    BY <1>2, ReachBasics
  <2> QED
    BY <1>2, <2>2, <2>4, <2>5 DEF Component
<1> QED
  BY <1>3 DEF ReadyComponents

(* A class that is not constructible waits for one that is.                *)
LEMMA ConstructibleAwaited ==
    ASSUME Structure, Graph, phase # "drafted", NEW c \in current \cap Pending
    PROVE  \E x \in Awaited(c) : x \in Constructible
<1> DEFINE waits == [d \in Drafts |-> {b \in Heritage(d) \cap scc[d] : BackTo(b, d) => b < d}]
           S == Awaited(c) \cap current \cap Pending
<1>1. Awaited(c) = Reach(waits, c) /\ c \in Drafts
  BY DEF Awaited, Pending
<1> HIDE DEF waits
<1>2. S \in SUBSET Drafts /\ c \in S
  BY <1>1, ReachBasics DEF Pending
<1>3. PICK x \in S : \A y \in S :
        Reach(HeritageEdges, y) \subseteq Reach(HeritageEdges, x) =>
            Reach(HeritageEdges, y) = Reach(HeritageEdges, x) /\ x <= y
  <2> HIDE DEF S
  <2> QED
    BY <1>2, First
<1>4. x \in Drafts /\ x \in current \cap Pending /\ scc[x] = current /\ x \in Reach(waits, c)
  BY <1>1, <1>2, <1>3 DEF Structure, Whole
<1>5. ASSUME NEW b \in Retained(x) \cap Pending PROVE FALSE
  <2>1. b \in Heritage(x) \cap current /\ b \in Drafts /\ (b \in kin[x] => b < x)
    BY DEF Retained, Pending
  <2>2. BackTo(b, x) => b < x
    BY <1>4, <2>1, KinIsBackTo
  <2>3. b \in waits[x]
    BY <1>4, <2>1, <2>2 DEF waits
  <2>4. b \in S
    BY <1>1, <1>4, <1>5, <2>1, <2>3, ReachBasics
  <2>5. b \in HeritageEdges[x]
    BY <1>4, <2>1, Edges
  <2>6. Reach(HeritageEdges, b) \subseteq Reach(HeritageEdges, x)
    BY <1>4, <2>1, <2>5, ReachBasics
  <2>7. Reach(HeritageEdges, b) = Reach(HeritageEdges, x) /\ x <= b
    BY <1>3, <2>4, <2>6
  <2>8. BackTo(b, x)
    BY <1>4, <2>1, <2>7, ReachBasics DEF BackTo
  <2>9. b \in Nat /\ x \in Nat
    BY <1>4, <2>1, ProgramAssumption
  <2> QED
    BY <2>2, <2>7, <2>8, <2>9
<1> QED
  BY <1>1, <1>4, <1>5 DEF Constructible

-----------------------------------------------------------------------------

(* Poison.                                                                 *)
PoisonedNow == {c \in Drafts : state[c] \in Origins}

(* The rule of PoisonClosed for a whole component, given the poisoned P.   *)
Condemned(C, P) ==
    Doomed(C) \/ \E d \in C : Heritage(d) \cap (Tainted \cup (P \ C)) # {}

(* Once a component is open, what it inherits from outside it is final.    *)
Settled ==
    phase # "drafted" =>
        \A c \in Drafts : c \notin Pending \/ c \in current =>
            \A d \in scc[c] : Heritage(d) \cap Pending \subseteq scc[c]

Sentence == current # {} => (fate # "clean" <=> Condemned(current, PoisonedNow))

Judged ==
    \A c \in Drafts \ Pending :
        state[c] \in Origins <=> program.origins[c] # {} \/ Condemned(scc[c], PoisonedNow)

LeastPoison ==
    phase # "drafted" => \A Q \in SUBSET Drafts : PoisonClosed(Q) => PoisonedNow \subseteq Q

Busy ==
    /\ current # {} => current \cap Pending # {}
    /\ phase = "done" => Pending = {}

PoisonInv == Composed /\ Graph /\ Settled /\ Sentence /\ Judged /\ LeastPoison /\ Busy

LEMMA SameProgram ==
    ASSUME program' = program
    PROVE  /\ \A c : Heritage(c)' = Heritage(c) /\ HardBase(c)' = HardBase(c)
           /\ HeritageEdges' = HeritageEdges /\ HardEdges' = HardEdges
           /\ \A b, c : BackTo(b, c)' <=> BackTo(b, c)
           /\ \A C : Doomed(C)' <=> Doomed(C)
           /\ \A C, P : Condemned(C, P)' <=> Condemned(C, P)
<1>1. \A c : Heritage(c)' = Heritage(c) /\ HardBase(c)' = HardBase(c)
  BY DEF Heritage, HardBase
<1>2. HeritageEdges' = HeritageEdges /\ HardEdges' = HardEdges
  BY <1>1 DEF HeritageEdges, HardEdges
<1>3. \A b, c : BackTo(b, c)' <=> BackTo(b, c)
  BY <1>2 DEF BackTo
<1>4. \A C : Doomed(C)' <=> Doomed(C)
  BY <1>1, <1>2, <1>3 DEF Doomed
<1> QED
  BY <1>1, <1>2, <1>3, <1>4 DEF Condemned

LEMMA ClosedRule ==
    ASSUME NEW Q, PoisonClosed(Q), NEW c \in Drafts,
           program.origins[c] # {} \/ Condemned(scc[c], Q)
    PROVE  c \in Q
BY DEF PoisonClosed, Condemned

LEMMA SameClosed ==
    ASSUME program' = program, scc' = scc
    PROVE  \A Q : PoisonClosed(Q)' <=> PoisonClosed(Q)
BY SameProgram DEF PoisonClosed

LEMMA PoisonInit == Init => PoisonInv
<1>1. Init => Graph /\ Settled /\ Sentence /\ Judged /\ LeastPoison /\ Busy
  BY DEF Init, Graph, Settled, Sentence, Judged, LeastPoison, Busy, Pending
<1> QED
  BY <1>1, ComposedInit DEF PoisonInv

LEMMA OpenComponentPoison ==
    ASSUME PoisonInv, OpenComponent
    PROVE  Settled' /\ Sentence' /\ Judged' /\ LeastPoison' /\ Busy'
<1>1. PICK C \in ReadyComponents :
        /\ current' = C
        /\ IF CycleEdges(C) # {}
           THEN fate' = "cycle"
           ELSE fate' = IF PoisonedEdges(C) # {} THEN "poisoned_base" ELSE "clean"
  BY DEF OpenComponent
<1>2. /\ phase = "publishing" /\ current = {}
      /\ UNCHANGED <<program, phase, scc, state>>
  BY DEF OpenComponent
<1>3. PICK c \in Pending : C = scc[c]
  BY <1>1 DEF ReadyComponents
<1>4. Structure /\ Graph
  BY DEF PoisonInv, Composed
<1>5. /\ C \subseteq Pending /\ C \subseteq Drafts /\ c \in C
      /\ \A d \in Drafts : d \in C => scc[d] = C
  BY <1>2, <1>3, <1>4 DEF Structure, Whole, Partition, Pending
<1>6. Pending' = Pending /\ PoisonedNow' = PoisonedNow
  BY <1>2 DEF Pending, PoisonedNow
<1>7. \A d \in C : Heritage(d) \subseteq Classes /\ Heritage(d) \cap Pending \subseteq C
  <2>1. \A d \in C : Heritage(d) \subseteq Classes
    BY <1>4, <1>5 DEF Heritage, HardBase, Structure, Types, Program
  <2>2. \A d \in C : Heritage(d) \cap Pending \subseteq Dependencies[d]
    BY <1>5, Edges DEF Pending
  <2> QED
    BY <1>1, <2>1, <2>2 DEF ReadyComponents
<1>8. Settled'
  <2>1. ASSUME NEW d \in Drafts, d \notin Pending \/ d \in C, NEW e \in scc[d]
        PROVE  Heritage(e) \cap Pending \subseteq scc[d]
    BY <1>2, <1>5, <1>7, <2>1 DEF PoisonInv, Settled
  <2> QED
    BY <1>1, <1>2, <1>6, <2>1, SameProgram DEF Settled
<1>9. PoisonedEdges(C) # {} <=> \E d \in C : Heritage(d) \cap (Tainted \cup (PoisonedNow \ C)) # {}
  <2>1. \A b \in Classes : Poisoned(b) <=> b \in Tainted \cup (PoisonedNow \ C)
    BY <1>5, ProgramAssumption DEF Poisoned, PoisonedNow, Pending, Origins, Inherited, Classes
  <2>2. ASSUME NEW e \in PoisonedEdges(C)
        PROVE  e[1] \in C /\ e[2] \in Heritage(e[1]) \cap (Tainted \cup (PoisonedNow \ C))
    BY <2>1 DEF PoisonedEdges
  <2>3. ASSUME NEW d \in C, NEW b \in Heritage(d) \cap (Tainted \cup (PoisonedNow \ C))
        PROVE  <<d, b>> \in PoisonedEdges(C)
    BY <1>7, <2>1 DEF PoisonedEdges
  <2>4. ASSUME PoisonedEdges(C) # {}
        PROVE  \E d \in C : Heritage(d) \cap (Tainted \cup (PoisonedNow \ C)) # {}
    <3>1. PICK e : e \in PoisonedEdges(C)
      BY <2>4
    <3> QED
      BY <2>2, <3>1
  <2> QED
    BY <2>3, <2>4
<1>10. CycleEdges(C) # {} <=> Doomed(C)
  BY <1>2, <1>4, <1>5, CycleIsDoom DEF Structure
<1>11. Sentence'
  BY <1>1, <1>2, <1>6, <1>9, <1>10, SameProgram DEF Sentence, Condemned
<1>12. Judged' /\ LeastPoison'
  BY <1>2, <1>6, SameProgram, SameClosed DEF PoisonInv, Judged, LeastPoison
<1> QED
  BY <1>1, <1>2, <1>5, <1>6, <1>8, <1>11, <1>12 DEF Busy

LEMMA CauseIsPoison ==
    ASSUME Types, NEW c \in Drafts
    PROVE  Cause(c) \in Origins <=> fate # "clean" \/ program.origins[c] # {}
<1>1. program.origins[c] \subseteq Origins
  BY DEF Types, Program
<1>2. program.origins[c] # {} <=> \E o \in Origins : o \in program.origins[c]
  BY <1>1
<1> QED
  BY <1>2 DEF Cause, Origins

LEMMA BuiltPoison ==
    ASSUME PoisonInv, NEW c \in current \cap Pending, Built(c),
           phase = "publishing", UNCHANGED <<program, id, scc, kin, fate>>
    PROVE  Settled' /\ Sentence' /\ Judged' /\ LeastPoison' /\ Busy'
<1>1. /\ c \in Drafts /\ c \in current /\ state[c] = "pending" /\ scc[c] = current
      /\ state \in [Drafts -> {"pending", "published"} \cup Origins]
      /\ current \subseteq Drafts
  BY DEF Pending, PoisonInv, Composed, Structure, Types, TypeOK, Whole
<1>2. \A d \in Drafts \ {c} : state'[d] = state[d]
  BY <1>1 DEF Built
<1>3. state'[c] = Cause(c) /\ Pending' = Pending \ {c}
  BY <1>1, CauseType DEF Built, Pending, Origins
<1>4. PoisonedNow' = PoisonedNow \cup {d \in {c} : Cause(c) \in Origins}
  BY <1>1, <1>2, <1>3 DEF PoisonedNow, Origins
<1>5. \A d \in Drafts : d \notin Pending \/ d \in current =>
        \A e \in scc[d] : Heritage(e) \cap Pending \subseteq scc[d]
  BY DEF PoisonInv, Settled
<1>6. \A d \in Drafts : d \notin Pending' \/ d \in current' => d \notin Pending \/ d \in current
  BY <1>1, <1>3 DEF Built
<1>7. Settled'
  <2>1. \A d \in Drafts : d \notin Pending' \/ d \in current' =>
        \A e \in scc[d] : Heritage(e) \cap Pending' \subseteq scc[d]
    BY <1>3, <1>5, <1>6
  <2> QED
    BY <2>1, SameProgram DEF Settled
<1>8. ASSUME NEW d \in Drafts, d \notin Pending \/ d \in current
      PROVE  Condemned(scc[d], PoisonedNow') <=> Condemned(scc[d], PoisonedNow)
  <2>1. \A e \in scc[d] : c \in Heritage(e) => c \in scc[d]
    BY <1>5, <1>8
  <2>2. \A e \in scc[d] : Heritage(e) \cap (Tainted \cup (PoisonedNow' \ scc[d]))
                          = Heritage(e) \cap (Tainted \cup (PoisonedNow \ scc[d]))
    BY <1>4, <2>1
  <2> QED
    BY <2>2 DEF Condemned
<1>9. Sentence'
  <2>1. current' # {} => current' = current
    BY DEF Built
  <2>2. Condemned(current, PoisonedNow') <=> Condemned(current, PoisonedNow)
    BY <1>1, <1>8
  <2>3. fate' = fate
    OBVIOUS
  <2> QED
    BY <1>1, <2>1, <2>2, <2>3, SameProgram DEF PoisonInv, Sentence
<1>10. Cause(c) \in Origins <=> program.origins[c] # {} \/ Condemned(scc[c], PoisonedNow)
  BY <1>1, CauseIsPoison DEF PoisonInv, Sentence, Composed, Structure
<1>11. Judged'
  <2>1. ASSUME NEW d \in Drafts \ Pending'
        PROVE  state'[d] \in Origins <=>
                 program.origins[d] # {} \/ Condemned(scc[d], PoisonedNow')
    <3>1. CASE d = c
      BY <1>1, <1>3, <1>8, <1>10, <3>1
    <3>2. CASE d # c
      <4>1. d \in Drafts \ Pending /\ state'[d] = state[d]
        BY <1>2, <1>3, <3>2
      <4> QED
        BY <1>8, <4>1 DEF PoisonInv, Judged
    <3> QED
      BY <3>1, <3>2
  <2> QED
    BY <2>1, SameProgram DEF Judged
<1>12. LeastPoison'
  <2>1. ASSUME NEW Q \in SUBSET Drafts, PoisonClosed(Q) PROVE PoisonedNow' \subseteq Q
    <3>1. PoisonedNow \subseteq Q
      BY <2>1 DEF PoisonInv, LeastPoison
    <3>2. Condemned(scc[c], PoisonedNow) => Condemned(scc[c], Q)
      BY <3>1 DEF Condemned
    <3>3. Cause(c) \in Origins => c \in Q
      BY <1>1, <1>10, <2>1, <3>2, ClosedRule
    <3> QED
      BY <1>4, <3>1, <3>3
  <2> QED
    BY <2>1, SameClosed DEF LeastPoison
<1>13. Busy'
  <2>1. phase' = "publishing"
    BY DEF Built
  <2>2. current' # {} => current' \cap Pending' # {}
    BY <1>1, <1>3 DEF Built
  <2> QED
    BY <2>1, <2>2 DEF Busy
<1> QED
  BY <1>7, <1>9, <1>11, <1>12, <1>13

LEMMA PoisonNext ==
    ASSUME PoisonInv, [Next]_vars PROVE PoisonInv'
<1>0. Composed' /\ Graph' /\ program' = program /\ (phase # "drafted" => scc' = scc /\ kin' = kin)
  BY ComposedNext, GraphNext DEF PoisonInv
<1> SUFFICES Settled' /\ Sentence' /\ Judged' /\ LeastPoison' /\ Busy'
  BY <1>0 DEF PoisonInv
<1>1. CASE BuildGraph
  <2>1. /\ UNCHANGED <<current, fate, state>> /\ phase' = "publishing"
        /\ current = {} /\ \A d \in Drafts : state[d] = "pending"
    BY <1>1 DEF BuildGraph, PoisonInv, Composed, Structure, Unstarted
  <2>2. Pending' = Drafts /\ PoisonedNow' = {}
    BY <2>1 DEF Pending, PoisonedNow, Origins
  <2> QED
    BY <2>1, <2>2 DEF Settled, Sentence, Judged, LeastPoison, Busy
<1>2. CASE OpenComponent
  BY <1>2, OpenComponentPoison
<1>3. CASE ConstructClass
  <2>1. /\ phase = "publishing" /\ UNCHANGED <<program, id, scc, kin, fate>>
        /\ Failed \/ \E c \in current \cap Pending : Built(c)
    BY <1>3, ConstructCases
  <2>2. CASE Failed
    <3>1. UNCHANGED <<current, state>> /\ Pending' = Pending /\ PoisonedNow' = PoisonedNow
          /\ phase' \notin {"drafted", "done"}
      BY <2>2 DEF Failed, Pending, PoisonedNow
    <3> QED
      BY <2>1, <3>1, SameProgram, SameClosed
         DEF PoisonInv, Settled, Sentence, Judged, LeastPoison, Busy
  <2>3. ASSUME NEW c \in current \cap Pending, Built(c)
        PROVE  Settled' /\ Sentence' /\ Judged' /\ LeastPoison' /\ Busy'
    BY <2>1, <2>3, BuiltPoison
  <2> QED
    BY <2>1, <2>2, <2>3
<1>4. CASE Publish
  <2>1. /\ phase = "publishing" /\ phase' = "done" /\ ReadyComponents = {}
        /\ UNCHANGED <<program, scc, current, fate, state>>
    BY <1>4 DEF Publish
  <2>2. Pending = {}
    BY <2>1, ReadyExists DEF PoisonInv
  <2>3. Pending' = Pending /\ PoisonedNow' = PoisonedNow
    BY <2>1 DEF Pending, PoisonedNow
  <2> QED
    BY <2>1, <2>2, <2>3, SameProgram, SameClosed
       DEF PoisonInv, Settled, Sentence, Judged, LeastPoison, Busy
<1>5. CASE UNCHANGED vars
  <2>1. UNCHANGED <<program, phase, scc, current, fate, state>>
    BY <1>5 DEF vars
  <2>2. Pending' = Pending /\ PoisonedNow' = PoisonedNow
    BY <2>1 DEF Pending, PoisonedNow
  <2> QED
    BY <2>1, <2>2, SameProgram, SameClosed
       DEF PoisonInv, Settled, Sentence, Judged, LeastPoison, Busy
<1> QED
  BY <1>1, <1>2, <1>3, <1>4, <1>5 DEF Next

LEMMA PoisonAlways == Spec => []PoisonInv
BY PoisonInit, PoisonNext, PTL DEF Spec

(* For any program and any order of components, the classes that end       *)
(* poisoned are the least set closed under the rule, and no class is left  *)
(* pending.                                                                *)
THEOREM PoisonExactAlways == Spec => []PoisonExact
<1>1. ASSUME PoisonInv, phase = "done"
      PROVE  /\ PoisonClosed(PoisonedNow)
             /\ \A Q \in SUBSET PoisonedNow : PoisonClosed(Q) => Q = PoisonedNow
             /\ \A c \in Drafts \ PoisonedNow : state[c] = "published"
  <2>1. Pending = {}
    BY <1>1 DEF PoisonInv, Busy
  <2>2. \A c \in Drafts : c \in PoisonedNow <=>
          program.origins[c] # {} \/ Condemned(scc[c], PoisonedNow)
    BY <1>1, <2>1 DEF PoisonInv, Judged, PoisonedNow
  <2>3. PoisonClosed(PoisonedNow)
    BY <2>2 DEF PoisonClosed, Condemned
  <2>4. \A Q \in SUBSET PoisonedNow : PoisonClosed(Q) => Q = PoisonedNow
    BY <1>1 DEF PoisonInv, LeastPoison, PoisonedNow
  <2>5. \A c \in Drafts \ PoisonedNow : state[c] = "published"
    BY <1>1, <2>1 DEF PoisonInv, Composed, Structure, Types, TypeOK, PoisonedNow, Pending
  <2> QED
    BY <2>3, <2>4, <2>5
<1>2. PoisonInv => PoisonExact
  BY <1>1 DEF PoisonExact, PoisonedNow
<1> QED
  BY <1>2, PoisonAlways, PTL

-----------------------------------------------------------------------------

(* Surfaces.                                                               *)

(* A class is built after everything it inherits from, except what recovery*)
(* cuts.                                                                   *)
Waited ==
    phase # "drafted" =>
        \A c \in Drafts \ Pending : \A b \in Heritage(c) \cap Pending : BackTo(b, c) /\ ~(b < c)

(* A later class of its cycle is built before c only while c waits for one *)
(* later still.                                                            *)
Late ==
    phase # "drafted" =>
        \A c \in current \cap Pending : \A b \in kin[c] \ Pending :
            b > c => \E x \in Awaited(c) : x > b

(* SurfaceExact for one published class, element by element.               *)
Composition(c) ==
    /\ \A d : d \in instance[c] <=>
         d = c \/ \E b \in Heritage(c) \cap instance[c] : d \in InstanceOf(b)
    /\ \A d : d \in statics[c] <=>
         d = c \/ \E b \in HardBase(c) \cap instance[c] : d \in StaticsOf(b)
    /\ \A b \in Heritage(c) : Passes(c, b) => b \in instance[c]
    /\ \A d \in instance[c] : Available(d) /\ (d # c => c \notin InstanceOf(d))
    /\ \A b \in Heritage(c) \cap instance[c] :
         BackTo(b, c) /\ b > c => \E x \in Awaited(c) : x > b

Surfaces ==
    \A c \in Drafts :
        IF state[c] = "published" THEN Composition(c)
        ELSE instance[c] = {} /\ statics[c] = {}

SurfaceInv == PoisonInv /\ Waited /\ Late /\ Surfaces

LEMMA SameAwaited ==
    ASSUME program' = program, scc' = scc
    PROVE  \A c : Awaited(c)' = Awaited(c)
<1> DEFINE waits == [d \in Drafts |-> {b \in Heritage(d) \cap scc[d] : BackTo(b, d) => b < d}]
<1>1. waits' = waits
  BY SameProgram
<1>2. \A c : Awaited(c) = Reach(waits, c) /\ Awaited(c)' = Reach(waits', c)
  BY DEF Awaited
<1> QED
  BY <1>1, <1>2

(* Inside its own cycle a class waits only for earlier ones.               *)
LEMMA AwaitedKin ==
    ASSUME Graph, phase # "drafted", NEW c \in Drafts
    PROVE  \A y \in Awaited(c) \cap kin[c] : y <= c
<1> DEFINE waits == [d \in Drafts |-> {b \in Heritage(d) \cap scc[d] : BackTo(b, d) => b < d}]
           far == Reach(HeritageEdges, c)
           S == {y \in far : y \in kin[c] => y <= c}
<1>1. c \in far /\ far \subseteq Drafts /\ Drafts \subseteq Nat /\ scc \in [Drafts -> SUBSET Drafts]
  BY ReachBasics, ProgramAssumption, ComponentPartition DEF Graph
<1>2. ASSUME NEW y \in S, NEW z \in waits[y] PROVE z \in S
  <2>1. y \in Drafts /\ y \in far /\ z \in Heritage(y) \cap Drafts /\ (BackTo(z, y) => z < y)
    BY <1>1, <1>2
  <2>2. z \in far
    BY <2>1, Edges, ReachBasics
  <2>3. CASE z \notin kin[c]
    BY <2>2, <2>3
  <2>4. CASE z \in kin[c]
    <3>1. c \in Reach(HeritageEdges, z)
      BY <2>4 DEF Graph, Component
    <3>2. y \in Reach(HeritageEdges, z)
      BY <2>1, <3>1, ReachBasics
    <3>3. z \in Reach(HeritageEdges, y)
      BY <2>1, Edges, ReachBasics
    <3>4. c \in Reach(HeritageEdges, y)
      BY <2>1, <3>1, <3>3, ReachBasics
    <3>5. y \in kin[c]
      BY <2>1, <3>4 DEF Graph, Component
    <3>6. z < y /\ y <= c
      BY <1>2, <2>1, <3>2, <3>5 DEF BackTo
    <3>7. z \in Nat /\ y \in Nat /\ c \in Nat
      BY <1>1, <2>1
    <3> QED
      BY <2>2, <3>6, <3>7
  <2> QED
    BY <2>3, <2>4
<1>3. S \in SUBSET Drafts /\ c \in S /\ Closed(waits, S)
  <2>1. c <= c
    BY <1>1
  <2> QED
    BY <1>1, <1>2, <2>1 DEF Closed
<1>4. Awaited(c) = Reach(waits, c)
  BY DEF Awaited
<1>5. Reach(waits, c) \subseteq S
  <2> HIDE DEF waits, S
  <2> QED
    BY <1>3, ReachLeast
<1> QED
  BY <1>4, <1>5

LEMMA ConstructFirst ==
    ASSUME ConstructClass
    PROVE  /\ phase = "publishing" /\ UNCHANGED <<program, id, scc, kin, fate>>
           /\ \/ Failed /\ (phase' = "unordered" => Constructible = {} /\ current # {})
              \/ \E c \in Constructible : (\A d \in Constructible : c <= d) /\ Built(c)
<1>1. CASE Constructible = {}
  BY <1>1 DEF ConstructClass, Failed
<1>2. CASE Constructible # {}
  <2>1. PICK c \in Constructible : (\A d \in Constructible : c <= d) /\ Construct(c)
    BY <1>2 DEF ConstructClass
  <2>2. c \in current \cap Pending
    BY DEF Constructible
  <2>3. Cause(c) = "published" => fate = "clean"
    BY DEF Cause
  <2>4. CASE Cause(c) = "published" /\ \E b \in Heritage(c) \ current : ~Available(b)
    BY <1>2, <2>1, <2>2, <2>3, <2>4 DEF Construct, Failed, ConstructClass
  <2>5. CASE ~(Cause(c) = "published" /\ \E b \in Heritage(c) \ current : ~Available(b))
    <3>1. Built(c)
      BY <2>1, <2>5 DEF Construct, Built
    <3> QED
      BY <2>1, <3>1 DEF ConstructClass
  <2> QED
    BY <2>4, <2>5
<1> QED
  BY <1>1, <1>2

(* The order classes of a component are built in.                          *)
LEMMA BuiltOrder ==
    ASSUME PoisonInv, Waited, Late, NEW c \in Constructible, \A d \in Constructible : c <= d,
           Built(c), phase = "publishing", UNCHANGED <<program, id, scc, kin, fate>>
    PROVE  Waited' /\ Late'
<1>1. /\ c \in Drafts /\ c \in current \cap Pending /\ state[c] = "pending"
      /\ scc[c] = current /\ current \subseteq Drafts /\ Retained(c) \cap Pending = {}
      /\ state \in [Drafts -> {"pending", "published"} \cup Origins]
  BY DEF Constructible, Pending, PoisonInv, Composed, Structure, Types, TypeOK, Whole
<1>2. Pending' = Pending \ {c} /\ (current' = {} \/ current' = current)
  BY <1>1, CauseType DEF Built, Pending, Origins
<1>3. phase # "drafted" /\ Graph /\ Structure
  BY DEF PoisonInv, Composed
<1>4. Waited'
  <2>1. ASSUME NEW d \in Drafts \ Pending', NEW b \in Heritage(d) \cap Pending'
        PROVE  BackTo(b, d) /\ ~(b < d)
    <3>1. CASE d # c
      BY <1>2, <1>3, <2>1, <3>1 DEF Waited
    <3>2. CASE d = c
      <4>1. b \in Heritage(c) \cap Pending /\ b \in Drafts
        BY <1>2, <3>2 DEF Pending
      <4>2. c \in scc[c]
        BY <1>1
      <4>3. b \in current
        BY <1>1, <1>3, <4>1, <4>2 DEF PoisonInv, Settled
      <4>4. b \in kin[c] /\ ~(b < c)
        BY <1>1, <4>1, <4>3 DEF Retained
      <4> QED
        BY <1>1, <1>3, <3>2, <4>1, <4>4, KinIsBackTo
    <3> QED
      BY <3>1, <3>2
  <2> QED
    BY <2>1, SameProgram DEF Waited
<1>5. Late'
  <2>1. ASSUME NEW e \in current' \cap Pending', NEW b \in kin[e] \ Pending', b > e
        PROVE  \E x \in Awaited(e) : x > b
    <3>1. e \in current \cap Pending /\ e \in Drafts /\ e # c
      BY <1>1, <1>2
    <3>2. CASE b # c
      <4>1. b \in kin[e] \ Pending
        BY <1>2, <3>2
      <4> QED
        BY <1>3, <2>1, <3>1, <4>1 DEF Late
    <3>3. CASE b = c
      <4>1. PICK x \in Awaited(e) : x \in Constructible
        BY <1>3, <3>1, ConstructibleAwaited
      <4>2. c <= x
        BY <4>1
      <4>3. x # c
        <5>1. x \in kin[e] => x <= e
          BY <1>3, <3>1, AwaitedKin
        <5> QED
          BY <1>1, <2>1, <3>1, <3>3, <5>1, ProgramAssumption
      <4>4. x \in Drafts
        BY <4>1 DEF Constructible, Pending
      <4>5. x \in Nat /\ c \in Nat
        BY <1>1, <4>4, ProgramAssumption
      <4>6. x > c
        BY <4>2, <4>3, <4>5
      <4> QED
        BY <3>3, <4>6
    <3> QED
      BY <3>2, <3>3
  <2>2. \A e : Awaited(e)' = Awaited(e)
    BY SameAwaited
  <2> QED
    BY <2>1, <2>2 DEF Late
<1> QED
  BY <1>4, <1>5

(* What was composed stays as it is; the class that is built is composed   *)
(* from complete surfaces, and its own is not among them.                  *)
LEMMA BuiltSurfaces ==
    ASSUME SurfaceInv, NEW c \in Constructible, Built(c),
           phase = "publishing", UNCHANGED <<program, id, scc, kin, fate>>
    PROVE  Surfaces'
<1>1. /\ c \in Drafts /\ c \in current \cap Pending /\ state[c] = "pending"
      /\ scc[c] = current
      /\ state \in [Drafts -> {"pending", "published"} \cup Origins]
      /\ instance \in [Drafts -> SUBSET Classes] /\ statics \in [Drafts -> SUBSET Classes]
  BY DEF Constructible, Pending, SurfaceInv, PoisonInv, Composed, Structure, Types, TypeOK, Whole
<1>2. /\ \A d \in Drafts \ {c} :
           state'[d] = state[d] /\ instance'[d] = instance[d] /\ statics'[d] = statics[d]
      /\ state'[c] = Cause(c)
  BY <1>1 DEF Built
<1>3. \A b : b # c => /\ Available(b)' <=> Available(b)
                      /\ InstanceOf(b)' = InstanceOf(b) /\ StaticsOf(b)' = StaticsOf(b)
  BY <1>2 DEF Available, InstanceOf, StaticsOf
<1>4. ~Available(c)
  BY <1>1 DEF Available
<1>5. /\ \A d : Heritage(d)' = Heritage(d) /\ HardBase(d)' = HardBase(d)
      /\ \A b, d : BackTo(b, d)' <=> BackTo(b, d)
      /\ \A d : Awaited(d)' = Awaited(d)
  BY SameProgram, SameAwaited
<1>6. \A d : HardBase(d) \subseteq Heritage(d)
  BY DEF Heritage
<1>7. ASSUME NEW d \in Drafts \ {c}, state'[d] = "published" PROVE Composition(d)'
  <2>1. Composition(d) /\ instance'[d] = instance[d] /\ statics'[d] = statics[d]
    BY <1>2, <1>7 DEF SurfaceInv, Surfaces
  <2>2. \A b \in instance[d] : Available(b) /\ b # c
    BY <1>4, <2>1 DEF Composition
  <2>3. \A b \in instance[d] : /\ Available(b)' /\ InstanceOf(b)' = InstanceOf(b)
                               /\ StaticsOf(b)' = StaticsOf(b)
    BY <1>3, <2>2
  <2>4. \A b \in Heritage(d) : Passes(d, b)' => b \in instance[d]
    <3>1. SUFFICES ASSUME NEW b \in Heritage(d), Passes(d, b)' PROVE b \in instance[d]
      OBVIOUS
    <3>2. CASE b # c
      BY <1>3, <1>5, <2>1, <3>1, <3>2 DEF Passes, Composition
    <3>3. CASE b = c
      <4>1. d \in Drafts \ Pending
        BY <1>2, <1>7 DEF Pending
      <4>2. BackTo(c, d) /\ ~(c < d)
        BY <1>1, <3>1, <3>3, <4>1 DEF SurfaceInv, Waited
      <4> QED
        BY <1>5, <3>1, <3>3, <4>2 DEF Passes
    <3> QED
      BY <3>2, <3>3
  <2>5. /\ \A e : e \in instance'[d] <=>
             e = d \/ \E b \in Heritage(d) \cap instance'[d] : e \in InstanceOf(b)'
        /\ \A e : e \in statics'[d] <=>
             e = d \/ \E b \in HardBase(d) \cap instance'[d] : e \in StaticsOf(b)'
    BY <2>1, <2>3 DEF Composition
  <2>6. \A e \in instance'[d] : Available(e)' /\ (e # d => d \notin InstanceOf(e)')
    BY <2>1, <2>3 DEF Composition
  <2>7. \A b \in Heritage(d) \cap instance'[d] :
          BackTo(b, d) /\ b > d => \E x \in Awaited(d) : x > b
    BY <2>1 DEF Composition
  <2> QED
    BY <1>5, <2>1, <2>4, <2>5, <2>6, <2>7 DEF Composition
<1>8. ASSUME Cause(c) = "published" PROVE Composition(c)'
  <2>1. ASSUME NEW b \in InstanceBases(c)
        PROVE  /\ b # c /\ b \in Heritage(c) /\ b \in InstanceOf(b)
               /\ \A d \in InstanceOf(b) : Available(d) /\ d # c
    <3>1. b \in Heritage(c) /\ Available(b) /\ b # c
      BY <1>4 DEF InstanceBases
    <3>2. CASE b \in Drafts
      <4>1. Composition(b)
        BY <3>1, <3>2 DEF Available, SurfaceInv, Surfaces
      <4> QED
        BY <1>4, <3>1, <3>2, <4>1 DEF Composition, InstanceOf
    <3>3. CASE b \notin Drafts
      BY <3>1, <3>3 DEF InstanceOf
    <3> QED
      BY <3>1, <3>2, <3>3
  <2>2. StaticBases(c) = InstanceBases(c) \cap HardBase(c)
    BY <1>6 DEF StaticBases, InstanceBases
  <2>3. /\ \A d : d \in instance'[c] <=> d = c \/ \E b \in InstanceBases(c) : d \in InstanceOf(b)
        /\ \A d : d \in statics'[c] <=> d = c \/ \E b \in StaticBases(c) : d \in StaticsOf(b)
    BY <1>1, <1>8 DEF Built
  <2>4. Heritage(c) \cap instance'[c] \subseteq InstanceBases(c) \cup {c}
    BY <2>1, <2>3 DEF InstanceBases
  <2>5. InstanceBases(c) \subseteq Heritage(c) \cap instance'[c]
    BY <2>1, <2>3
  <2>6. InstanceOf(c)' = instance'[c] /\ StaticsOf(c)' = statics'[c]
    BY <1>1 DEF InstanceOf, StaticsOf
  <2>7. \A d : d \in instance'[c] <=>
          d = c \/ \E b \in Heritage(c) \cap instance'[c] : d \in InstanceOf(b)'
    BY <1>3, <2>1, <2>3, <2>4, <2>5, <2>6
  <2>8. \A d : d \in statics'[c] <=>
          d = c \/ \E b \in HardBase(c) \cap instance'[c] : d \in StaticsOf(b)'
    BY <1>3, <1>6, <2>1, <2>2, <2>3, <2>4, <2>5, <2>6
  <2>9. Available(c)' /\ ~(c < c)
    BY <1>1, <1>2, <1>8, ProgramAssumption DEF Available
  <2>10. \A b \in Heritage(c) : Passes(c, b)' => b \in instance'[c]
    BY <1>3, <2>3, <2>5 DEF Passes, InstanceBases
  <2>11. \A d \in instance'[c] : Available(d)' /\ (d # c => c \notin InstanceOf(d)')
    <3>1. SUFFICES ASSUME NEW d \in instance'[c], d # c PROVE Available(d)' /\ c \notin InstanceOf(d)'
      BY <2>9
    <3>2. Available(d)
      BY <2>1, <2>3, <3>1
    <3>3. c \notin InstanceOf(d)
      <4>1. CASE d \in Drafts
        <5>1. Composition(d)
          BY <3>2, <4>1 DEF Available, SurfaceInv, Surfaces
        <5> QED
          BY <1>4, <4>1, <5>1 DEF Composition, InstanceOf
      <4>2. CASE d \notin Drafts
        BY <3>1, <4>2 DEF InstanceOf
      <4> QED
        BY <4>1, <4>2
    <3> QED
      BY <1>3, <3>1, <3>2, <3>3
  <2>12. \A b \in Heritage(c) \cap instance'[c] :
           BackTo(b, c) /\ b > c => \E x \in Awaited(c) : x > b
    <3>1. SUFFICES ASSUME NEW b \in Heritage(c) \cap instance'[c], BackTo(b, c), b > c
                   PROVE  \E x \in Awaited(c) : x > b
      OBVIOUS
    <3>2. b \in Drafts /\ b # c
      BY <1>1, <3>1, ProgramAssumption DEF BackTo
    <3>3. b \notin Pending
      BY <2>4, <3>2 DEF InstanceBases, Available, Pending
    <3>4. b \in kin[c]
      BY <1>1, <3>1, <3>2, KinIsBackTo DEF SurfaceInv, PoisonInv
    <3> QED
      BY <1>1, <3>1, <3>3, <3>4 DEF SurfaceInv, Late
  <2> QED
    BY <1>5, <2>7, <2>8, <2>10, <2>11, <2>12 DEF Composition
<1>9. ASSUME Cause(c) # "published" PROVE instance'[c] = {} /\ statics'[c] = {}
  <2>1. instance[c] = {} /\ statics[c] = {}
    BY <1>1 DEF SurfaceInv, Surfaces
  <2> QED
    BY <1>9, <2>1 DEF Built
<1>10. ASSUME NEW d \in Drafts \ {c}, state'[d] # "published"
       PROVE  instance'[d] = {} /\ statics'[d] = {}
  BY <1>2, <1>10 DEF SurfaceInv, Surfaces
<1> QED
  BY <1>2, <1>7, <1>8, <1>9, <1>10 DEF Surfaces

LEMMA SurfaceInit == Init => SurfaceInv
<1>1. Init => Waited /\ Late /\ Surfaces
  BY DEF Init, Waited, Late, Surfaces, Pending
<1> QED
  BY <1>1, PoisonInit DEF SurfaceInv

LEMMA SameSurfaces ==
    ASSUME Surfaces, UNCHANGED <<program, scc, state, instance, statics>>
    PROVE  Surfaces'
<1>1. \A b : /\ Available(b)' <=> Available(b)
             /\ InstanceOf(b)' = InstanceOf(b) /\ StaticsOf(b)' = StaticsOf(b)
  BY DEF Available, InstanceOf, StaticsOf
<1>2. \A b, c : Passes(c, b)' <=> Passes(c, b)
  BY <1>1, SameProgram DEF Passes
<1>3. \A c : Composition(c)' <=> Composition(c)
  BY <1>1, <1>2, SameProgram, SameAwaited DEF Composition
<1> QED
  BY <1>3 DEF Surfaces

LEMMA SurfaceNext ==
    ASSUME SurfaceInv, [Next]_vars PROVE SurfaceInv'
<1>0. PoisonInv' /\ program' = program
  BY PoisonNext, GraphNext DEF SurfaceInv, PoisonInv
<1> SUFFICES Waited' /\ Late' /\ Surfaces'
  BY <1>0 DEF SurfaceInv
<1>1. CASE BuildGraph
  <2>1. /\ UNCHANGED <<current, state, instance, statics>> /\ phase' = "publishing"
        /\ current = {} /\ \A d \in Drafts : state[d] = "pending"
    BY <1>1 DEF BuildGraph, SurfaceInv, PoisonInv, Composed, Structure, Unstarted
  <2>2. Pending' = Drafts
    BY <2>1 DEF Pending
  <2> QED
    BY <2>1, <2>2 DEF SurfaceInv, Waited, Late, Surfaces
<1>2. CASE OpenComponent
  <2>1. /\ phase = "publishing" /\ phase' = "publishing" /\ Pending' = Pending
        /\ UNCHANGED <<program, scc, kin, state, instance, statics>>
    BY <1>2 DEF OpenComponent, Pending
  <2>2. Waited' /\ Surfaces'
    BY <2>1, SameProgram, SameSurfaces DEF SurfaceInv, Waited
  <2>3. \A c \in current' : c \in Drafts /\ scc[c] = current' /\ scc[c] \subseteq Pending
    <3>1. PICK C \in ReadyComponents : current' = C
      BY <1>2 DEF OpenComponent
    <3>2. PICK x \in Pending : C = scc[x]
      BY <3>1 DEF ReadyComponents
    <3>3. current = {}
      BY <1>2 DEF OpenComponent
    <3>4. Structure
      BY DEF SurfaceInv, PoisonInv, Composed
    <3> QED
      BY <2>1, <3>1, <3>2, <3>3, <3>4 DEF Structure, Whole, Partition, Pending
  <2>4. \A c \in current' : kin[c] \subseteq Pending
    BY <2>1, <2>3, KinInComponent DEF SurfaceInv, PoisonInv
  <2> QED
    BY <2>1, <2>2, <2>4 DEF Late
<1>3. CASE ConstructClass
  <2>1. /\ phase = "publishing" /\ UNCHANGED <<program, id, scc, kin, fate>>
        /\ \/ Failed
           \/ \E c \in Constructible : (\A d \in Constructible : c <= d) /\ Built(c)
    BY <1>3, ConstructFirst
  <2>2. CASE Failed
    <3>1. UNCHANGED <<current, state, instance, statics>> /\ Pending' = Pending
      BY <2>2 DEF Failed, Pending
    <3> QED
      BY <2>1, <3>1, SameProgram, SameAwaited, SameSurfaces DEF SurfaceInv, Waited, Late
  <2>3. ASSUME NEW c \in Constructible, \A d \in Constructible : c <= d, Built(c)
        PROVE  Waited' /\ Late' /\ Surfaces'
    BY <2>1, <2>3, BuiltOrder, BuiltSurfaces DEF SurfaceInv
  <2> QED
    BY <2>1, <2>2, <2>3
<1>4. CASE Publish \/ UNCHANGED vars
  <2>1. /\ UNCHANGED <<program, scc, kin, current, state, instance, statics>>
        /\ Pending' = Pending /\ (phase' # "drafted" => phase # "drafted")
    BY <1>4 DEF Publish, vars, Pending
  <2> QED
    BY <2>1, SameProgram, SameAwaited, SameSurfaces DEF SurfaceInv, Waited, Late
<1> QED
  BY <1>1, <1>2, <1>3, <1>4 DEF Next

(* For any program: a published class is composed of its own members and   *)
(* of whole, finished surfaces of its bases, all those recovery passes on  *)
(* included.                                                               *)
THEOREM SurfaceExactAlways == Spec => []SurfaceExact
<1>1. ASSUME SurfaceInv, NEW c \in Drafts, state[c] = "published"
      PROVE  LET up == Heritage(c) \cap instance[c]
             IN  /\ instance[c] = {c} \cup UNION {InstanceOf(b) : b \in up}
                 /\ statics[c] = {c} \cup UNION {StaticsOf(b) : b \in up \cap HardBase(c)}
                 /\ {b \in Heritage(c) : Passes(c, b)} \subseteq up
                 /\ \A d \in instance[c] \ {c} : c \notin InstanceOf(d)
                 /\ \A b \in up : BackTo(b, c) /\ b > c => \E x \in Awaited(c) : x > b
  <2> DEFINE up == Heritage(c) \cap instance[c]
  <2>1. Composition(c)
    BY <1>1 DEF SurfaceInv, Surfaces
  <2>2. HardBase(c) \cap instance[c] = up \cap HardBase(c)
    BY DEF Heritage
  <2>3. instance[c] = {c} \cup UNION {InstanceOf(b) : b \in up}
    <3>1. \A d : d \in instance[c] <=> d = c \/ \E b \in up : d \in InstanceOf(b)
      BY <2>1 DEF Composition
    <3> HIDE DEF up
    <3> QED
      BY <3>1
  <2>4. statics[c] = {c} \cup UNION {StaticsOf(b) : b \in up \cap HardBase(c)}
    <3>1. \A d : d \in statics[c] <=> d = c \/ \E b \in up \cap HardBase(c) : d \in StaticsOf(b)
      BY <2>1, <2>2 DEF Composition
    <3> HIDE DEF up
    <3> QED
      BY <3>1
  <2>5. {b \in Heritage(c) : Passes(c, b)} \subseteq up
    BY <2>1 DEF Composition
  <2>6. /\ \A d \in instance[c] \ {c} : c \notin InstanceOf(d)
        /\ \A b \in up : BackTo(b, c) /\ b > c => \E x \in Awaited(c) : x > b
    BY <2>1 DEF Composition
  <2> QED
    BY <2>3, <2>4, <2>5, <2>6
<1>2. SurfaceInv => SurfaceExact
  BY <1>1 DEF SurfaceExact, SurfaceInv, Surfaces
<1> QED
  BY <1>2, SurfaceInit, SurfaceNext, PTL DEF Spec

(* Publication never fails: no component is left without a class to build  *)
(* next and no class without a base, so the expect on its result is safe.  *)
THEOREM PublicationNeverFails == Spec => [](phase \notin {"unordered", "missing_base"})
<1> DEFINE Fine == phase \notin {"unordered", "missing_base"}
<1>1. Init => Fine
  BY DEF Init
<1>2. ASSUME PoisonInv, PoisonInv', Fine, [Next]_vars PROVE Fine'
  <2>1. phase' # "missing_base"
    BY <1>2 DEF PoisonInv, Composed, BasesComplete
  <2>2. ASSUME phase' = "unordered" PROVE FALSE
    <3>1. ConstructClass
      BY <1>2, <2>2 DEF Next, vars, BuildGraph, OpenComponent, Publish
    <3>2. phase = "publishing" /\ Constructible = {} /\ current # {}
      BY <2>2, <3>1, ConstructFirst DEF Built
    <3>3. PICK c : c \in current \cap Pending
      BY <1>2, <3>2 DEF PoisonInv, Busy
    <3> QED
      BY <1>2, <3>2, <3>3, ConstructibleAwaited DEF PoisonInv, Composed
  <2> QED
    BY <2>1, <2>2
<1> QED
  BY <1>1, <1>2, PoisonAlways, PTL DEF Spec
=============================================================================
