--------------------------- MODULE ClassPublication ---------------------------
(***************************************************************************)
(* Publication of the class surfaces of one compilation.                   *)
(*                                                                         *)
(* Every class declaration has been lowered to a draft: the members it     *)
(* declares, the class it extends (a hard base), the classes an interface  *)
(* merged with it extends (soft bases), the classes its types mention and  *)
(* whatever went wrong in lowering.  Publication cuts the drafts into      *)
(* strongly connected components and takes them dependencies first; inside *)
(* one it takes the classes bases first, cutting the edges of a soft cycle *)
(* that point forward in the source.  A class ends published, with a       *)
(* surface composed from its bases, or poisoned, with no surface at all.   *)
(* Source: classes/construction.rs, classes/publication.rs.                *)
(***************************************************************************)
EXTENDS Integers, FiniteSets

CONSTANTS
    Drafts,       \* declared classes, numbered in recovery (source) order
    Ready,        \* classes the library base has published
    Tainted,      \* classes the library base has poisoned
    NoBase,
    Programs,     \* families of what the sources may declare
    Allocations   \* the ClassIds declarations may have been given

Inherited == Ready \cup Tainted
Classes   == Drafts \cup Inherited
Origins   == {"heritage", "initializer", "surface"}

Program == [hard     : [Drafts -> Classes \cup {NoBase}],
            soft     : [Drafts -> SUBSET Classes],
            ordinary : [Drafts -> SUBSET Classes],
            origins  : [Drafts -> SUBSET Origins]]

ASSUME ProgramAssumption ==
    /\ IsFiniteSet(Drafts) /\ Drafts \subseteq Nat
    /\ Drafts \cap Inherited = {} /\ Ready \cap Tainted = {}
    /\ NoBase \notin Classes
    /\ \A family \in Programs : family \subseteq Program
    /\ Allocations \subseteq [Drafts -> Nat]
    /\ \A a \in Allocations : \A c, d \in Drafts : a[c] = a[d] => c = d

VARIABLES
    program,      \* the drafts
    id,           \* draft |-> its ClassId
    phase,        \* "drafted", "publishing", "done" or how it failed
    scc,          \* draft |-> its component of the class graph
    kin,          \* draft |-> its component of the heritage edges alone
    current,      \* the component being published
    fate,         \* what that component turned out to be
    state,        \* draft |-> "pending", "published" or why it is poisoned
    instance,     \* draft |-> the classes whose members its instances have
    statics,      \* draft |-> the same for the static side and constructor
    obligations   \* what publication records against an extends clause or draft

vars == <<program, id, phase, scc, kin, current, fate, state, instance, statics, obligations>>

Init ==
    /\ \E family \in Programs : program \in family
    /\ id \in Allocations
    /\ phase = "drafted"
    /\ scc = [c \in Drafts |-> {}]
    /\ kin = [c \in Drafts |-> {}]
    /\ current = {}
    /\ fate = "clean"
    /\ state = [c \in Drafts |-> "pending"]
    /\ instance = [c \in Drafts |-> {}]
    /\ statics = [c \in Drafts |-> {}]
    /\ obligations = {}

(***************************************************************************)
(* Graphs over the drafts: edges[c] is the set of classes c points to.     *)
(***************************************************************************)
Closed(edges, S) == \A c \in S : edges[c] \subseteq S

\* What c leads to, itself included: the least closed set that holds it.
Reach(edges, c) ==
    {d \in Drafts : \A S \in SUBSET Drafts : c \in S /\ Closed(edges, S) => d \in S}

Component(edges, c) == {d \in Reach(edges, c) : c \in Reach(edges, d)}

HardBase(c) == {program.hard[c]} \ {NoBase}
Heritage(c) == HardBase(c) \cup program.soft[c]

\* ClassGraph: what a draft mentions, inherits from or softly inherits from,
\* as far as it is being published here.
Dependencies == [c \in Drafts |-> (program.ordinary[c] \cup Heritage(c)) \cap Drafts]

\* Its heritage edges, and those of the classes' own extends clauses.
HeritageEdges == [c \in Drafts |-> Heritage(c) \cap Drafts]
HardEdges     == [c \in Drafts |-> HardBase(c) \cap Drafts]

(***************************************************************************)
(* One component.                                                          *)
(***************************************************************************)
Pending == {c \in Drafts : state[c] = "pending"}

\* Faulty variant of ReadyComponents: a component need not wait for the
\* components it inherits from.
AnyComponents == {scc[c] : c \in Pending}

ReadyComponents ==
    {C \in {scc[c] : c \in Pending} :
        \A c \in C : Dependencies[c] \cap Pending \subseteq C}

\* Among the ready components, the one with the least ClassId goes first.
GoesFirst(C) == \E c \in C : \A d \in UNION ReadyComponents : id[c] <= id[d]

\* Faulty variant of the next: a cycle of extends clauses alone is let pass.
recoverable_hard_cycle(C) ==
    LET inner == {c \in C : HardBase(c) \cap C # {}}
    IN  inner # {} /\ \A c \in inner : program.hard[c] \in kin[c]

\* Every hard edge inside C lies on a cycle that soft edges close.
has_recoverable_mixed_heritage_cycle(C) ==
    LET inner == {c \in C : HardBase(c) \cap C # {}}
    IN  /\ inner # {}
        /\ \A c \in inner :
             /\ program.hard[c] \in kin[c]
             /\ \E d \in kin[c] : program.soft[d] \cap kin[c] # {}
             /\ \A d \in kin[c] : \A b \in HardBase(d) \cap kin[c] : d \notin Reach(HardEdges, b)

CycleEdges(C) ==
    IF has_recoverable_mixed_heritage_cycle(C) THEN {}
    ELSE {e \in C \X C : e[2] \in HardBase(e[1])}

Poisoned(b) == IF b \in Drafts THEN state[b] \in Origins ELSE b \in Tainted

\* Heritage edges to a base already known to be poisoned.
PoisonedEdges(C) == {e \in C \X Classes : e[2] \in Heritage(e[1]) /\ Poisoned(e[2])}

\* Faulty variant of Owed: only extends clauses of classes are recorded.
OwedHard(kind, edges) ==
    {[kind |-> kind, class |-> e[1], base |-> e[2]] : e \in {f \in edges : f[2] \in HardBase(f[1])}}

Owed(kind, edges) == {[kind |-> kind, class |-> e[1], base |-> e[2]] : e \in edges}

\* Faulty variant of Retained: an edge of a soft cycle is kept whichever
\* way it points in the source.
RetainedAll(c) == Heritage(c) \cap current

\* The bases c has to wait for: of the edges of a cycle, only those to a
\* class declared earlier.
Retained(c) == {b \in Heritage(c) \cap current : b \in kin[c] => b < c}

\* The classes heritage_construction_order may take next.
Constructible == {c \in current \cap Pending : Retained(c) \cap Pending = {}}

BuildGraph ==
    /\ phase = "drafted"
    /\ phase' = "publishing"
    /\ scc' = [c \in Drafts |-> Component(Dependencies, c)]
    /\ kin' = [c \in Drafts |-> Component(HeritageEdges, c)]
    /\ UNCHANGED <<program, id, current, fate, state, instance, statics, obligations>>

\* A heritage cycle poisons the component; only without one are its edges
\* to poisoned bases looked for.
OpenComponent ==
    /\ phase = "publishing" /\ current = {}
    /\ \E C \in ReadyComponents :
        /\ GoesFirst(C)
        /\ current' = C
        /\ IF CycleEdges(C) # {}
           THEN /\ fate' = "cycle"
                /\ obligations' = obligations \cup Owed("cycle", CycleEdges(C))
           ELSE /\ fate' = IF PoisonedEdges(C) # {} THEN "poisoned_base" ELSE "clean"
                /\ obligations' = obligations \cup Owed("poisoned_base", PoisonedEdges(C))
    /\ UNCHANGED <<program, id, phase, scc, kin, state, instance, statics>>

\* Faulty variant of Cause: the component's fate is taken for the reason.
CauseFate(c) ==
    CASE fate # "clean"                       -> fate
      [] "heritage" \in program.origins[c]    -> "heritage"
      [] "initializer" \in program.origins[c] -> "initializer"
      [] "surface" \in program.origins[c]     -> "surface"
      [] OTHER                                -> "published"

\* Why class c cannot be published, the most general reason first.
Cause(c) ==
    CASE fate # "clean" \/ "heritage" \in program.origins[c] -> "heritage"
      [] "initializer" \in program.origins[c]                -> "initializer"
      [] "surface" \in program.origins[c]                    -> "surface"
      [] OTHER                                               -> "published"

Available(b) == IF b \in Drafts THEN state[b] = "published" ELSE b \in Ready

\* A surface the base library has published brings its own members.
InstanceOf(b) == IF b \in Drafts THEN instance[b] ELSE {b}
StaticsOf(b)  == IF b \in Drafts THEN statics[b] ELSE {b}

\* Faulty variant of InstanceBases: the soft bases are left out.
InstanceBasesHard(c) == {b \in HardBase(c) : Available(b)}

\* The bases whose members instances of c get, next to its own, and those
\* that also give it their static side.
InstanceBases(c) == {b \in Heritage(c) : Available(b)}
StaticBases(c)   == {b \in HardBase(c) : Available(b)}

\* Publish or poison class c.  One that is to be published and has a base
\* outside the component without a surface is an error; inside the component
\* such a base is skipped.
Construct(c) ==
    IF Cause(c) = "published" /\ \E b \in Heritage(c) \ current : ~Available(b)
    THEN /\ phase' = "missing_base"
         /\ UNCHANGED <<current, state, instance, statics, obligations>>
    ELSE /\ state' = [state EXCEPT ![c] = Cause(c)]
         /\ obligations' = obligations \cup
              {[kind |-> "origin", class |-> c, base |-> NoBase] : o \in program.origins[c]}
         /\ IF Cause(c) = "published"
            THEN /\ instance' = [instance EXCEPT ![c] =
                      {c} \cup UNION {InstanceOf(b) : b \in InstanceBases(c)}]
                 /\ statics' = [statics EXCEPT ![c] =
                      {c} \cup UNION {StaticsOf(b) : b \in StaticBases(c)}]
            ELSE UNCHANGED <<instance, statics>>
         /\ current' = IF current \cap Pending = {c} THEN {} ELSE current
         /\ UNCHANGED phase

\* Take the earliest class whose bases are done; if there is none, there is
\* no construction order, which is an error too.
ConstructClass ==
    /\ phase = "publishing" /\ current # {}
    /\ IF Constructible = {}
       THEN /\ phase' = "unordered"
            /\ UNCHANGED <<current, state, instance, statics, obligations>>
       ELSE \E c \in Constructible : (\A d \in Constructible : c <= d) /\ Construct(c)
    /\ UNCHANGED <<program, id, scc, kin, fate>>

\* The registry becomes visible, all of it at once, behind the base's.
Publish ==
    /\ phase = "publishing" /\ current = {} /\ ReadyComponents = {}
    /\ phase' = "done"
    /\ UNCHANGED <<program, id, scc, kin, current, fate, state, instance, statics, obligations>>

Next == BuildGraph \/ OpenComponent \/ ConstructClass \/ Publish

Spec == Init /\ [][Next]_vars /\ WF_vars(Next)

(***************************************************************************)
(* Properties.                                                             *)
(***************************************************************************)

\* Every variable keeps its type; in particular a poisoned class carries one
\* of the three causes a demand knows how to report.
TypeOK ==
    /\ phase \in {"drafted", "publishing", "done", "unordered", "missing_base"}
    /\ scc \in [Drafts -> SUBSET Drafts] /\ kin \in [Drafts -> SUBSET Drafts]
    /\ current \subseteq Drafts
    /\ fate \in {"clean", "cycle", "poisoned_base"}
    /\ state \in [Drafts -> {"pending", "published"} \cup Origins]
    /\ instance \in [Drafts -> SUBSET Classes]
    /\ statics \in [Drafts -> SUBSET Classes]
    /\ obligations \subseteq [kind : {"cycle", "poisoned_base", "origin"}, class : Drafts,
                              base : Classes \cup {NoBase}]

\* Following extends clauses from b, interfaces' included, leads back to c.
BackTo(b, c) == b \in Drafts /\ c \in Reach(HeritageEdges, b)

\* A class extends one of its own component, and not as part of a cycle
\* that an interface closes and extends clauses of classes alone do not.
Doomed(C) ==
    \E c \in C : \E b \in HardBase(c) \cap C :
        ~BackTo(b, c) \/ c \in Reach(HardEdges, b)

\* P holds every class that must be poisoned when those in P are.
PoisonClosed(P) ==
    \A c \in Drafts :
        \/ program.origins[c] # {}
        \/ Doomed(scc[c])
        \/ \E d \in scc[c] : Heritage(d) \cap (Tainted \cup (P \ scc[c])) # {}
        => c \in P

\* Which classes end poisoned is the least solution of that rule: it does
\* not depend on the order components are taken in or on how ClassIds were
\* allocated, and no class is poisoned without need or left pending.
PoisonExact ==
    phase = "done" =>
        LET P == {c \in Drafts : state[c] \in Origins}
        IN  /\ PoisonClosed(P)
            /\ \A Q \in SUBSET P : PoisonClosed(Q) => Q = P
            /\ \A c \in Drafts \ P : state[c] = "published"

\* Recovery passes the members of base b on to c: b has a surface and, if
\* the edge is part of a cycle, was declared earlier.
Passes(c, b) == Available(b) /\ (BackTo(b, c) => b < c)

\* What c waits for inside its component, directly or through others.
Awaited(c) ==
    Reach([d \in Drafts |-> {b \in Heritage(d) \cap scc[d] : BackTo(b, d) => b < d}], c)

\* A published class is composed of its own members and the whole surfaces
\* of a set of its bases, the static side of those it extends itself; every
\* base recovery passes on is among them, none is composed from it in turn,
\* and one declared later in a cycle is among them only when the class had
\* to wait for one declared later still.  A poisoned class has no surface.
SurfaceExact ==
    phase = "done" =>
        \A c \in Drafts :
            LET up == Heritage(c) \cap instance[c]
            IN  IF state[c] = "published"
                THEN /\ instance[c] = {c} \cup UNION {InstanceOf(b) : b \in up}
                     /\ statics[c] = {c} \cup UNION {StaticsOf(b) : b \in up \cap HardBase(c)}
                     /\ {b \in Heritage(c) : Passes(c, b)} \subseteq up
                     /\ \A d \in instance[c] \ {c} : c \notin InstanceOf(d)
                     /\ \A b \in up : BackTo(b, c) /\ b > c => \E x \in Awaited(c) : x > b
                ELSE instance[c] = {} /\ statics[c] = {}

\* Every poisoned class is accounted for, by a record of its own or of an
\* extends clause in its component, and a published one by none.
Explained ==
    phase = "done" =>
        \A c \in Drafts :
            state[c] \in Origins <=>
                \E o \in obligations :
                    IF o.kind = "origin" THEN o.class = c ELSE o.class \in scc[c]

\* A base outside the component is complete before anything is composed
\* from it: it is never missing, a published class never has a poisoned one,
\* and it has all of its members, in whatever order components are taken.
BasesComplete ==
    /\ phase # "missing_base"
    /\ \A c \in Drafts : state[c] = "published" =>
         /\ \A b \in Heritage(c) \ scc[c] : Available(b) /\ InstanceOf(b) \subseteq instance[c]
         /\ \A b \in HardBase(c) \ scc[c] : StaticsOf(b) \subseteq statics[c]

\* "Poison propagates dependency-first through each derived heritage edge"
\* (ADR-0008), for the edges that are not part of a heritage cycle.
PoisonPropagates ==
    phase = "done" =>
        \A c \in Drafts : state[c] = "published" =>
            \A b \in Heritage(c) : ~BackTo(b, c) => ~Poisoned(b)

\* Publication ends with a registry: the expect on its result never fires.
EveryClassFinal == <>(phase = "done")
=============================================================================
