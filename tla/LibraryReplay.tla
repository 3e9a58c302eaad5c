---------------------------- MODULE LibraryReplay ----------------------------
(***************************************************************************)
(* How a user project is routed against the frozen default library, and    *)
(* which library declarations a private check has to replay.               *)
(*                                                                         *)
(* A project that declares a global name the library also declares cannot  *)
(* share the library's published types.  Its private check replays only    *)
(* the owners that can be affected: the owners of the colliding names, the *)
(* owners binding turned out to mutate, and whatever consumes any of them. *)
(* Source: base.rs, collision_preflight.rs, library_compiler.rs.           *)
(***************************************************************************)
EXTENDS Integers, FiniteSets

CONSTANTS
    Names,         \* global names a project may declare
    RootNames,     \* names the library declares at its root
    Contributors,  \* names that contribute to the global object
    Planned,       \* library owners the sealed plan knows
    Unplanned,     \* library owners absent from the plan
    UserOwners,    \* owners the project itself adds behind the library's
    GlobalObject,  \* the owner that stands for globalThis
    Seeded,        \* name |-> the owners a declaration of that name seeds
    Consumers,     \* owner |-> the owners that read it
    Site,          \* owner |-> the library files that declare it
    Files          \* library source files

Owners == Planned \cup Unplanned \cup UserOwners

ASSUME PlanAssumption ==
    /\ IsFiniteSet(Owners)
    /\ RootNames \subseteq Names
    /\ Contributors \subseteq Names
    /\ GlobalObject \in Planned
    /\ Seeded \in [Names -> SUBSET Planned]
    /\ Consumers \in [Owners -> SUBSET Planned]
    /\ Site \in [Owners -> SUBSET Files]

(***************************************************************************)
(* The route.  What the preflight needs to know of a project: whether it   *)
(* parses, the global names it declares, and whether it holds syntax that  *)
(* may touch the library without declaring one of its names.               *)
(***************************************************************************)
Projects == [parses : BOOLEAN, names : SUBSET Names, uncertain : BOOLEAN]

\* A syntax error decides first; one reason is enough to go private.
PreflightRoute(p) ==
    IF ~p.parses THEN "parse"
    ELSE IF ~p.uncertain /\ p.names \cap (RootNames \cup Contributors) = {}
         THEN "shared"
         ELSE "private"

(***************************************************************************)
(* The replay schedule.                                                    *)
(***************************************************************************)

\* The owners every declared name puts on the schedule, colliding or not.
SeedOwners(names) ==
    (UNION {Seeded[n] : n \in names})
        \cup (IF names \cap Contributors # {} THEN {GlobalObject} ELSE {})

\* Everything that reads a member of S, directly or through other owners.
close_owners[S \in SUBSET Owners] ==
    LET wider == S \cup UNION {Consumers[o] : o \in S}
    IN  IF wider = S THEN S ELSE close_owners[wider]

\* The files whose declarations the schedule needs.  The global object is
\* rebuilt from the types and asks for no file of its own...
RequiredSources(owners) == UNION {Site[o] : o \in owners \ {GlobalObject}}

\* ...except that a schedule without any other file loads its first one.
SourceOrdinals(owners) ==
    IF RequiredSources(owners) # {} \/ GlobalObject \notin owners
       \/ Site[GlobalObject] = {}
    THEN RequiredSources(owners)
    ELSE {CHOOSE f \in Site[GlobalObject] : TRUE}

\* A mutated library owner must be one the plan knows; owners the project
\* added behind the library's own are not in the plan and need not be.
Authenticated(mutated) == mutated \cap Unplanned = {}

\* Faulty variant of Reclosed: the owners found while binding are checked
\* against the plan and then left out of the closure.
ReclosedWithoutMutations(affected, mutated) == close_owners[affected]

\* The schedule once binding has said what the project really mutates.
Reclosed(affected, mutated) == close_owners[affected \cup mutated]

\* A schedule may run when the files it needs were loaded before binding.
Loadable(affected, loaded) == RequiredSources(affected) \subseteq loaded
=============================================================================
