---------------------------- MODULE FlowNarrowing ----------------------------
(***************************************************************************)
(* The backward walk that gives a reference its narrowed type.             *)
(*                                                                         *)
(* resolve_narrowed_type walks the flow graph with an explicit stack and a *)
(* per-call scratch; at a loop label it calls resolve_loop_label, which    *)
(* calls it back for every antecedent of the label.  frames is that call   *)
(* stack: a walk, a loop inside it, a walk inside that, and so on.  memo   *)
(* outlives a reference; provisional holds the seeds of the loops being    *)
(* resolved.  References may be resolved in any order, and a declaration   *)
(* may publish its type in between.                                        *)
(***************************************************************************)
EXTENDS Integers, Sequences, FiniteSets

CONSTANTS
    Symbols,    \* the value symbols
    Values,     \* the values types are made of
    AnyType,    \* the un-narrowable top: any, and the error type
    Declared,   \* the type each symbol's declaration publishes
    Late,       \* symbols that are read before their declaration publishes
    Units       \* checked units: the nodes, where references were
                \* recorded, and what a program of that graph does there

ASSUME TypesAssumption ==
    /\ AnyType \notin Values /\ Late \subseteq Symbols
    /\ Declared \in [Symbols -> SUBSET Values]

(* Node 1 is the entry.  Antecedents are nodes of the same unit; no edge   *)
(* leads from unreachable code, only a reference may stand there           *)
(* (location 0).                                                           *)
WellFormed(u) ==
    LET nodes == DOMAIN u.nodes
    IN  /\ IsFiniteSet(nodes) /\ nodes \subseteq Nat \ {0}
        /\ 1 \in nodes /\ u.nodes[1].kind = "start"
        /\ \A n \in nodes :
             LET node == u.nodes[n]
             IN  CASE node.kind = "start"  -> TRUE
                   [] node.kind = "assign" -> node.from \in nodes /\ node.assigned \subseteq Values
                   [] node.kind = "cond"   -> node.from \in nodes
                   [] node.kind = "branch" -> node.from \subseteq nodes
                   [] node.kind = "loop"   -> node.pre \in Seq(nodes) /\ node.back \in Seq(nodes)
                   [] OTHER -> FALSE
        /\ \A r \in DOMAIN u.refs :
             r[1] \in Symbols /\ u.refs[r] \in nodes \cup {0} /\ u.run[r] \subseteq Values

ASSUME UnitsAssumption == \A u \in Units : WellFormed(u)

VARIABLES
    unit,           \* the unit being checked
    declared,       \* symbol -> its declared type so far
    memo,           \* flow_memo: (node, symbol) -> type
    provisional,    \* flow_provisional: (label, symbol) -> seed
    depth,          \* flow_loop_depth
    frames,         \* the call stack
    answer,         \* the last reference resolved and its type
    exhausted       \* whether some narrowing query exhausted

vars == <<unit, declared, memo, provisional, depth, frames, answer, exhausted>>

UNREACHABLE == 0
START == 1
Nodes == unit.nodes
Refs == DOMAIN unit.refs
Type == (SUBSET Values) \cup {{AnyType}}
NoAnswer == [ref |-> <<>>, type |-> {}]

-----------------------------------------------------------------------------
(* Types.                                                                  *)

\* Faulty variant of the next: any is a member like the others.
union_plain(T) == UNION T

(* Interner::union: any and error absorb everything.                       *)
union(T) == IF \E t \in T : AnyType \in t THEN {AnyType} ELSE UNION T

(* narrow: filter the union members; any and error stay as they are.       *)
narrow(t, node) == IF AnyType \in t THEN t ELSE t \cap node.keep

(* narrow_query: a guard that demands a member's shape may exhaust, and    *)
(* then the type before the guard is kept.                                 *)
narrow_query(t, node) ==
    {[type |-> narrow(t, node), exhausted |-> FALSE]}
      \cup (IF node.queried THEN {[type |-> t, exhausted |-> TRUE]} ELSE {})

Put(f, k, t) == [i \in (DOMAIN f) \cup {k} |-> IF i = k THEN t ELSE f[i]]
Drop(f, k) == [i \in (DOMAIN f) \ {k} |-> f[i]]

-----------------------------------------------------------------------------
(* Lookups.                                                                *)

Sentinel(n) == n \in {UNREACHABLE, START}

(* flow_lookup_cached, split in whether it finds the type and which.       *)
Cached(n, s) ==
    Sentinel(n) \/ <<n, s>> \in DOMAIN provisional \/ <<n, s>> \in DOMAIN memo
flow_lookup_cached(n, s) ==
    IF Sentinel(n) THEN declared[s]
    ELSE IF <<n, s>> \in DOMAIN provisional THEN provisional[<<n, s>>] ELSE memo[<<n, s>>]

Top == frames[Len(frames)]
Below == SubSeq(frames, 1, Len(frames) - 1)
Walking == frames # <<>> /\ Top.kind = "walk"
Looping == frames # <<>> /\ Top.kind = "loop"
Node == Top.stack[Len(Top.stack)]
Popped == SubSeq(Top.stack, 1, Len(Top.stack) - 1)

\* Faulty variant of the next: the scratch of the walk is not consulted.
KnownCached(n) == Cached(n, Top.symbol)

(* scratch_or_cached.                                                      *)
Known(n) == n \in DOMAIN Top.scratch \/ Cached(n, Top.symbol)
scratch_or_cached(n) ==
    IF n \in DOMAIN Top.scratch THEN Top.scratch[n] ELSE flow_lookup_cached(n, Top.symbol)

Walk(n, s) == [kind |-> "walk", flow |-> n, symbol |-> s, stack |-> <<n>>, scratch |-> <<>>]

\* Faulty variant of the next: memoised while a loop is being resolved.
flow_set_always(t) ==
    /\ frames' = Append(Below, [Top EXCEPT !.stack = Popped, !.scratch = Put(@, Node, t)])
    /\ memo' = Put(memo, <<Node, Top.symbol>>, t)

(* The node on top of the stack has type t: flow_set, then pop.            *)
flow_set(t) ==
    /\ frames' = Append(Below, [Top EXCEPT !.stack = Popped, !.scratch = Put(@, Node, t)])
    /\ memo' = IF depth = 0 THEN Put(memo, <<Node, Top.symbol>>, t) ELSE memo

(* An antecedent has to be walked first.                                   *)
Push(n) ==
    /\ frames' = Append(Below, [Top EXCEPT !.stack = Append(@, n)])
    /\ memo' = memo

(* The node to be worked out next.  The loop also pops a node that has     *)
(* become known since it was pushed.  None does: only unknown nodes are    *)
(* pushed, and none twice, since every cycle goes through a loop label.    *)
(* Were it otherwise the walk would stop here and never resolve.           *)
Visiting(kind) ==
    /\ Walking /\ Top.stack # <<>> /\ ~Known(Node)
    /\ Nodes[Node].kind = kind

-----------------------------------------------------------------------------
(* Actions.                                                                *)

Init ==
    /\ unit \in Units
    /\ declared = [s \in Symbols |-> IF s \in Late THEN {AnyType} ELSE Declared[s]]
    /\ memo = <<>> /\ provisional = <<>> /\ depth = 0
    /\ frames = <<>> /\ answer = NoAnswer /\ exhausted = FALSE

(* resolve_identifier_type for one reference; a reference the pre-pass did *)
(* not record reads START.                                                 *)
Resolve(r) ==
    LET n == unit.refs[r]
        s == r[1]
    IN  /\ frames = <<>>
        /\ IF Cached(n, s)
           THEN /\ answer' = [ref |-> r, type |-> flow_lookup_cached(n, s)]
                /\ frames' = frames
           ELSE /\ answer' = [ref |-> r, type |-> {}]
                /\ frames' = <<Walk(n, s)>>
        /\ UNCHANGED <<unit, declared, memo, provisional, depth, exhausted>>

VisitAssignment ==
    /\ Visiting("assign")
    /\ LET node == Nodes[Node]
       IN  IF node.symbol = Top.symbol
           THEN flow_set(IF node.resets THEN declared[Top.symbol] ELSE node.assigned)
           ELSE IF Known(node.from) THEN flow_set(scratch_or_cached(node.from))
           ELSE Push(node.from)
    /\ UNCHANGED <<unit, declared, provisional, depth, answer, exhausted>>

VisitCondition ==
    /\ Visiting("cond")
    /\ LET node == Nodes[Node]
       IN  IF ~Known(node.from) THEN Push(node.from) /\ exhausted' = exhausted
           ELSE IF node.symbol # Top.symbol
           THEN flow_set(scratch_or_cached(node.from)) /\ exhausted' = exhausted
           ELSE \E o \in narrow_query(scratch_or_cached(node.from), node) :
                  flow_set(o.type) /\ exhausted' = (exhausted \/ o.exhausted)
    /\ UNCHANGED <<unit, declared, provisional, depth, answer>>

(* The first antecedent, in ascending order, that is not known yet.        *)
Missing(node) == {n \in node.from : ~Known(n)}
Least(S) == CHOOSE n \in S : \A m \in S : n <= m

VisitBranch ==
    /\ Visiting("branch")
    /\ LET node == Nodes[Node]
       IN  IF Missing(node) # {} THEN Push(Least(Missing(node)))
           ELSE flow_set(union({scratch_or_cached(n) : n \in node.from}))
    /\ UNCHANGED <<unit, declared, provisional, depth, answer, exhausted>>

(* Entry of resolve_loop_label: the label is guarded by the declared type  *)
(* while its pre edges are resolved.                                       *)
EnterLoop ==
    /\ Visiting("loop")
    /\ depth' = depth + 1
    /\ provisional' = Put(provisional, <<Node, Top.symbol>>, declared[Top.symbol])
    /\ frames' = Append(frames, [kind |-> "loop", label |-> Node, symbol |-> Top.symbol,
                                 pending |-> Nodes[Node].pre, parts |-> {}, seeded |-> FALSE])
    /\ UNCHANGED <<unit, declared, memo, answer, exhausted>>

(* One antecedent of the label: resolve_narrowed_type answers at once or   *)
(* starts a walk.                                                          *)
Part(f, t) == [f EXCEPT !.pending = Tail(@), !.parts = @ \cup {t}]

LoopPart ==
    /\ Looping /\ Top.pending # <<>>
    /\ LET n == Head(Top.pending)
       IN  frames' = IF Cached(n, Top.symbol)
                     THEN Append(Below, Part(Top, flow_lookup_cached(n, Top.symbol)))
                     ELSE Append(frames, Walk(n, Top.symbol))
    /\ UNCHANGED <<unit, declared, memo, provisional, depth, answer, exhausted>>

(* The union of the pre edges seeds the walks of the back edges.           *)
LoopSeed ==
    /\ Looping /\ Top.pending = <<>> /\ ~Top.seeded
    /\ LET seed == union(Top.parts)
       IN  /\ provisional' = Put(provisional, <<Top.label, Top.symbol>>, seed)
           /\ frames' = Append(Below, [Top EXCEPT !.pending = Nodes[Top.label].back,
                                                  !.parts = {seed}, !.seeded = TRUE])
    /\ UNCHANGED <<unit, declared, memo, depth, answer, exhausted>>

\* Faulty variant of the next: the seed outlives the loop.
LoopDoneSeeded ==
    /\ Looping /\ Top.pending = <<>> /\ Top.seeded
    /\ LET result == union(Top.parts)
           caller == Below[Len(Below)]
       IN  /\ memo' = IF depth = 1 THEN Put(memo, <<Top.label, Top.symbol>>, result) ELSE memo
           /\ frames' = Append(SubSeq(frames, 1, Len(frames) - 2),
                               [caller EXCEPT !.stack = SubSeq(@, 1, Len(@) - 1),
                                              !.scratch = Put(@, Top.label, result)])
    /\ depth' = depth - 1
    /\ UNCHANGED <<unit, declared, provisional, answer, exhausted>>

(* The label is resolved; its type goes to the scratch of the walk that    *)
(* asked, and to the memo when no other loop is in progress.               *)
LoopDone ==
    /\ Looping /\ Top.pending = <<>> /\ Top.seeded
    /\ LET result == union(Top.parts)
           caller == Below[Len(Below)]
       IN  /\ memo' = IF depth = 1 THEN Put(memo, <<Top.label, Top.symbol>>, result) ELSE memo
           /\ frames' = Append(SubSeq(frames, 1, Len(frames) - 2),
                               [caller EXCEPT !.stack = SubSeq(@, 1, Len(@) - 1),
                                              !.scratch = Put(@, Top.label, result)])
    /\ provisional' = Drop(provisional, <<Top.label, Top.symbol>>)
    /\ depth' = depth - 1
    /\ UNCHANGED <<unit, declared, answer, exhausted>>

(* A walk returns to the loop that started it, or answers the reference.   *)
Return ==
    /\ Walking /\ Top.stack = <<>>
    /\ LET t == Top.scratch[Top.flow]
       IN  IF Below = <<>>
           THEN frames' = <<>> /\ answer' = [answer EXCEPT !.type = t]
           ELSE /\ frames' = Append(SubSeq(frames, 1, Len(frames) - 2),
                                    Part(Below[Len(Below)], t))
                /\ answer' = answer
    /\ UNCHANGED <<unit, declared, memo, provisional, depth, exhausted>>

\* Faulty variant of the next: the symbol's memo entries stay.
PublishStale(s) ==
    /\ frames = <<>> /\ declared[s] # Declared[s]
    /\ declared' = [declared EXCEPT ![s] = Declared[s]]
    /\ answer' = NoAnswer
    /\ UNCHANGED <<unit, memo, provisional, depth, frames, exhausted>>

(* A declaration publishes its type; the symbol's memo entries go.         *)
Publish(s) ==
    /\ frames = <<>> /\ declared[s] # Declared[s]
    /\ declared' = [declared EXCEPT ![s] = Declared[s]]
    /\ memo' = [k \in {k \in DOMAIN memo : k[2] # s} |-> memo[k]]
    /\ answer' = NoAnswer
    /\ UNCHANGED <<unit, provisional, depth, frames, exhausted>>

Walks == VisitAssignment \/ VisitCondition \/ VisitBranch \/ EnterLoop
           \/ LoopPart \/ LoopSeed \/ LoopDone \/ Return
Next == (\E r \in Refs : Resolve(r)) \/ (\E s \in Symbols : Publish(s)) \/ Walks

Spec == Init /\ [][Next]_vars
FairSpec == Spec /\ WF_vars(Walks)

-----------------------------------------------------------------------------
(* What flows along a graph.  Value v of symbol s starts at the entry of a *)
(* flow and at assignments, and passes a guard that keeps it.              *)
Starts(u, s, v, n) ==
    \/ Sentinel(n) /\ v \in Declared[s]
    \/ /\ n \in DOMAIN u.nodes /\ u.nodes[n].kind = "assign" /\ u.nodes[n].symbol = s
       /\ v \in (IF u.nodes[n].resets THEN Declared[s] ELSE u.nodes[n].assigned)

Feeds(u, s, v, n) ==
    LET node == u.nodes[n]
    IN  IF n \notin DOMAIN u.nodes THEN {}
        ELSE CASE node.kind = "assign" -> IF node.symbol = s THEN {} ELSE {node.from}
               [] node.kind = "cond"   -> IF node.symbol = s /\ v \notin node.keep THEN {}
                                          ELSE {node.from}
               [] node.kind = "branch" -> node.from
               [] node.kind = "loop"   -> {node.pre[i] : i \in DOMAIN node.pre}
                                            \cup {node.back[i] : i \in DOMAIN node.back}
               [] OTHER -> {}

Locations(u) == {UNREACHABLE} \cup DOMAIN u.nodes

(* Where it gets: a path visits each location at most once.                *)
Arrives(u, s, v) ==
    LET within[k \in Nat] ==
          IF k = 0 THEN {}
          ELSE LET nearer == within[k - 1]
               IN  {n \in Locations(u) : Starts(u, s, v, n) \/ Feeds(u, s, v, n) \cap nearer # {}}
    IN  within[Cardinality(Locations(u))]

(* The graph shows every value the program can have at a reference.        *)
GraphCovers(u) ==
    LET arrives == [s \in Symbols |-> [v \in Values |-> Arrives(u, s, v)]]
    IN  \A r \in DOMAIN u.refs : \A v \in u.run[r] : u.refs[r] \in arrives[r[1]][v]

(* What lies behind the entry of a loop, on any path.                      *)
Antecedents(u, n) ==
    LET node == u.nodes[n]
    IN  CASE node.kind \in {"assign", "cond"} -> {node.from}
          [] node.kind = "branch" -> node.from
          [] node.kind = "loop"   -> {node.pre[i] : i \in DOMAIN node.pre}
                                       \cup {node.back[i] : i \in DOMAIN node.back}
          [] OTHER -> {}

Behind(u, l) ==
    LET pre == u.nodes[l].pre
        within[k \in Nat] ==
          IF k = 0 THEN {pre[i] : i \in DOMAIN pre}
          ELSE LET nearer == within[k - 1]
               IN  nearer \cup UNION {Antecedents(u, n) : n \in nearer}
    IN  within[Cardinality(DOMAIN u.nodes)]

(* Where loops do not nest, no loop lies behind its own entry, and the     *)
(* graph shows exactly the types the paths give.                           *)
GraphExact(u) ==
    LET arrives == [s \in Symbols |-> [v \in Values |-> Arrives(u, s, v)]]
    IN  /\ \A l \in DOMAIN u.nodes : u.nodes[l].kind = "loop" => l \notin Behind(u, l)
        /\ \A r \in DOMAIN u.types :
             /\ r \in DOMAIN u.refs /\ r # <<>>
             /\ u.types[r] = {v \in Values : u.refs[r] \in arrives[r[1]][v]}

-----------------------------------------------------------------------------
(* Properties.                                                             *)

(* Every variable holds a value of its type.                               *)
TypeOK ==
    /\ declared \in [Symbols -> Type]
    /\ \A f \in {memo, provisional} :
         \A k \in DOMAIN f : k \in (DOMAIN Nodes) \X Symbols /\ f[k] \in Type
    /\ depth \in Nat /\ exhausted \in BOOLEAN
    /\ answer = NoAnswer \/ (answer.ref \in Refs /\ answer.type \in Type)
    /\ \A i \in DOMAIN frames :
         /\ frames[i].kind = (IF i % 2 = 1 THEN "walk" ELSE "loop")
         /\ frames[i].symbol = answer.ref[1]
         /\ frames[i].kind = "walk" =>
              /\ \A j \in DOMAIN frames[i].stack : frames[i].stack[j] \in DOMAIN Nodes
              /\ \A n \in DOMAIN frames[i].scratch : frames[i].scratch[n] \in Type

(* A type covers the values of V.                                          *)
Covers(t, V) == AnyType \in t \/ V \subseteq t

(* Narrowing is safe: the type given to a reference contains every value   *)
(* the variable can have there when the program runs, and so does every    *)
(* memoised type a later reference would be given (invariants.md 1: caching *)
(* a pre-loop state across a back edge is a dropped error).                *)
Sound ==
    /\ frames = <<>> /\ answer # NoAnswer => Covers(answer.type, unit.run[answer.ref])
    /\ \A r \in Refs : <<unit.refs[r], r[1]>> \in DOMAIN memo =>
         Covers(memo[<<unit.refs[r], r[1]>>], unit.run[r])

(* Narrowing is as precise as its operations: once the declaration has     *)
(* published and while no query exhausted, a reference outside nested      *)
(* loops gets exactly the union over the paths that reach it, in whatever  *)
(* order references were resolved and declarations published.              *)
Exact ==
    frames = <<>> /\ answer.ref \in DOMAIN unit.types =>
        \/ exhausted \/ unit.nested \/ declared[answer.ref[1]] # Declared[answer.ref[1]]
        \/ answer.type = unit.types[answer.ref]

(* The seeds, the depth that suspends the memo, and the loops on the call  *)
(* stack agree, and no label is resolved inside its own resolution: that   *)
(* is what makes the recursion end.                                        *)
LoopsInFlight ==
    LET loops == {i \in DOMAIN frames : frames[i].kind = "loop"}
    IN  /\ depth = Cardinality(loops)
        /\ DOMAIN provisional = {<<frames[i].label, frames[i].symbol>> : i \in loops}
        /\ \A i, j \in loops : frames[i].label = frames[j].label => i = j

(* Every reference gets its type: the walk ends on every graph.            *)
EveryReferenceResolved == (frames # <<>>) ~> (frames = <<>>)
=============================================================================
