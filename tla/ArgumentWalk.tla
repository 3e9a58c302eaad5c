----------------------------- MODULE ArgumentWalk -----------------------------
(***************************************************************************)
(* How a call's arguments are walked (checker/calls.rs and expr.rs, with   *)
(* the effect frames of mod.rs and the declaration log of context.rs).     *)
(*                                                                         *)
(* An argument is walked raw, before a signature is selected, then again   *)
(* against the parameter types of every candidate with all effects         *)
(* discarded, and once more against the selected parameters, reporting.    *)
(* Nested calls make that exponential, so raw and discarded walks are      *)
(* memoized for the duration of the outermost call: an entry lists the     *)
(* declaration slots the walk read before writing them and is served while *)
(* they hold the same types; what the walk wrote is replayed.              *)
(*                                                                         *)
(* The checker is sequential.  Each program is checked twice, without the  *)
(* memo and then with it, so that the two outcomes can be compared.        *)
(*                                                                         *)
(* Expressions are records [kind, id, ...]; id stands for the span.  Types *)
(* are tuples; relation, inference and substitution are parameters.        *)
(***************************************************************************)
EXTENDS Naturals, Sequences, FiniteSets, SequencesExt

CONSTANTS
    Programs,           \* calls, with the uses in them that must be reported
    Slots,              \* declaration slots (ValueStorageId)
    FlowNodes,          \* flow nodes other than START
    SlotBudget,         \* ARGUMENT_WALK_SLOT_BUDGET
    BucketBudget,       \* ARGUMENT_WALK_BUCKET_BUDGET
    Assignable(_, _),   \* the relation engine: source, target
    Infer(_, _),        \* type-argument inference: signature, argument types
    Instantiate(_, _)   \* substitution of the inferred argument: signature, type

None   == <<"none">>    \* no type: no context, an unset slot, nothing inferred
Error  == <<"error">>   \* the error type
Never  == <<"never">>
Param  == <<"T">>       \* a signature's type parameter
Fn(p, r) == <<"fn", p, r>>
List(t)  == <<"list", t>>   \* an array
Tuple(t) == <<"tuple", t>>  \* a tuple of one element
Empty    == <<"tuple">>     \* a tuple whose only element was skipped

IsFn(t)   == t[1] = "fn"
IsList(t)  == t[1] = "list"
IsTuple(t) == t[1] = "tuple" /\ Len(t) = 2

VARIABLES
    program,    \* the program being checked
    memoizing,  \* whether argument_walk_environment names an environment
    expected,   \* the outcome without the memo, once known
    now,        \* what the checker does next, or the value it returns
    stack,      \* suspended walks, innermost last
    decl,       \* DeclTypes
    sourced,    \* var slots whose state is VarValueTypeState::Source
    flow,       \* Pass.flow_memo
    log,        \* DECL_OBSERVATIONS since the outermost call opened
    effects,    \* Pass.effect_stack
    rawMemo,    \* Pass.raw_argument_walk_memo
    sourceMemo  \* Pass.contextual_walk_memo

declVars == <<decl, sourced, flow, log>>
memoVars == <<rawMemo, sourceMemo>>
fixed    == <<program, memoizing, expected>>
vars     == <<fixed, now, stack, declVars, effects, memoVars>>

-----------------------------------------------------------------------------
(* Declarations and their observation log.                                 *)

Event(s, before, after, write) ==
    [slot |-> s, before |-> before, after |-> after, write |-> write]
Observe(s) == Event(s, decl[s], decl[s], FALSE)

(* What has been observed since a mark.                                    *)
Since(mark) == SubSeq(log, mark + 1, Len(log))

(* The slots a walk read before it wrote them.                             *)
dependencies(events) ==
    LET First(s) == CHOOSE i \in DOMAIN events :
                        events[i].slot = s /\ \A j \in 1 .. i - 1 : events[j].slot # s
        observed == {events[i].slot : i \in DOMAIN events}
    IN {<<s, events[First(s)].after>> : s \in {t \in observed : ~events[First(t)].write}}

(* The slots a walk left with another type.                                *)
net_writes(events) ==
    LET Of(s) == {i \in DOMAIN events : events[i].slot = s /\ events[i].write}
        written == {events[i].slot : i \in {j \in DOMAIN events : events[j].write}}
        Move(s) == [slot |-> s, before |-> events[Min(Of(s))].before,
                                after |-> events[Max(Of(s))].after]
    IN {w \in {Move(s) : s \in written} : w.before # w.after}

dependencies_hold(reads) == \A r \in reads : decl[r[1]] = r[2]

(* Faulty variant of Put: the write is not observed.                       *)
PutUnobserved(s, ty) == decl' = [decl EXCEPT ![s] = ty] /\ UNCHANGED log

(* DeclTypes::put: a write that changes nothing leaves no trace.           *)
Put(s, ty) ==
    /\ decl' = [decl EXCEPT ![s] = ty]
    /\ log' = IF decl[s] = ty THEN log ELSE Append(log, Event(s, decl[s], ty, TRUE))

(* Adopting a served entry: its dependencies become the enclosing walk's,  *)
(* and its writes are replayed.                                            *)
adopt_memoized_walk(entry) ==
    LET changed == {w \in entry.writes : decl[w.slot] # w.after}
        Read(r) == Event(r[1], r[2], r[2], FALSE)
        Write(w) == Event(w.slot, decl[w.slot], w.after, TRUE)
    IN /\ decl' = [s \in Slots |-> IF \E w \in changed : w.slot = s
                                   THEN (CHOOSE w \in changed : w.slot = s).after ELSE decl[s]]
       /\ log' = log \o SetToSeq({Read(r) : r \in entry.reads})
                     \o SetToSeq({Write(w) : w \in changed})

(* Faulty variant of Undo: the table is restored and the log is not told.  *)
UndoUnobserved(events) == <<>>

(* DeclTypes::restore logs the undo as well.                               *)
Undo(events) ==
    SetToSeq({Event(w.slot, w.after, w.before, TRUE) : w \in net_writes(events)})

-----------------------------------------------------------------------------
(* The two memos: sequences of entries, the oldest first.                  *)

Entry(key, events, ty, seen) ==
    [key |-> key, reads |-> dependencies(events), writes |-> net_writes(events),
     ty |-> ty, seen |-> seen]

(* Faulty variant of Servable: the dependencies are not compared.          *)
ServableAny(memo, key) == {i \in DOMAIN memo : memo[i].key = key}

(* MemoizedWalk::serve, over the bucket of the key.                        *)
Servable(memo, key) ==
    {i \in DOMAIN memo : memo[i].key = key /\ dependencies_hold(memo[i].reads)}
Served(memo, key) == memo[Min(Servable(memo, key))]

(* memoize_walk                                                            *)
Memoize(memo, entry) ==
    IF \/ Cardinality({i \in DOMAIN memo : memo[i].key = entry.key}) >= BucketBudget
       \/ Cardinality(entry.reads) > SlotBudget
       \/ Cardinality(entry.writes) > SlotBudget
    THEN memo ELSE Append(memo, entry)

-----------------------------------------------------------------------------
(* Effects.                                                                *)

Emitted(id) == [effects EXCEPT ![Len(effects)] = Append(@, id)]
Captured    == effects[Len(effects)]
Released    == Front(effects)

Settled     == [state |-> "settled"]
Memoized    == [state |-> "memoized"]
Held(batch) == [state |-> "held", batch |-> batch]

-----------------------------------------------------------------------------
(* Shapes.                                                                 *)

(* contextual_rewalk_candidate_shape: raw walks whose effects are held.    *)
Candidate(e) == e.kind \in {"arrow", "list"}

(* context_can_shape_fresh_literal: sees through a logical expression to   *)
(* the operand that carries its value.                                     *)
CanShape(e, context) ==
    /\ e.kind = "list" \/ (e.kind = "either" /\ e.operand.kind = "list")
    /\ IsList(context) \/ IsTuple(context)

(* should_keep_raw_array_inference_source                                  *)
KeepRaw(e, raw, target) == e.kind = "list" /\ target = List(Param) /\ IsList(raw)

-----------------------------------------------------------------------------
(* The machine: now is either an expression to infer, a value to return to *)
(* the innermost suspended walk, or "resume" when a call moves on.         *)

Walk(e, context) == [op |-> "infer", expr |-> e, context |-> context]
Body(e, p, r)    == [op |-> "body", expr |-> e, param |-> p, ret |-> r]
Source(e, context, raw, retain) ==
    [op |-> "source", expr |-> e, context |-> context, raw |-> raw, retain |-> retain]
Value(ty, seen)  == [op |-> "value", ty |-> ty, seen |-> seen]
Resume           == [op |-> "resume"]

Top     == stack[Len(stack)]
Below   == Front(stack)
Pushed(f) == Append(stack, f)
Depth   == Cardinality({i \in DOMAIN stack : stack[i].frame = "call"})

Inferring(kind) == now.op = "infer" /\ now.expr.kind = kind
Returning(frame) == now.op = "value" /\ stack # <<>> /\ Top.frame = frame

Init ==
    /\ program \in Programs
    /\ memoizing = FALSE /\ expected = [ty |-> None, records |-> <<>>]
    /\ now = Walk(program.call, None)
    /\ stack = <<>>
    /\ decl = [s \in Slots |-> None] /\ sourced = {}
    /\ flow = [n \in FlowNodes |-> [s \in Slots |-> None]]
    /\ log = <<>>
    /\ effects = << <<>> >>
    /\ rawMemo = <<>> /\ sourceMemo = <<>>

(* A literal, or an expression that is wrong whatever surrounds it.        *)
InferLeaf ==
    /\ now.op = "infer" /\ now.expr.kind \in {"literal", "bad"}
    /\ now' = Value(IF now.expr.kind = "bad" THEN Error ELSE now.expr.ty, FALSE)
    /\ effects' = IF now.expr.kind = "bad" THEN Emitted(now.expr.id) ELSE effects
    /\ UNCHANGED <<fixed, stack, declVars, memoVars>>

(* A reference, and a use of it that is wrong for some types.  At START it *)
(* reads the declaration; elsewhere the flow memo may answer, and then the *)
(* declaration is not observed.                                            *)
flow_lookup_cached(e) == IF e.flow \in FlowNodes THEN flow[e.flow][e.slot] ELSE None

InferReference ==
    /\ Inferring("read")
    /\ LET e == now.expr
           Declared == IF decl[e.slot] = None THEN Error ELSE decl[e.slot]
           known == flow_lookup_cached(e) # None
           ty == IF known THEN flow_lookup_cached(e) ELSE Declared
       IN /\ flow' = IF e.flow \in FlowNodes THEN [flow EXCEPT ![e.flow][e.slot] = ty] ELSE flow
          /\ log' = IF known THEN log ELSE Append(log, Observe(e.slot))
          /\ effects' = IF ty \in e.fails THEN Emitted(e.id) ELSE effects
          /\ now' = Value(ty, FALSE)
    /\ UNCHANGED <<fixed, stack, decl, sourced, memoVars>>

InferDeclaration ==
    /\ Inferring("let")
    /\ stack' = Pushed([frame |-> "let", expr |-> now.expr])
    /\ now' = Walk(now.expr.init, None)
    /\ UNCHANGED <<fixed, declVars, effects, memoVars>>

(* A declared type that changes evicts the slot's flow reads.              *)
set_variable_decl_type(s, ty) ==
    /\ decl' = [decl EXCEPT ![s] = ty]
    /\ log' = Append(log, Observe(s)) \o
               (IF decl[s] = ty THEN <<>> ELSE <<Event(s, decl[s], ty, TRUE)>>)
    /\ flow' = IF decl[s] = ty THEN flow
               ELSE [n \in FlowNodes |-> [flow[n] EXCEPT ![s] = None]]

(* publish_variable_decl_type: a var keeps the type of its first walk.     *)
Declare ==
    /\ Returning("let")
    /\ LET s == Top.expr.slot
       IN IF Top.expr.hoisted /\ s \in sourced
          THEN UNCHANGED declVars
          ELSE /\ set_variable_decl_type(s, now.ty)
               /\ sourced' = IF Top.expr.hoisted THEN sourced \cup {s} ELSE sourced
    /\ stack' = Below
    /\ now' = Value(None, FALSE)
    /\ UNCHANGED <<fixed, effects, memoVars>>

(* infer_arrow: without a context the parameter has the error type.        *)
InferArrow ==
    /\ Inferring("arrow")
    /\ now' = Body(now.expr, Error, None)
    /\ UNCHANGED <<fixed, stack, declVars, effects, memoVars>>

(* The parameter is bound; the flow memo is not told.                      *)
EnterBody ==
    /\ now.op = "body"
    /\ Put(now.expr.slot, now.param)
    /\ stack' = Pushed([frame |-> "arrow", expr |-> now.expr, next |-> 1,
                        param |-> now.param, ret |-> now.ret])
    /\ now' = Value(None, FALSE)
    /\ UNCHANGED <<fixed, sourced, flow, effects, memoVars>>

(* The statements of the body, the last of which is its value.             *)
WalkBody ==
    /\ Returning("arrow")
    /\ Top.next <= Len(Top.expr.body)
    /\ stack' = Append(Below, [Top EXCEPT !.next = @ + 1])
    /\ now' = Walk(Top.expr.body[Top.next],
                   IF Top.next = Len(Top.expr.body) THEN Top.ret ELSE None)
    /\ UNCHANGED <<fixed, declVars, effects, memoVars>>

(* finish_arrow_inference: a declared return is an obligation of the body. *)
LeaveBody ==
    /\ Returning("arrow")
    /\ Top.next > Len(Top.expr.body)
    /\ effects' = IF Top.ret # None /\ ~Assignable(now.ty, Top.ret)
                  THEN Emitted(Top.expr.id) ELSE effects
    /\ now' = Value(Fn(Top.param, IF Top.ret = None THEN now.ty ELSE Top.ret), FALSE)
    /\ stack' = Below
    /\ UNCHANGED <<fixed, declVars, memoVars>>

(* infer_array_literal, _as_array and _as_tuple: the context reaches the   *)
(* element; in a tuple an arrow is contextualised by a function type, and  *)
(* skipped if it is generic.                                               *)
InferList ==
    /\ Inferring("list")
    /\ LET e == now.expr.elem
           target == IF IsList(now.context) \/ IsTuple(now.context) THEN now.context[2] ELSE None
           make == IF IsTuple(now.context) THEN "tuple" ELSE "list"
           contextual == e.kind = "arrow" /\ IsFn(target) /\ make = "tuple"
           ret == IF target[3] # Param THEN target[3] ELSE None
       IN IF contextual /\ e.generic
          THEN now' = Value(Empty, FALSE) /\ UNCHANGED stack
          ELSE /\ stack' = Pushed([frame |-> "list", make |-> make])
               /\ now' = IF contextual THEN Body(e, target[2], ret) ELSE Walk(e, target)
    /\ UNCHANGED <<fixed, declVars, effects, memoVars>>

ListDone ==
    /\ Returning("list")
    /\ now' = Value(<<Top.make, now.ty>>, FALSE)
    /\ stack' = Below
    /\ UNCHANGED <<fixed, declVars, effects, memoVars>>

(* Faulty variant of InferEither: the expression itself is inferred again. *)
InferEitherAgain ==
    /\ Inferring("either")
    /\ now' = Walk(now.expr, now.context)
    /\ UNCHANGED <<fixed, stack, declVars, effects, memoVars>>

(* infer_logical hands its context to the operand.                         *)
InferEither ==
    /\ Inferring("either")
    /\ now' = Walk(now.expr.operand, now.context)
    /\ UNCHANGED <<fixed, stack, declVars, effects, memoVars>>

-----------------------------------------------------------------------------
(* infer_contextual_source_after_walked_reporting.                         *)

SourceKey == <<now.expr.id, now.raw, now.context>>
SourceServed == memoizing /\ ~now.retain /\ Servable(sourceMemo, SourceKey) # {}

ServeSource ==
    /\ now.op = "source" /\ SourceServed
    /\ LET entry == Served(sourceMemo, SourceKey)
       IN /\ adopt_memoized_walk(entry)
          /\ now' = Value(entry.ty, entry.seen)
    /\ UNCHANGED <<fixed, stack, sourced, flow, effects, memoVars>>

(* A generic arrow, a context without one signature, or a literal that the *)
(* context cannot shape: the raw type stands.                              *)
Declines ==
    IF now.expr.kind = "arrow" THEN now.expr.generic \/ ~IsFn(now.context)
    ELSE ~CanShape(now.expr, now.context)

DeclineSource ==
    /\ now.op = "source" /\ ~SourceServed /\ Declines
    /\ now' = Value(now.raw, FALSE)
    /\ sourceMemo' = IF memoizing /\ ~now.retain /\ now.expr.kind = "arrow"
                     THEN Memoize(sourceMemo, Entry(SourceKey, <<>>, now.raw, FALSE))
                     ELSE sourceMemo
    /\ UNCHANGED <<fixed, stack, declVars, effects, rawMemo>>

RewalkSource ==
    /\ now.op = "source" /\ ~SourceServed /\ ~Declines
    /\ stack' = Pushed([frame |-> "source", expr |-> now.expr, key |-> SourceKey,
                        retain |-> now.retain, mark |-> Len(log), saved |-> decl])
    /\ effects' = IF now.retain THEN effects ELSE Append(effects, <<>>)
    /\ now' = IF now.expr.kind = "arrow" THEN Body(now.expr, now.context[2], None)
              ELSE Walk(now.expr, now.context)
    /\ UNCHANGED <<fixed, declVars, memoVars>>

SourceRetained ==
    /\ Returning("source") /\ Top.retain
    /\ now' = Value(now.ty, TRUE)
    /\ stack' = Below
    /\ UNCHANGED <<fixed, declVars, effects, memoVars>>

(* Faulty variant of SourceDiscarded: the batch of records stays open.     *)
SourceUnreleased ==
    /\ Returning("source") /\ ~Top.retain
    /\ LET undone == Top.expr.kind = "arrow"
           undo == IF undone THEN Undo(Since(Top.mark)) ELSE <<>>
       IN /\ decl' = IF undone THEN Top.saved ELSE decl
          /\ log' = log \o undo
    /\ stack' = Below
    /\ now' = Value(now.ty, TRUE)
    /\ UNCHANGED <<fixed, sourced, flow, effects, memoVars>>

(* Faulty variant of SourceDiscarded: memoized before it is undone.        *)
SourceMemoizedEarly ==
    /\ Returning("source") /\ ~Top.retain
    /\ LET undone == Top.expr.kind = "arrow"
       IN /\ decl' = IF undone THEN Top.saved ELSE decl
          /\ log' = IF undone THEN log \o Undo(Since(Top.mark)) ELSE log
    /\ sourceMemo' = IF memoizing
                     THEN Memoize(sourceMemo, Entry(Top.key, Since(Top.mark), now.ty, TRUE))
                     ELSE sourceMemo
    /\ effects' = Released
    /\ stack' = Below
    /\ now' = Value(now.ty, TRUE)
    /\ UNCHANGED <<fixed, sourced, flow, rawMemo>>

(* The records are dropped.  The bindings of an arrow are undone; those of *)
(* a literal stay, and the memo replays them.                              *)
SourceDiscarded ==
    /\ Returning("source") /\ ~Top.retain
    /\ LET undone == Top.expr.kind = "arrow"
           undo == IF undone THEN Undo(Since(Top.mark)) ELSE <<>>
       IN /\ decl' = IF undone THEN Top.saved ELSE decl
          /\ log' = log \o undo
          /\ sourceMemo' = IF memoizing
                           THEN LET events == SubSeq(log', Top.mark + 1, Len(log'))
                                IN Memoize(sourceMemo, Entry(Top.key, events, now.ty, TRUE))
                           ELSE sourceMemo
    /\ effects' = Released
    /\ stack' = Below
    /\ now' = Value(now.ty, TRUE)
    /\ UNCHANGED <<fixed, sourced, flow, rawMemo>>

-----------------------------------------------------------------------------
(* infer_call, from its frame's opening to its close.                      *)

At(phase) == now.op = "resume" /\ Top.phase = phase
Arg  == Top.expr.args[Top.i]
More == Top.i <= Len(Top.expr.args)

Moved(f) == stack' = Append(Below, f) /\ now' = Resume

EnterCall ==
    /\ Inferring("call")
    /\ stack' = Pushed([frame |-> "call", expr |-> now.expr, phase |-> "raw", i |-> 1,
                        tys |-> <<>>, held |-> <<>>, sig |-> 1, commit |-> FALSE,
                        inferred |-> <<>>, params |-> <<>>, ret |-> Error])
    /\ now' = Resume
    /\ UNCHANGED <<fixed, declVars, effects, memoVars>>

(* walk_raw_argument: a shape that is never walked again reports in place; *)
(* the records of the others are captured, or the memo answers.            *)
WithArgument(f, ty, walk) ==
    [f EXCEPT !.tys = Append(@, ty), !.held = Append(@, walk), !.i = @ + 1]

RawServed == memoizing /\ Servable(rawMemo, Arg.id) # {}

ServeRaw ==
    /\ At("raw") /\ More /\ Candidate(Arg) /\ RawServed
    /\ LET entry == Served(rawMemo, Arg.id)
       IN /\ adopt_memoized_walk(entry)
          /\ Moved(WithArgument(Top, entry.ty, Memoized))
    /\ UNCHANGED <<fixed, sourced, flow, effects, memoVars>>

WalkRaw ==
    /\ At("raw") /\ More
    /\ Candidate(Arg) => ~RawServed
    /\ stack' = Pushed([frame |-> IF Candidate(Arg) THEN "captured" ELSE "in place",
                        id |-> Arg.id, mark |-> Len(log)])
    /\ effects' = IF Candidate(Arg) THEN Append(effects, <<>>) ELSE effects
    /\ now' = Walk(Arg, None)
    /\ UNCHANGED <<fixed, declVars, memoVars>>

RawInPlace ==
    /\ Returning("in place")
    /\ stack' = Append(Front(Below), WithArgument(Last(Below), now.ty, Settled))
    /\ now' = Resume
    /\ UNCHANGED <<fixed, declVars, effects, memoVars>>

RawCaptured ==
    /\ Returning("captured")
    /\ rawMemo' = IF memoizing THEN Memoize(rawMemo, Entry(Top.id, Since(Top.mark), now.ty, FALSE))
                  ELSE rawMemo
    /\ stack' = Append(Front(Below), WithArgument(Last(Below), now.ty, Held(Captured)))
    /\ effects' = Released
    /\ now' = Resume
    /\ UNCHANGED <<fixed, declVars, sourceMemo>>

(* select_candidate: one signature is instantiated outright; overloads are *)
(* built, tried, and the first that matches is built again to commit.      *)
Build(f, k, commit) ==
    [f EXCEPT !.phase = "build", !.sig = k, !.commit = commit, !.i = 1, !.inferred = <<>>]

SelectCandidate ==
    /\ At("raw") /\ ~More
    /\ Moved(Build(Top, 1, Len(Top.expr.sigs) = 1))
    /\ UNCHANGED <<fixed, declVars, effects, memoVars>>

Signature == Top.expr.sigs[Top.sig]

(* instantiate_signature_candidate: the arguments before the first arrow   *)
(* fix what they can of the parameter types the arguments are walked with. *)
ContextualParams ==
    LET args == Top.expr.args
        arrows == {i \in DOMAIN args : args[i].kind = "arrow"}
        early == Infer(Signature, SubSeq(Top.tys, 1, Min(arrows) - 1))
    IN IF arrows = {} \/ early = None THEN Signature.params
       ELSE Instantiate(Signature, early).params

InferArgument ==
    /\ At("build") /\ Signature.generic /\ More
    /\ LET raw == Top.tys[Top.i]
           targets == ContextualParams
       IN IF Top.i > Len(targets) \/ KeepRaw(Arg, raw, targets[Top.i])
          THEN Moved([Top EXCEPT !.inferred = Append(@, raw), !.i = @ + 1])
          ELSE now' = Source(Arg, targets[Top.i], raw, FALSE) /\ UNCHANGED stack
    /\ UNCHANGED <<fixed, declVars, effects, memoVars>>

ArgumentInferred ==
    /\ Returning("call") /\ Top.phase = "build"
    /\ Moved([Top EXCEPT !.inferred = Append(@, now.ty), !.i = @ + 1])
    /\ UNCHANGED <<fixed, declVars, effects, memoVars>>

CandidateBuilt ==
    /\ At("build")
    /\ Signature.generic => ~More
    /\ LET made == IF Signature.generic
                   THEN Instantiate(Signature, Infer(Signature, Top.inferred)) ELSE Signature
       IN /\ Moved([Top EXCEPT !.phase = IF Top.commit THEN "check" ELSE "trial",
                               !.params = made.params, !.ret = made.ret, !.i = 1])
          /\ effects' = IF Top.commit /\ Len(made.params) # Len(Top.tys)
                        THEN Emitted(Top.expr.id) ELSE effects
    /\ UNCHANGED <<fixed, declVars, memoVars>>

(* try_call_candidate                                                      *)
Mismatch ==
    IF Top.sig < Len(Top.expr.sigs)
    THEN Moved(Build(Top, Top.sig + 1, FALSE)) /\ UNCHANGED effects
    ELSE /\ Moved([Top EXCEPT !.phase = "settle", !.ret = Error])
         /\ effects' = Emitted(Top.expr.id)

TryArity ==
    /\ At("trial") /\ Top.i = 1
    /\ Len(Top.params) # Len(Top.tys)
    /\ Mismatch
    /\ UNCHANGED <<fixed, declVars, memoVars>>

TryArgument ==
    /\ At("trial") /\ Len(Top.params) = Len(Top.tys) /\ More
    /\ now' = Source(Arg, Top.params[Top.i], Top.tys[Top.i], FALSE)
    /\ UNCHANGED <<fixed, stack, declVars, effects, memoVars>>

ArgumentTried ==
    /\ Returning("call") /\ Top.phase = "trial"
    /\ IF Assignable(now.ty, Top.params[Top.i])
       THEN Moved([Top EXCEPT !.i = @ + 1]) /\ UNCHANGED effects
       ELSE Mismatch
    /\ UNCHANGED <<fixed, declVars, memoVars>>

CandidateMatches ==
    /\ At("trial") /\ Len(Top.params) = Len(Top.tys) /\ ~More
    /\ Moved(Build(Top, Top.sig, TRUE))
    /\ UNCHANGED <<fixed, declVars, effects, memoVars>>

(* check_call_arguments: the walk that reports.                            *)
Paired == More /\ Top.i <= Len(Top.params)

CheckArgument ==
    /\ At("check") /\ Paired
    /\ now' = Source(Arg, Top.params[Top.i], Top.tys[Top.i], TRUE)
    /\ UNCHANGED <<fixed, stack, declVars, effects, memoVars>>

(* Faulty variant of Superseded: a walk that saw nothing supersedes too.   *)
SupersededAlways(held, i, seen) == [held EXCEPT ![i] = Settled]

(* If the argument was really walked again, the raw walk's records are     *)
(* superseded.  Nothing is checked after a never parameter.                *)
Superseded(held, i, seen) == IF seen THEN [held EXCEPT ![i] = Settled] ELSE held

ArgumentChecked ==
    /\ Returning("call") /\ Top.phase = "check"
    /\ LET target == Top.params[Top.i]
       IN /\ effects' = IF Assignable(now.ty, target) THEN effects ELSE Emitted(Arg.id)
          /\ Moved([Top EXCEPT !.held = Superseded(@, Top.i, now.seen),
                               !.i = IF target = Never THEN Len(Top.tys) + 1 ELSE @ + 1])
    /\ UNCHANGED <<fixed, declVars, memoVars>>

ArgumentsChecked ==
    /\ At("check") /\ ~Paired
    /\ Moved([Top EXCEPT !.phase = "settle"])
    /\ UNCHANGED <<fixed, declVars, effects, memoVars>>

(* rewalk_memoized_raw_arguments: what the memo answered and nothing       *)
(* superseded is walked after all, for its records.                        *)
Unsettled(f) == {i \in DOMAIN f.held : f.held[i] = Memoized}

Settle ==
    /\ At("settle") /\ Unsettled(Top) # {}
    /\ LET i == Min(Unsettled(Top))
       IN /\ stack' = Pushed([frame |-> "settle", i |-> i])
          /\ now' = Walk(Top.expr.args[i], None)
    /\ effects' = Append(effects, <<>>)
    /\ UNCHANGED <<fixed, declVars, memoVars>>

ArgumentSettled ==
    /\ Returning("settle")
    /\ stack' = Append(Front(Below), [Last(Below) EXCEPT !.held[Top.i] = Held(Captured)])
    /\ effects' = Released
    /\ now' = Resume
    /\ UNCHANGED <<fixed, declVars, memoVars>>

(* The frame closes: what is still held is merged in argument order.  The  *)
(* memos and the log go with the outermost call.                           *)
Batches(held) ==
    FlattenSeq([i \in DOMAIN held |-> IF held[i].state = "held" THEN held[i].batch ELSE <<>>])

CloseCall ==
    /\ At("settle") /\ Unsettled(Top) = {}
    /\ effects' = [effects EXCEPT ![Len(effects)] = @ \o Batches(Top.held)]
    /\ stack' = Below
    /\ now' = Value(Top.ret, FALSE)
    /\ IF Depth = 1
       THEN log' = <<>> /\ rawMemo' = <<>> /\ sourceMemo' = <<>>
       ELSE UNCHANGED <<log, memoVars>>
    /\ UNCHANGED <<fixed, decl, sourced, flow>>

-----------------------------------------------------------------------------

Checked == now.op = "value" /\ stack = <<>>
Outcome == [ty |-> now.ty, records |-> effects[1]]

(* The outcome without the memo is kept, and the program checked afresh.   *)
CheckAgain ==
    /\ Checked /\ ~memoizing
    /\ expected' = Outcome
    /\ memoizing' = TRUE
    /\ now' = Walk(program.call, None)
    /\ decl' = [s \in Slots |-> None] /\ sourced' = {}
    /\ flow' = [n \in FlowNodes |-> [s \in Slots |-> None]]
    /\ effects' = << <<>> >>
    /\ UNCHANGED <<program, stack, log, memoVars>>

Next ==
    \/ InferLeaf \/ InferReference \/ InferDeclaration \/ Declare
    \/ InferArrow \/ EnterBody \/ WalkBody \/ LeaveBody
    \/ InferList \/ ListDone \/ InferEither
    \/ ServeSource \/ DeclineSource \/ RewalkSource \/ SourceRetained \/ SourceDiscarded
    \/ EnterCall \/ ServeRaw \/ WalkRaw \/ RawInPlace \/ RawCaptured
    \/ SelectCandidate \/ InferArgument \/ ArgumentInferred \/ CandidateBuilt
    \/ TryArity \/ TryArgument \/ ArgumentTried \/ CandidateMatches
    \/ CheckArgument \/ ArgumentChecked \/ ArgumentsChecked
    \/ Settle \/ ArgumentSettled \/ CloseCall \/ CheckAgain

Spec == Init /\ [][Next]_vars /\ WF_vars(Next)

-----------------------------------------------------------------------------

(* The frames, the effect batches and the log stay aligned: a walk that    *)
(* captures its effects has a batch of its own, a call's types and held    *)
(* walks go together, and a mark never points past the log.                *)
TypeOK ==
    /\ Len(effects) = 1 + Cardinality({i \in DOMAIN stack :
         \/ stack[i].frame \in {"captured", "settle"}
         \/ stack[i].frame = "source" /\ ~stack[i].retain})
    /\ \A i \in DOMAIN stack :
         /\ stack[i].frame = "call" => Len(stack[i].tys) = Len(stack[i].held)
         /\ stack[i].frame \in {"captured", "source"} => stack[i].mark <= Len(log)
    /\ now.op = "resume" => Top.frame = "call"

(* Replaying the net writes since a mark "on the state the mark was taken  *)
(* in reproduces the current state exactly" (net_writes_since): at any     *)
(* moment of a contextual walk, whatever was written, undone and served in *)
(* it, they are the difference between the saved declarations and those    *)
(* that hold now.                                                          *)
LogReproduces ==
    \A i \in {j \in DOMAIN stack : stack[j].frame = "source"} :
        LET saved == stack[i].saved
        IN {w \in net_writes(Since(stack[i].mark)) : w.slot \in Slots} =
             {[slot |-> s, before |-> saved[s], after |-> decl[s]] :
                s \in {t \in Slots : saved[t] # decl[t]}}

(* What a memo entry will compare (dependencies_since) agrees with what it *)
(* will replay (net_writes_since): at any moment of a walk a slot it read  *)
(* before writing it still has the type it read, or is moved from that     *)
(* type by the net writes, which all end in what the declarations hold.    *)
ReadsAccounted ==
    \A i \in {j \in DOMAIN stack : stack[j].frame \in {"captured", "source"}} :
        LET events == Since(stack[i].mark)
            writes == net_writes(events)
        IN /\ \A w \in writes : w.slot \in Slots => decl[w.slot] = w.after
           /\ \A r \in dependencies(events) :
                r[1] \in Slots => \/ decl[r[1]] = r[2]
                                  \/ \E w \in writes : w.slot = r[1] /\ w.before = r[2]

(* A contextual walk of an arrow that is discarded leaves no declaration   *)
(* behind, and neither does the memo when it answers for that walk: the    *)
(* entry it adds replays nothing.                                          *)
ArrowReplaysNothing ==
    [][Returning("source") /\ ~Top.retain /\ Top.expr.kind = "arrow"
         => /\ decl' = Top.saved
            /\ sourceMemo' # sourceMemo
                 => \A w \in Last(sourceMemo').writes : w.slot \notin Slots]_vars

(* The memo is invisible: a program checked with it gets the type and the  *)
(* records, in the same order, that it gets when every walk is performed.  *)
Transparent == Checked /\ memoizing => Outcome = expected

(* Of all the walks of an argument exactly one reports: a use that is      *)
(* wrong under the types it finally has is reported once, another never.   *)
ReportedOnce ==
    Checked => \A id \in program.leaves :
        Cardinality({i \in DOMAIN effects[1] : effects[1][i] = id}) =
            IF id \in program.owed THEN 1 ELSE 0

(* The descent of infer_expr into nested calls ends, whatever is           *)
(* served and settled: the states Transparent and ReportedOnce speak of    *)
(* are reached by every program.                                           *)
EveryCallChecked == <>(Checked /\ memoizing)
=============================================================================
