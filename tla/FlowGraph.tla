------------------------------ MODULE FlowGraph ------------------------------
(***************************************************************************)
(* build_flow_graph: one pass over the statements that appends flow nodes  *)
(* and moves a cursor.  A builder state b holds the arena, the cursor, the *)
(* enclosing loops, break targets and labels, and where each reference was *)
(* recorded.                                                               *)
(***************************************************************************)
EXTENDS FlowPrograms, SequencesExt

UNREACHABLE == 0
START == 1
NoTarget == 0

Fresh ==
    [nodes |-> <<[kind |-> "start"]>>, cursor |-> START, loops |-> <<>>,
     breaks |-> <<>>, labels |-> <<>>, refs |-> <<>>, nested |-> FALSE]

At(b, n) == [b EXCEPT !.cursor = n]

(* new_flow, leaving the cursor at the new node.                           *)
New(b, node) == [b EXCEPT !.nodes = Append(@, node), !.cursor = Len(b.nodes) + 1]

Record(b, r) == [b EXCEPT !.refs = (r :> b.cursor) @@ @]

(* One branch of a recognised guard, or of none (op = "none").             *)
flow_condition(b, from, s, op, positive) ==
    IF from = UNREACHABLE \/ op = "none" THEN At(b, from)
    ELSE New(b, [kind |-> "cond", symbol |-> s, keep |-> Keep(op, positive),
                 queried |-> op \in Queried, from |-> from])

flow_join(b, antecedents) ==
    LET reachable == antecedents \ {UNREACHABLE}
    IN  IF reachable = {} THEN At(b, UNREACHABLE)
        ELSE IF Cardinality(reachable) = 1 THEN At(b, CHOOSE n \in reachable : TRUE)
        ELSE New(b, [kind |-> "branch", from |-> reachable])

add_back_edge(b, label, edge) ==
    IF edge = UNREACHABLE THEN b
    ELSE [b EXCEPT !.nodes[label].back = Append(@, edge)]

build_flow_assignment(b, s, rhs) ==
    IF b.cursor = UNREACHABLE THEN b
    ELSE New(b, [kind |-> "assign", symbol |-> s, assigned |-> Assigned(s, rhs),
                 resets |-> rhs = "other", from |-> b.cursor])

(* Both continuations of a leaf condition.                                 *)
Leaf(b, s, op) ==
    LET yes == flow_condition(b, b.cursor, s, op, TRUE)
        no  == flow_condition(yes, b.cursor, s, op, FALSE)
    IN  [b |-> no, yes |-> yes.cursor, no |-> no.cursor]

-----------------------------------------------------------------------------
(* Labels and jumps.                                                       *)

allows_continue(stmt) ==
    LET RECURSIVE Loops(_)
        Loops(a) == a.k = "while" \/ (a.k = "label" /\ Loops(a.body))
    IN  Loops(stmt)

(* A new loop becomes the continue target of the labels directly on it.    *)
ClaimLabels(labels, loop) ==
    [i \in DOMAIN labels |->
       IF labels[i].target = NoTarget /\ \A j \in i..Len(labels) : labels[j].allows
       THEN [labels[i] EXCEPT !.target = loop] ELSE labels[i]]

Named(labels, l) == {i \in DOMAIN labels : labels[i].name = l}
Innermost(S) == CHOOSE i \in S : \A j \in S : j <= i

build_flow_break(b, l) ==
    At(CASE l = "" /\ b.breaks # <<>> ->
              [b EXCEPT !.breaks[Len(b.breaks)] = @ \cup {b.cursor}]
         [] l # "" /\ Named(b.labels, l) # {} ->
              [b EXCEPT !.labels[Innermost(Named(b.labels, l))].breaks = @ \cup {b.cursor}]
         [] OTHER -> b, UNREACHABLE)

build_flow_continue(b, l) ==
    LET target == CASE l = "" /\ b.loops # <<>> -> Last(b.loops)
                    [] l # "" /\ Named(b.labels, l) # {} ->
                         b.labels[Innermost(Named(b.labels, l))].target
                    [] OTHER -> NoTarget
    IN  At(IF target = NoTarget THEN b ELSE add_back_edge(b, target, b.cursor), UNREACHABLE)

-----------------------------------------------------------------------------
(* Conditions and statements.                                              *)

clause_terminates(list) ==
    LET RECURSIVE Ends(_)
        Ends(stmts) == /\ stmts # <<>>
                       /\ \/ Last(stmts).k \in {"exit", "break"}
                          \/ Last(stmts).k = "block" /\ Ends(Last(stmts).list)
    IN  Ends(list)

(* Where the body of a switch clause starts when its label matches.        *)
switch_case_entry(b, pre, s, case, literals) ==
    IF case.test = "default"
    THEN FoldSet(LAMBDA lit, acc : flow_condition(acc, acc.cursor, s, lit, FALSE),
                 At(b, pre), literals)
    ELSE flow_condition(b, pre, s, IF case.test = "computed" THEN "none" ELSE case.test, TRUE)

RECURSIVE Build(_, _), Condition(_, _), Clauses(_, _, _, _, _)

BuildAll(list, b) == FoldLeft(LAMBDA acc, a : Build(a, acc), b, list)

(* && and ||: the right operand runs on one branch of the left one, and    *)
(* the other branches of both meet.                                        *)
ShortCircuit(both, l, r) ==
    LET j == flow_join(r.b, IF both THEN {l.no, r.no} ELSE {l.yes, r.yes})
    IN  [b |-> j, yes |-> IF both THEN r.yes ELSE j.cursor,
                  no |-> IF both THEN j.cursor ELSE r.no]
RightOperand(c, both, l) ==
    ShortCircuit(both, l, Condition(c.right, At(l.b, IF both THEN l.yes ELSE l.no)))

(* Two ways to go on, and a condition that tells nothing apart.            *)
Either(l, r) == flow_join(r, {l.cursor, r.cursor})
Unsplit(b) == [b |-> b, yes |-> b.cursor, no |-> b.cursor]

(* ??: the right operand runs or does not.                                 *)
Alternative(c, l) == Unsplit(Either(l, Build(c.right, l)))

Meet(t) == flow_join(t.b, {t.yes, t.no})
Negated(t) == [b |-> t.b, yes |-> t.no, no |-> t.yes]

Condition(c, b) ==
    CASE c.c = "guard" -> Leaf(Record(b, c.ref), c.ref[1], c.op)
      [] c.c = "opaque" -> Leaf(b, "x", "none")
      [] c.c = "sets" -> Leaf(build_flow_assignment(b, c.symbol, c.rhs), c.symbol, "truthy")
      [] c.c = "not" -> Negated(Condition(c.arg, b))
      [] c.c \in {"and", "or"} -> RightOperand(c, c.c = "and", Condition(c.left, b))
      [] c.c = "coalesce" -> Alternative(c, Build(c.left, b))

LoopExit(label, test, body) ==
    flow_join([add_back_edge(body, label, body.cursor) EXCEPT !.loops = Front(@),
                                                              !.breaks = Front(@)],
              {test.no} \cup Last(body.breaks))
LoopBody(a, label, test) ==
    LoopExit(label, test, Build(a.body, [At(test.b, test.yes) EXCEPT !.loops = Append(@, label),
                                                                     !.breaks = Append(@, {})]))
LoopTest(a, b) ==
    LoopBody(a, b.cursor, Condition(a.test, [b EXCEPT !.labels = ClaimLabels(@, b.cursor),
                                                      !.nested = @ \/ b.loops # <<>>]))
build_flow_while(a, b) ==
    IF b.cursor = UNREACHABLE THEN b
    ELSE LoopTest(a, New(b, [kind |-> "loop", pre |-> <<b.cursor>>, back |-> <<>>]))

LabelExit(body) ==
    flow_join([body EXCEPT !.labels = Front(@)], {body.cursor} \cup Last(body.labels).breaks)
build_flow_labeled(a, b) ==
    LabelExit(Build(a.body, [b EXCEPT !.labels = Append(@,
                [name |-> a.label, breaks |-> {}, target |-> NoTarget,
                 allows |-> allows_continue(a.body)])]))

(* The clauses of a switch from the i-th on; fell is where the previous    *)
(* clause falls through from, or UNREACHABLE.                              *)
Literals(a) == {a.cases[j].test : j \in DOMAIN a.cases} \ {"default", "computed"}
NextClause(a, i, pre, body) ==
    Clauses(a, i + 1, pre,
            IF clause_terminates(a.cases[i].list) THEN UNREACHABLE ELSE body.cursor, body)
ClauseBody(a, i, pre, fell, direct) ==
    NextClause(a, i, pre, BuildAll(a.cases[i].list, flow_join(direct, {fell, direct.cursor})))
Clauses(a, i, pre, fell, b) ==
    IF i > Len(a.cases) THEN b
    ELSE ClauseBody(a, i, pre, fell,
                    switch_case_entry(b, pre, a.ref[1], a.cases[i], Literals(a)))

SwitchExit(missed, body) ==
    flow_join([body EXCEPT !.breaks = Front(@)], {body.cursor} \cup Last(body.breaks) \cup missed)
build_flow_switch(a, b) ==
    SwitchExit(IF \E i \in DOMAIN a.cases : a.cases[i].test = "default" THEN {} ELSE {b.cursor},
               Clauses(a, 1, b.cursor, UNREACHABLE,
                       [Record(b, a.ref) EXCEPT !.breaks = Append(@, {})]))

(* A function body or initializer: a fresh flow, restored afterwards.      *)
Outside(b, body) ==
    [body EXCEPT !.cursor = b.cursor, !.loops = b.loops, !.breaks = b.breaks,
                 !.labels = b.labels]
build_flow_boundary(a, b) ==
    Outside(b, Build(a, [At(b, START) EXCEPT !.loops = <<>>, !.breaks = <<>>, !.labels = <<>>]))

Else(a, test, yes) == Either(yes, Build(a.else, At(yes, test.no)))
Then(a, test) == Else(a, test, Build(a.then, At(test.b, test.yes)))
build_flow_if(a, b) == Then(a, Condition(a.test, b))

Build(a, b) ==
    CASE a.k = "use"      -> Record(b, a.ref)
      [] a.k = "assign"   -> build_flow_assignment(b, a.symbol, a.rhs)
      [] a.k = "exit"     -> At(b, UNREACHABLE)
      [] a.k = "block"    -> BuildAll(a.list, b)
      [] a.k = "if"       -> build_flow_if(a, b)
      [] a.k = "while"    -> build_flow_while(a, b)
      [] a.k = "label"    -> build_flow_labeled(a, b)
      [] a.k = "break"    -> build_flow_break(b, a.label)
      [] a.k = "continue" -> build_flow_continue(b, a.label)
      [] a.k = "switch"   -> build_flow_switch(a, b)
      [] a.k = "logical"  -> Meet(Condition(a.test, b))
      [] a.k = "function" -> build_flow_boundary(a.body, b)
      [] a.k = "unbuilt"  -> b
=============================================================================
