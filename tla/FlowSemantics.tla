---------------------------- MODULE FlowSemantics ----------------------------
(***************************************************************************)
(* What a program does to one variable: the values it can have wherever it *)
(* is read.  Conditions on other variables, and conditions that are no     *)
(* guard, may go either way.  A guard lets a value through according to    *)
(* Lets: in the "run" reading when the value takes the branch at run time, *)
(* in the "types" reading when narrowing keeps the value's union member.   *)
(* In the latter the token Here travels along, past every guard: narrowing *)
(* a variable to never does not make the code below the guard unreachable. *)
(* A closure is taken to run at any time and to change nothing outside.    *)
(***************************************************************************)
EXTENDS FlowPrograms, SequencesExt

Here == "here"
Lets(q, op, positive) ==
    IF q.reading = "run" THEN Passes(op, positive) ELSE Keep(op, positive) \cup {Here}
Entry(q) == DeclaredTypes[q.symbol] \cup (IF q.reading = "run" THEN {} ELSE {Here})

(* The values after an assignment, where V could be before it.             *)
After(s, rhs, V) == IF V = {} THEN {} ELSE Assigned(s, rhs) \cup (V \cap {Here})

(* What a statement leaves: the values it ends with, its jumps, and the    *)
(* values read at each reference.                                          *)
Outcome(next, jumps, seen) == [next |-> next, jumps |-> jumps, seen |-> seen]
Read(q, r, V) == IF r[1] = q.symbol THEN {r} \X V ELSE {}
Jumps(kind, labels, o) == {j[3] : j \in {i \in o.jumps : i[1] = kind /\ i[2] \in labels}}
Without(kind, labels, o) == {i \in o.jumps : ~(i[1] = kind /\ i[2] \in labels)}

RECURSIVE Exec(_, _, _, _), Test(_, _, _), Iterate(_, _, _, _), Cases(_, _, _, _, _)

(* Statements one after the other, from outcome o.                         *)
ExecAll(list, o, q) ==
    FoldLeft(LAMBDA acc, a : LET n == Exec(a, {}, acc.next, q)
                             IN  Outcome(n.next, acc.jumps \cup n.jumps, acc.seen \cup n.seen),
             o, list)

Test(c, V, q) ==
    CASE c.c = "guard" ->
           IF c.ref[1] # q.symbol THEN [yes |-> V, no |-> V, seen |-> {}]
           ELSE [yes |-> V \cap Lets(q, c.op, TRUE), no |-> V \cap Lets(q, c.op, FALSE),
                 seen |-> Read(q, c.ref, V)]
      [] c.c = "opaque" -> [yes |-> V, no |-> V, seen |-> {}]
      [] c.c = "sets" ->
           IF c.symbol # q.symbol THEN [yes |-> V, no |-> V, seen |-> {}]
           ELSE [yes |-> After(c.symbol, c.rhs, V) \cap Lets(q, "truthy", TRUE),
                 no |-> After(c.symbol, c.rhs, V) \cap Lets(q, "truthy", FALSE), seen |-> {}]
      [] c.c = "not" -> LET a == Test(c.arg, V, q)
                        IN  [yes |-> a.no, no |-> a.yes, seen |-> a.seen]
      [] c.c = "and" -> LET l == Test(c.left, V, q)
                            r == Test(c.right, l.yes, q)
                        IN  [yes |-> r.yes, no |-> l.no \cup r.no, seen |-> l.seen \cup r.seen]
      [] c.c = "or" -> LET l == Test(c.left, V, q)
                           r == Test(c.right, l.no, q)
                       IN  [yes |-> l.yes \cup r.yes, no |-> r.no, seen |-> l.seen \cup r.seen]
      [] c.c = "coalesce" -> LET l == Exec(c.left, {}, V, q)
                                 r == Exec(c.right, {}, l.next, q)
                                 both == l.next \cup r.next
                             IN  [yes |-> both, no |-> both, seen |-> l.seen \cup r.seen]

(* A loop from the values at its head, until no new value comes round.     *)
Iterate(a, names, V, q) ==
    LET t == Test(a.test, V, q)
        o == Exec(a.body, {}, t.yes, q)
        round == V \cup o.next \cup Jumps("continue", names, o)
    IN  IF round # V THEN Iterate(a, names, round, q)
        ELSE Outcome(t.no \cup Jumps("break", {""}, o),
                     {j \in Without("continue", names, o) : ~(j[1] = "break" /\ j[2] = "")},
                     t.seen \cup o.seen)

(* The clauses of a switch entered with V, from the i-th on; o is what the *)
(* clauses before it did.                                                  *)
Cases(a, i, V, o, q) ==
    IF i > Len(a.cases) THEN o
    ELSE LET test == a.cases[i].test
             literals == {a.cases[j].test : j \in DOMAIN a.cases} \ {"default", "computed"}
             direct == IF a.ref[1] # q.symbol \/ test = "computed" THEN V
                       ELSE IF test = "default"
                       THEN {v \in V : \A lit \in literals : v \in Lets(q, lit, FALSE)}
                       ELSE V \cap Lets(q, test, TRUE)
         IN  Cases(a, i + 1, V, ExecAll(a.cases[i].list, [o EXCEPT !.next = @ \cup direct], q), q)

(* names: the labels directly on the statement.                            *)
Exec(a, names, V, q) ==
    CASE a.k = "use" -> Outcome(V, {}, Read(q, a.ref, V))
      [] a.k = "assign" ->
           Outcome(IF a.symbol # q.symbol THEN V ELSE After(a.symbol, a.rhs, V), {}, {})
      [] a.k = "exit" -> Outcome({}, {}, {})
      [] a.k = "block" -> ExecAll(a.list, Outcome(V, {}, {}), q)
      [] a.k = "if" -> LET t == Test(a.test, V, q)
                           y == Exec(a.then, {}, t.yes, q)
                           n == Exec(a.else, {}, t.no, q)
                       IN  Outcome(y.next \cup n.next, y.jumps \cup n.jumps,
                                   t.seen \cup y.seen \cup n.seen)
      [] a.k = "while" -> Iterate(a, names \cup {""}, V, q)
      [] a.k = "label" -> LET o == Exec(a.body, names \cup {a.label}, V, q)
                          IN  Outcome(o.next \cup Jumps("break", {a.label}, o),
                                      Without("break", {a.label}, o), o.seen)
      [] a.k \in {"break", "continue"} -> Outcome({}, {a.k} \X {a.label} \X V, {})
      [] a.k = "switch" ->
           LET o == Cases(a, 1, V, Outcome({}, {}, Read(q, a.ref, V)), q)
               missed == IF \E i \in DOMAIN a.cases : a.cases[i].test = "default"
                         THEN {} ELSE V
           IN  Outcome(o.next \cup Jumps("break", {""}, o) \cup missed,
                       Without("break", {""}, o), o.seen)
      [] a.k = "logical" -> LET t == Test(a.test, V, q)
                            IN  Outcome(t.yes \cup t.no, {}, t.seen)
      [] a.k = "function" ->
           Outcome(V, {}, Exec(a.body, {}, Entry(q), q).seen)
      [] a.k = "unbuilt" -> Iterate([test |-> Opaque, body |-> a.body], {""}, V, q)

(* The values a program can have at each of the references.                *)
Seen(a, reading) ==
    UNION {LET q == [symbol |-> s, reading |-> reading]
           IN  Exec(a, {}, Entry(q), q).seen : s \in Variables}
ReadAt(seen, r) == {p[2] : p \in {p \in seen : p[1] = r}} \ {Here}
=============================================================================
