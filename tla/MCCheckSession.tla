---------------------------- MODULE MCCheckSession ----------------------------
(***************************************************************************)
(* A library of three declarations in two files: interface a is read by    *)
(* class b, which is read by value d.  Three workers: two files of one     *)
(* fan-out and one project checked by another call at the same time.       *)
(***************************************************************************)
EXTENDS CheckSession, TLC

CONSTANTS a, b, d, g, x, u, f1, f2, n1, n2, j1, j2, j3, files, project

MCSeeded    == (n1 :> {b}) @@ (n2 :> {})
MCConsumers == (a :> {b}) @@ (b :> {d}) @@ (d :> {}) @@ (g :> {}) @@ (x :> {}) @@ (u :> {})
MCSite      == (a :> {f1}) @@ (b :> {f2}) @@ (d :> {f2}) @@ (g :> {f1}) @@ (x :> {}) @@ (u :> {})
MCCallOf    == (j1 :> files) @@ (j2 :> files) @@ (j3 :> project)

Input(names, uncertain) == [parses |-> TRUE, names |-> names, uncertain |-> uncertain]

\* The fan-out: a file without a collision, one that does not parse, a
\* collision with b; a collision that also adds to the global object, a file
\* that is private without declaring any name.  The other call: a collision,
\* or a name that only adds to the global object.
MCInputs ==
    (j1 :> {Input({}, FALSE), [Input({}, FALSE) EXCEPT !.parses = FALSE], Input({n1}, FALSE)})
    @@ (j2 :> {Input({n1, n2}, FALSE), Input({}, TRUE)})
    @@ (j3 :> {Input({n1}, FALSE), Input({n2}, FALSE)})

\* Nothing; a declaration in a file the schedule may not have loaded; one
\* behind the seeds and one of the project's own; one the plan has not.
MCMutations == {{}, {a}, {d, u}, {x}}
=============================================================================
