---------------------------- MODULE FlowPrograms ----------------------------
(***************************************************************************)
(* The programs narrowing is about: values, guards, assignments and the    *)
(* statements that order them.                                             *)
(*                                                                         *)
(* A program is a tree of statements and conditions.  FlowGraph translates *)
(* it to flow nodes the way build_flow_stmt does; FlowSemantics says which *)
(* values a variable can have where it is read.  The two share nothing but *)
(* this tree, so a lost edge of the graph shows up as a value the narrowed *)
(* type does not contain.                                                  *)
(***************************************************************************)
EXTENDS Integers, Sequences, FiniteSets, TLC

-----------------------------------------------------------------------------
(* Values, types and guards.  A type is the set of the values of its union *)
(* members; the members partition the values.                              *)

Str    == {"word", "empty"}
True   == {"true"}
False  == {"false"}
Nul    == {"null"}
Circle == {"circle"}              \* { kind: "circle", radius: number }
Square == {"square"}              \* { kind: "square" }
Shape  == {"round", "angular", "odd"}  \* { kind: string }: circle, square, another

Objects == {Circle, Square, Shape}
Members == {Str, True, False, Nul} \cup Objects
Universe == UNION Members

Variables == {"x", "y"}
DeclaredTypes ==
    [s \in Variables |-> IF s = "x" THEN Str \cup True \cup False \cup Nul
                         ELSE (UNION Objects) \cup Nul]

(* Which union members a branch keeps: filter_union and the narrow_by_...  *)
(* functions.  A member is kept or dropped whole.                          *)
member_keeps(m, op, positive) ==
    CASE op = "string" -> (m = Str) = positive
      [] op = "truthy" -> m \notin (IF positive THEN {Nul, False} ELSE {True} \cup Objects)
      [] op = "null"   -> (m = Nul) = positive
      [] op = "circle" -> m \notin (IF positive THEN {Square} ELSE {Circle})
      [] op = "square" -> m \notin (IF positive THEN {Circle} ELSE {Square})
      [] op = "radius" -> (m = Circle) = positive

Keep(op, positive) == UNION {m \in Members : member_keeps(m, op, positive)}

(* Guards that demand a member's shape through a query, which may exhaust. *)
Queried == {"circle", "square", "radius"}

(* The values for which a guard really takes the branch at run time.       *)
Passes(op, positive) ==
    LET holds == CASE op = "string" -> Str
                   [] op = "truthy" -> {"word"} \cup True \cup UNION Objects
                   [] op = "null"   -> Nul
                   [] op = "circle" -> Circle \cup {"round"}
                   [] op = "square" -> Square \cup {"angular"}
                   [] op = "radius" -> Circle
        \* reading a property of null, or in on a primitive, throws
        throws == CASE op \in {"circle", "square"} -> Nul
                    [] op = "radius" -> Universe \ UNION Objects
                    [] OTHER -> {}
    IN  (IF positive THEN holds ELSE Universe \ holds) \ throws

(* flow_assigned: a literal's widened type, null, or (richer right-hand    *)
(* sides, compound assignments, patterns) a reset to the declared type.    *)
Assigned(s, rhs) ==
    CASE rhs = "string" -> Str
      [] rhs = "boolean" -> True \cup False
      [] rhs = "null" -> Nul
      [] OTHER -> DeclaredTypes[s]

-----------------------------------------------------------------------------
(* Programs.  A reference is a pair of its symbol and its position.        *)

Use(r)             == [k |-> "use", ref |-> r]
Assign(s, rhs)     == [k |-> "assign", symbol |-> s, rhs |-> rhs]
Exit               == [k |-> "exit"]                    \* return, throw
Block(list)        == [k |-> "block", list |-> list]    \* also a sequence expression
If(c, a, b)        == [k |-> "if", test |-> c, then |-> a, else |-> b]  \* also ?:
While(c, a)        == [k |-> "while", test |-> c, body |-> a]
Label(l, a)        == [k |-> "label", label |-> l, body |-> a]
Break(l)           == [k |-> "break", label |-> l]      \* "" without a label
Continue(l)        == [k |-> "continue", label |-> l]
Switch(r, cases)   == [k |-> "switch", ref |-> r, cases |-> cases]  \* on its kind
Case(lit, list)    == [test |-> lit, list |-> list]     \* "default", "computed"
Logical(c)         == [k |-> "logical", test |-> c]     \* &&, ||, ?? as a statement
Function(a)        == [k |-> "function", body |-> a]    \* function, arrow, initializer
Unbuilt(a)         == [k |-> "unbuilt", body |-> a]     \* for, do-while, try
Nothing            == Block(<<>>)

Guard(r, op)       == [c |-> "guard", ref |-> r, op |-> op]
Opaque             == [c |-> "opaque"]                  \* no recognised guard
Sets(s, rhs)       == [c |-> "sets", symbol |-> s, rhs |-> rhs]   \* (x = e) as a test
Not(c)             == [c |-> "not", arg |-> c]
And(a, b)          == [c |-> "and", left |-> a, right |-> b]
Or(a, b)           == [c |-> "or", left |-> a, right |-> b]
Coalesce(a, b)     == [c |-> "coalesce", left |-> a, right |-> b]  \* over statements
=============================================================================
