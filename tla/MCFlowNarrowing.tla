--------------------------- MODULE MCFlowNarrowing ---------------------------
(***************************************************************************)
(* Units for FlowNarrowing: families of programs, built and executed.      *)
(***************************************************************************)
EXTENDS FlowNarrowing

CONSTANTS Families, Atoms, Conds   \* which programs to take

P == INSTANCE FlowPrograms
G == INSTANCE FlowGraph
S == INSTANCE FlowSemantics

x(i) == <<"x", i>>
y(i) == <<"y", i>>

AtomList ==
    << P!Nothing, P!Assign("x", "string"), P!Assign("x", "null"), P!Assign("x", "other"),
       P!Exit, P!Break(""), P!Continue("") >>
CondList ==
    << P!Opaque, P!Guard(x(7), "string"), P!Guard(x(7), "truthy"), P!Sets("x", "boolean"),
       P!And(P!Guard(x(7), "truthy"), P!Not(P!Guard(x(8), "string"))),
       P!Or(P!Guard(x(7), "null"), P!Sets("x", "string")) >>

Sequence(list) == P!Block(list)

Program(family, a, b, c) ==
    LET null == P!Assign("x", "null")
        l == P!Block(<<P!Use(x(1)), a>>)
        r == P!Block(<<P!Use(x(2)), b>>)
    IN  CASE family = "loop" ->
               Sequence(<<null, P!While(P!Opaque, P!Block(<<P!If(c, l, r), P!Use(x(3))>>)),
                          P!Use(x(4))>>)
          [] family = "nested" ->
               Sequence(<<null, P!While(P!Opaque, P!Block(<<P!While(c, l), r>>)), P!Use(x(3))>>)
          [] family = "twice" ->
               P!Function(P!Block(<<null, P!While(c, l), P!While(P!Opaque, r), P!Use(x(3))>>))
          [] family = "label" ->
               Sequence(<<null,
                 P!Label("l", P!While(P!Opaque,
                   P!Block(<<P!While(c, P!Block(<<P!If(P!Opaque, P!Continue("l"), P!Nothing),
                                                  P!If(P!Opaque, P!Break("l"), a)>>)), r>>))),
                 P!Use(x(3))>>)
          [] family = "switch" ->
               Sequence(<<P!Assign("x", "other"),
                 P!While(c, P!Block(<<
                   P!Switch(y(1), <<P!Case("circle", <<P!Use(y(2)), a>>),
                                    P!Case("computed", <<P!Use(x(1))>>),
                                    P!Case("default", <<P!Use(y(3)), b>>)>>)>>)),
                 P!Use(x(2)), P!Use(y(4))>>)
          [] family = "default" ->
               P!While(c, P!Block(<<
                 P!Switch(y(1), <<P!Case("circle", <<a>>),
                                  P!Case("default", <<P!Use(y(2)), b>>),
                                  P!Case("square", <<>>)>>), P!Use(y(3))>>))
          [] family = "missing" ->
               P!While(c, P!Block(<<
                 P!Switch(y(1), <<P!Case("circle", <<P!Use(y(2)), a>>)>>), P!Use(y(3)), b>>))
          [] family = "branch" ->
               Sequence(<<P!Label("l", P!Block(<<
                            P!If(P!And(P!Guard(y(1), "circle"), c),
                                 P!Block(<<l, P!Break("l")>>), P!Use(y(2))), r>>)),
                          P!Use(x(3)), P!Use(y(3))>>)
          [] family = "logic" ->
               Sequence(<<P!If(P!Or(P!Guard(y(1), "radius"), c), a, b),
                          P!Logical(P!And(P!Guard(x(1), "truthy"),
                                          P!Or(P!Guard(x(2), "null"), P!Guard(x(3), "string")))),
                          P!Logical(P!Coalesce(P!Use(y(2)), P!Assign("y", "null"))),
                          P!Use(x(4)), P!Use(y(3))>>)
          [] family = "unbuilt" ->
               Sequence(<<null, P!Unbuilt(l), r, P!Use(x(3))>>)

UnitOf(program) ==
    LET b == G!Build(program, G!Fresh)
        run == S!Seen(program, "run")
        types == S!Seen(program, "types")
        refs == DOMAIN b.refs \cup {p[1] : p \in run}
    IN  [nodes |-> b.nodes, nested |-> b.nested,
         refs |-> [r \in refs |-> IF r \in DOMAIN b.refs THEN b.refs[r] ELSE START],
         run |-> [r \in refs |-> S!ReadAt(run, r)],
         types |-> [r \in {r \in DOMAIN b.refs : b.refs[r] # UNREACHABLE} |-> S!ReadAt(types, r)]]

(* A break or continue without a label only stands in a loop.              *)
Jumping == {6, 7}
Looped == {"loop", "nested", "twice", "label", "switch", "default", "missing"}

MCUnits ==
    {UnitOf(Program(k[1], AtomList[k[2]], AtomList[k[3]], CondList[k[4]])) :
       k \in {k \in Families \X Atoms \X Atoms \X Conds :
               k[1] \in Looped \/ {k[2], k[3]} \cap Jumping = {}}}

(* The graph of everything that is built shows what the program does.      *)
ASSUME BuiltGraphsCover == "unbuilt" \notin Families => \A u \in Units : GraphCovers(u)

(* Where loops do not nest, no loop lies behind its own entry, and the     *)
(* graph shows no more than the program's paths.                           *)
ASSUME BuiltGraphsExact ==
    "unbuilt" \notin Families => \A u \in Units : u.nested \/ GraphExact(u)

MCValues == P!Universe
MCSymbols == P!Variables
MCDeclared == P!DeclaredTypes
=============================================================================
