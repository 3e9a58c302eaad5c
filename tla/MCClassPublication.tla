-------------------------- MODULE MCClassPublication --------------------------
(***************************************************************************)
(* All graphs of three classes, two classes over a library base, and a     *)
(* cycle of three with a class that one of them waits for.                 *)
(***************************************************************************)
EXTENDS ClassPublication, Sequences

CONSTANTS r, t

Shape(hard, soft, ordinary) == [hard |-> hard, soft |-> soft, ordinary |-> ordinary]

\* What a class may extend and mention: each class in at most one way.
Shapes(targets) ==
    {s \in [hard : targets \cup {NoBase}, soft : SUBSET targets, ordinary : SUBSET targets] :
        s.soft \cap s.ordinary = {} /\ s.hard \notin s.soft \cup s.ordinary}

Assemble(a, b, c, d, origins) ==
    [hard     |-> <<a.hard, b.hard, c.hard, d.hard>>,
     soft     |-> <<a.soft, b.soft, c.soft, d.soft>>,
     ordinary |-> <<a.ordinary, b.ordinary, c.ordinary, d.ordinary>>,
     origins  |-> Append(origins, {})]

Bare == Shape(NoBase, {}, {})

\* Class 1 may also name itself as its base.  At most one class cannot be lowered.
OneOrigin ==
    LET o == {"initializer"} IN {<<{}, {}, {}>>, <<o, {}, {}>>, <<{}, o, {}>>, <<{}, {}, o>>}

Alone ==
    {Assemble(a, b, c, Bare, o) :
        a \in Shapes({2, 3}) \cup {Shape(1, {}, {}), Shape(1, {2}, {}), Shape(1, {}, {2})},
        b \in Shapes({1, 3}), c \in Shapes({1, 2}), o \in OneOrigin}

\* Classes 2 and 3 over the base; class 1 stands alone or mentions them.
OverBase ==
    {Assemble(Shape(NoBase, {}, a), b, c, Bare, <<{}, o, {}>>) :
        a \in {{}, {2}}, b \in Shapes({3, r, t}), c \in Shapes({2, r}),
        o \in {{}, {"heritage"}, {"surface"}, {"surface", "initializer"}}}

\* Interfaces merged with classes 1, 2 and 3 extend each other in a circle;
\* one of them also extends class 4, which mentions some of the others.
Circle ==
    {Assemble(Shape(NoBase, {2} \cup a, {}), Shape(NoBase, {3} \cup b, {}),
              Shape(NoBase, {1} \cup c, {}), Shape(NoBase, {}, d), o) :
        a \in SUBSET {4}, b \in SUBSET {4}, c \in SUBSET {4}, d \in SUBSET {1, 2, 3},
        o \in OneOrigin}

MCPrograms == {Alone, OverBase, Circle}

\* ClassIds in source order, and against it.
MCAllocations == {<<1, 2, 3, 4>>, <<4, 3, 2, 1>>}
=============================================================================
