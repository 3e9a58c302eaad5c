--------------------------- MODULE MCRelationEngine ---------------------------
(***************************************************************************)
(* A rule system for RelationEngine: a cycle that fails late (a, b, c); a  *)
(* cycle that holds (d, e), through a generic signature (g) whose parts    *)
(* (h, y, z) are compared under a binder environment and are recursive     *)
(* themselves; same-class pairs with a witnessed argument (c, e); operands *)
(* that need expansion, by an application (n1, n3) or an evaluation (n2,   *)
(* n4) that may meet a substitution cycle and then yields another form;    *)
(* and more class applications than the budget allows (x and y).           *)
(***************************************************************************)
EXTENDS RelationEngine, TLC

CONSTANTS a, b, c, d, e, f, g, h, t, x, y, z,   \* keys
          n1, n2, n3, n4, s1                    \* nodes

MCKeys == {a, b, c, d, e, f, g, h, t, x, y, z}

Must(k)   == [key |-> k, local |-> FALSE, quiet |-> FALSE]
Probe(k)  == [key |-> k, local |-> TRUE,  quiet |-> TRUE]
Shared(k) == [key |-> k, local |-> FALSE, quiet |-> TRUE]

MCRule ==
    a :> << <<Must(b)>>, <<Must(c)>> >> @@
    b :> << <<Probe(f), Probe(a)>> >> @@
    c :> << <<Must(f)>> >> @@
    d :> << <<Probe(f), Probe(e)>>, <<Must(g)>> >> @@
    e :> << <<Must(d)>> >> @@
    f :> << <<>> >> @@
    g :> << <<Must(h)>>, <<Must(y)>> >> @@
    h :> << <<Shared(z), Shared(h)>>, <<Must(y)>> >> @@
    t :> <<>> @@
    x :> << <<Must(d)>> >> @@
    y :> << <<Must(t)>> >> @@
    z :> << <<Must(h)>>, <<>> >>

MCNeeds ==
    [k \in MCKeys |-> CASE k \in {c, y} -> {n1} [] k = d -> {n2} [] k = x -> {n3}
                       [] k = b -> {n4} [] OTHER -> {}]
MCApparent == [k \in MCKeys |-> IF k = f THEN {s1} ELSE {}]
MCGarbled ==
    [k \in MCKeys |-> CASE k \in {d, x} -> f [] k = b -> t [] OTHER -> k]
MCWitness == [k \in MCKeys |-> CASE k = e -> <<d>> [] k = c -> <<f>> [] OTHER -> <<>>]
=============================================================================
