------------------------- MODULE FlowNarrowingProofs -------------------------
(***************************************************************************)
(* The backward walk over a flow graph, for every graph, however its loops *)
(* nest, and every order of references and publications: it is well typed, *)
(* it never resolves a label inside its own resolution, and the types it   *)
(* gives contain every value that flows to a reference along the graph,    *)
(* and no other where no loop lies behind its own entry.                   *)
(***************************************************************************)
EXTENDS FlowNarrowing, SequenceLemmas, FiniteSetTheorems

(***************************************************************************)
(* Flow with some labels held fixed.  Inside the resolution of the labels  *)
(* L a value arrives at a label of L only if that label is in A, whatever  *)
(* feeds it; elsewhere it starts or is fed.                                *)
(***************************************************************************)
Premise(u, s, v, L, A, X, n) ==
    IF n \in L THEN n \in A
    ELSE Starts(u, s, v, n) \/ Feeds(u, s, v, n) \cap X # {}

Closed(u, s, v, L, A, X) ==
    \A n \in Locations(u) : Premise(u, s, v, L, A, X, n) => n \in X

(* The least closed set: where the value gets.                             *)
Gets(u, s, v, L, A) ==
    {n \in Locations(u) : \A X \in SUBSET Locations(u) : Closed(u, s, v, L, A, X) => n \in X}

LEMMA GetsClosed ==
    ASSUME NEW u, NEW s, NEW v, NEW L, NEW A
    PROVE  Closed(u, s, v, L, A, Gets(u, s, v, L, A))
<1> DEFINE G == Gets(u, s, v, L, A)
<1>1. \A X \in SUBSET Locations(u) : Closed(u, s, v, L, A, X) => G \subseteq X
  BY DEF Gets
<1>2. ASSUME NEW n \in Locations(u), Premise(u, s, v, L, A, G, n)
      PROVE  n \in G
  <2>1. ASSUME NEW X \in SUBSET Locations(u), Closed(u, s, v, L, A, X)
        PROVE  n \in X
    <3>1. G \subseteq X
      BY <1>1, <2>1
    <3> HIDE DEF G
    <3>2. Premise(u, s, v, L, A, X, n)
      BY <1>2, <3>1, Zenon DEF Premise
    <3> QED
      BY <2>1, <3>2, Zenon DEF Closed
  <2> QED
    BY <2>1, Zenon DEF Gets
<1> QED
  BY <1>2, Zenon DEF Closed

LEMMA GetsLeast ==
    ASSUME NEW u, NEW s, NEW v, NEW L, NEW A,
           NEW X \in SUBSET Locations(u), Closed(u, s, v, L, A, X)
    PROVE  Gets(u, s, v, L, A) \subseteq X
BY Zenon DEF Gets

LEMMA GetsBy ==
    ASSUME NEW u, NEW s, NEW v, NEW L, NEW A, NEW n \in Gets(u, s, v, L, A)
    PROVE  Premise(u, s, v, L, A, Gets(u, s, v, L, A), n)
<1> DEFINE G == Gets(u, s, v, L, A)
           H == {m \in G : Premise(u, s, v, L, A, G, m)}
<1>1. Closed(u, s, v, L, A, G)
  BY GetsClosed
<1>2. H \in SUBSET Locations(u)
  BY DEF Gets
<1> HIDE DEF G
<1>3. ASSUME NEW m \in Locations(u), Premise(u, s, v, L, A, H, m)
      PROVE  m \in H
  <2>1. Premise(u, s, v, L, A, G, m)
    BY <1>3, Zenon DEF Premise
  <2> QED
    BY <1>1, <2>1, Zenon DEF Closed
<1>4. Closed(u, s, v, L, A, H)
  <2> HIDE DEF H
  <2> QED
    BY <1>3, Zenon DEF Closed
<1>5. G \subseteq H
  BY <1>2, <1>4, GetsLeast, Zenon DEF G
<1>6. n \in G
  BY DEF G
<1> QED
  BY <1>5, <1>6 DEF G

(* More at the labels of L, more elsewhere.                                *)
LEMMA GetsMonotone ==
    ASSUME NEW u, NEW s, NEW v, NEW L, NEW A, NEW B, A \subseteq B
    PROVE  Gets(u, s, v, L, A) \subseteq Gets(u, s, v, L, B)
<1> DEFINE H == Gets(u, s, v, L, B)
<1>1. Closed(u, s, v, L, B, H)
  BY GetsClosed
<1>2. H \in SUBSET Locations(u)
  BY DEF Gets
<1> HIDE DEF H
<1>3. Closed(u, s, v, L, A, H)
  BY <1>1, Zenon DEF Closed, Premise
<1> QED
  BY <1>2, <1>3, GetsLeast, Zenon DEF H

(* Where a value gets when no label is held.                               *)
Flows(u, s, v) == Gets(u, s, v, {}, {})

(* Holding labels at no more than what flows to them adds nothing.         *)
LEMMA GetsFlows ==
    ASSUME NEW u, NEW s, NEW v, NEW L, NEW A, A \subseteq Flows(u, s, v)
    PROVE  Gets(u, s, v, L, A) \subseteq Flows(u, s, v)
<1> DEFINE H == Flows(u, s, v)
<1>1. Closed(u, s, v, {}, {}, H)
  BY GetsClosed DEF Flows
<1>2. H \in SUBSET Locations(u)
  BY DEF Flows, Gets
<1> HIDE DEF H
<1>3. Closed(u, s, v, L, A, H)
  <2>1. A \subseteq H
    BY DEF H
  <2> QED
  BY <1>1, <2>1, Zenon DEF Closed, Premise
<1> QED
  BY <1>2, <1>3, GetsLeast, Zenon DEF H

(* The step that closes a loop: when no antecedent of a label brings a     *)
(* value while the label itself is held empty, the value does not get to   *)
(* the label at all, not even around the loop.                             *)
LEMMA LoopClosed ==
    ASSUME NEW u, NEW s, NEW v, NEW L, NEW A, A \subseteq L,
           NEW l, l \notin L, ~Starts(u, s, v, l),
           Feeds(u, s, v, l) \cap Gets(u, s, v, L \cup {l}, A) = {}
    PROVE  l \notin Gets(u, s, v, L, A)
<1> DEFINE M == L \cup {l}
           H == Gets(u, s, v, M, A)
<1>1. Closed(u, s, v, M, A, H)
  BY GetsClosed
<1>2. H \in SUBSET Locations(u)
  BY DEF Gets
<1>3. l \notin H
  <2>1. SUFFICES ASSUME l \in H PROVE FALSE
    OBVIOUS
  <2>2. Premise(u, s, v, M, A, H, l)
    BY <2>1, GetsBy
  <2> QED
    BY <2>2, Zenon DEF Premise
<1>4. Feeds(u, s, v, l) \cap H = {}
  OBVIOUS
<1> HIDE DEF H
<1>5. ASSUME NEW n \in Locations(u), Premise(u, s, v, L, A, H, n)
      PROVE  n \in H
  <2>1. n # l
    BY <1>4, <1>5, Zenon DEF Premise
  <2>2. Premise(u, s, v, M, A, H, n)
    BY <1>5, <2>1, Zenon DEF Premise
  <2> QED
    BY <1>1, <2>2, Zenon DEF Closed
<1>6. Closed(u, s, v, L, A, H)
  BY <1>5, Zenon DEF Closed
<1>7. Gets(u, s, v, L, A) \subseteq H
  BY <1>2, <1>6, GetsLeast
<1> QED
  BY <1>3, <1>7

(***************************************************************************)
(* Saturation.  Repeating a monotone step as often as the set has elements *)
(* reaches a fixed point.                                                  *)
(***************************************************************************)
LEMMA Smaller == \A a, b \in Nat : a <= b /\ a # b => a < b
OBVIOUS

LEMMA Saturation ==
    ASSUME NEW S, IsFiniteSet(S), NEW F \in [SUBSET S -> SUBSET S],
           \A X, Y \in SUBSET S : X \subseteq Y => F[X] \subseteq F[Y],
           NEW w, w[0] \in SUBSET S, w[0] \subseteq F[w[0]],
           \A k \in Nat : w[k + 1] = F[w[k]]
    PROVE  /\ F[w[Cardinality(S)]] = w[Cardinality(S)]
           /\ \A k \in Nat : w[k] \in SUBSET S /\ w[k] \subseteq w[k + 1]
<1> DEFINE Right(k) == w[k] \in SUBSET S /\ w[k] \subseteq F[w[k]]
           Grown(k) == F[w[k]] = w[k] \/ Cardinality(F[w[k]]) >= k + 1
           Wrong == {k \in Nat : ~Right(k)}
           Small == {k \in Nat : ~Grown(k)}
           Before == {ss \in Nat \X Nat : ss[1] < ss[2]}
<1>1. IsWellFoundedOn(Before, Nat)
  BY NatLessThanWellFounded, Zenon DEF OpToRel
<1>2. \A x, y \in Nat : <<y, x>> \in Before <=> y < x
  OBVIOUS
<1> HIDE DEF Before
<1>3. \A k \in Nat \ {0} : k - 1 \in Nat /\ k - 1 < k /\ (k - 1) + 1 = k
  OBVIOUS
<1>4. \A k \in Nat \ {0} : w[k] = F[w[k - 1]]
  BY <1>3
<1>5. \A k \in Nat : Right(k)
  <2> SUFFICES ASSUME Wrong # {} PROVE FALSE
    OBVIOUS
  <2>1. PICK k \in Wrong : \A j \in Wrong : ~(<<j, k>> \in Before)
    <3>1. Wrong \subseteq Nat
      OBVIOUS
    <3> HIDE DEF Wrong
    <3> QED
      BY <1>1, <3>1, WFMin
  <2>2. k \in Nat /\ ~Right(k) /\ k # 0
    BY <2>1
  <2>3. Right(k - 1)
    <3>1. k - 1 \in Nat /\ <<k - 1, k>> \in Before
      BY <1>2, <1>3, <2>2
    <3>2. k - 1 \notin Wrong
      BY <2>1, <3>1
    <3> HIDE DEF Right
    <3> QED
      BY <3>1, <3>2
  <2>4. w[k] \in SUBSET S /\ F[w[k - 1]] \subseteq F[w[k]]
    BY <1>4, <2>2, <2>3
  <2> QED
    BY <1>4, <2>2, <2>4
<1> HIDE DEF Right
<1>6. \A k \in Nat : /\ w[k] \in SUBSET S /\ w[k] \subseteq F[w[k]] /\ F[w[k]] \in SUBSET S
  BY <1>5 DEF Right
<1>7. \A X \in SUBSET S : IsFiniteSet(X) /\ Cardinality(X) \in Nat /\ Cardinality(X) <= Cardinality(S)
  BY FS_Subset, FS_CardinalityType
<1>8. \A k \in Nat : Grown(k)
  <2> SUFFICES ASSUME Small # {} PROVE FALSE
    OBVIOUS
  <2>1. PICK k \in Small : \A j \in Small : ~(<<j, k>> \in Before)
    <3>1. Small \subseteq Nat
      OBVIOUS
    <3> HIDE DEF Small
    <3> QED
      BY <1>1, <3>1, WFMin
  <2>2. k \in Nat /\ F[w[k]] # w[k] /\ ~(Cardinality(F[w[k]]) >= k + 1)
    BY <2>1
  <2>3. Cardinality(w[k]) < Cardinality(F[w[k]])
    <3>1. w[k] \subseteq F[w[k]] /\ IsFiniteSet(F[w[k]]) /\ IsFiniteSet(w[k])
      BY <1>6, <1>7, <2>2
    <3>2. Cardinality(w[k]) <= Cardinality(F[w[k]])
      BY <3>1, FS_Subset
    <3>3. Cardinality(w[k]) # Cardinality(F[w[k]])
      BY <2>2, <3>1, FS_Subset
    <3>4. Cardinality(w[k]) \in Nat /\ Cardinality(F[w[k]]) \in Nat
      BY <1>6, <1>7, <2>2
    <3> QED
      BY <3>2, <3>3, <3>4, Smaller, Zenon
  <2>4. CASE k = 0
    BY <1>6, <1>7, <2>2, <2>3, <2>4
  <2>5. CASE k # 0
    <3>1. Grown(k - 1)
      BY <1>2, <1>3, <2>1, <2>2, <2>5
    <3>2. w[k] = F[w[k - 1]] /\ k - 1 \in Nat /\ (k - 1) + 1 = k
      BY <1>3, <1>4, <2>2, <2>5
    <3>3. F[w[k - 1]] # w[k - 1]
      BY <2>2, <3>2
    <3>4. Cardinality(w[k]) >= k
      BY <3>1, <3>2, <3>3
    <3> QED
      BY <1>6, <1>7, <2>2, <2>3, <3>4
  <2> QED
    BY <2>4, <2>5
<1> DEFINE c == Cardinality(S)
<1>9. c \in Nat
  BY FS_CardinalityType
<1>10. F[w[c]] = w[c]
  <2>1. F[w[c]] = w[c] \/ Cardinality(F[w[c]]) >= c + 1
    BY <1>8, <1>9
  <2>2. Cardinality(F[w[c]]) \in Nat /\ Cardinality(F[w[c]]) <= c
    BY <1>6, <1>7, <1>9
  <2> HIDE DEF c
  <2> QED
    BY <1>9, <2>1, <2>2
<1> QED
  BY <1>6, <1>10

(***************************************************************************)
(* What arrives flows.  The recursion of Arrives has a solution: the ends  *)
(* of the paths of at most so many locations.                              *)
(***************************************************************************)
Path(u, s, v, p) ==
    /\ p # <<>> /\ Starts(u, s, v, p[1])
    /\ \A i \in 1..(Len(p) - 1) : p[i] \in Feeds(u, s, v, p[i + 1])

Ends(u, s, v, k) ==
    {n \in Locations(u) : \E p \in Seq(Locations(u)) :
       Path(u, s, v, p) /\ Len(p) <= k /\ p[Len(p)] = n}

LEMMA EndsNone ==
    ASSUME NEW u, NEW s, NEW v
    PROVE  Ends(u, s, v, 0) = {}
<1>1. ASSUME NEW p \in Seq(Locations(u)), p # <<>> PROVE ~(Len(p) <= 0)
  BY <1>1, SeqFacts
<1> QED
  BY <1>1 DEF Ends, Path

Fed(u, s, v, X) == {n \in Locations(u) : Starts(u, s, v, n) \/ Feeds(u, s, v, n) \cap X # {}}

LEMMA EndsStep ==
    ASSUME NEW u, NEW s, NEW v, NEW k \in Nat
    PROVE  Ends(u, s, v, k + 1) = Fed(u, s, v, Ends(u, s, v, k))
<1>1. ASSUME NEW n \in Ends(u, s, v, k + 1), ~Starts(u, s, v, n)
      PROVE  Feeds(u, s, v, n) \cap Ends(u, s, v, k) # {}
  <2>1. PICK p \in Seq(Locations(u)) :
          Path(u, s, v, p) /\ Len(p) <= k + 1 /\ p[Len(p)] = n
    BY <1>1 DEF Ends
  <2>2. p # <<>> /\ Starts(u, s, v, p[1]) /\ Len(p) # 1
    BY <1>1, <2>1 DEF Path
  <2> DEFINE q == SubSeq(p, 1, Len(p) - 1)
  <2>3. /\ q \in Seq(Locations(u)) /\ Len(q) = Len(p) - 1 /\ Len(p) \in Nat \ {0}
        /\ \A i \in 1..(Len(p) - 1) : q[i] = p[i]
    BY <2>2, PopProperties
  <2> HIDE DEF q
  <2>4. Len(q) \in 1..(Len(p) - 1) /\ 1 \in 1..(Len(p) - 1) /\ Len(q) <= k
        /\ Len(q) + 1 = Len(p)
    BY <2>1, <2>2, <2>3
  <2>5. q # <<>>
    BY <2>3, <2>4, SeqFacts
  <2>6. \A i \in 1..(Len(q) - 1) : i \in 1..(Len(p) - 1) /\ i + 1 \in 1..(Len(p) - 1)
    BY <2>3, <2>4
  <2>7. Path(u, s, v, q)
    <3>1. \A i \in 1..(Len(q) - 1) : q[i] = p[i] /\ q[i + 1] = p[i + 1]
      BY <2>3, <2>6
    <3> QED
      BY <2>1, <2>2, <2>3, <2>4, <2>5, <2>6, <3>1 DEF Path
  <2>8. q[Len(q)] \in Feeds(u, s, v, n)
    BY <2>1, <2>3, <2>4 DEF Path
  <2>9. q[Len(q)] \in Locations(u)
    BY <2>3, <2>4, SeqFacts
  <2> QED
    BY <2>3, <2>4, <2>7, <2>8, <2>9 DEF Ends
<1>2. ASSUME NEW n \in Locations(u), Starts(u, s, v, n)
      PROVE  n \in Ends(u, s, v, k + 1)
  <2>1. <<n>> \in Seq(Locations(u)) /\ Len(<<n>>) = 1 /\ <<n>>[1] = n /\ <<n>> # <<>>
    OBVIOUS
  <2>2. Path(u, s, v, <<n>>)
    BY <1>2, <2>1 DEF Path
  <2>3. 1 <= k + 1
    OBVIOUS
  <2> QED
    BY <2>1, <2>2, <2>3 DEF Ends
<1>3. ASSUME NEW n \in Locations(u), NEW m \in Ends(u, s, v, k), m \in Feeds(u, s, v, n)
      PROVE  n \in Ends(u, s, v, k + 1)
  <2>1. PICK p \in Seq(Locations(u)) : Path(u, s, v, p) /\ Len(p) <= k /\ p[Len(p)] = m
    BY DEF Ends
  <2> DEFINE q == Append(p, n)
  <2>2. /\ q \in Seq(Locations(u)) /\ q # <<>> /\ Len(q) = Len(p) + 1
        /\ \A i \in 1..Len(p) : q[i] = p[i]
        /\ q[Len(p) + 1] = n
    BY PushProperties
  <2> HIDE DEF q
  <2>3. p # <<>> /\ Len(p) \in Nat /\ Len(p) # 0
    BY <2>1, SeqFacts DEF Path
  <2>4. ASSUME NEW i \in 1..(Len(q) - 1) PROVE q[i] \in Feeds(u, s, v, q[i + 1])
    <3>1. CASE i = Len(p)
      <4>1. q[i] = m /\ q[i + 1] = n
        BY <2>1, <2>2, <2>3, <3>1
      <4> QED
        BY <1>3, <4>1
    <3>2. CASE i # Len(p)
      <4>1. i \in 1..(Len(p) - 1) /\ i \in 1..Len(p) /\ i + 1 \in 1..Len(p)
        BY <2>2, <2>3, <3>2
      <4>2. q[i] = p[i] /\ q[i + 1] = p[i + 1]
        BY <2>2, <4>1
      <4> QED
        BY <2>1, <4>1, <4>2 DEF Path
    <3> QED
      BY <3>1, <3>2
  <2>5. q[1] = p[1]
    BY <2>2, <2>3
  <2>6. Path(u, s, v, q)
    BY <2>1, <2>2, <2>4, <2>5 DEF Path
  <2>7. Len(q) <= k + 1 /\ q[Len(q)] = n
    BY <2>1, <2>2, <2>3
  <2> QED
    BY <2>2, <2>6, <2>7 DEF Ends
<1>4. Ends(u, s, v, k + 1) \subseteq Locations(u)
  BY DEF Ends
<1> QED
  BY <1>1, <1>2, <1>3, <1>4 DEF Fed

(* So the recursive function is that one, at every bound.                  *)
Nearer(u, s, v, w) ==
    /\ w[0] = {} /\ Arrives(u, s, v) = w[Cardinality(Locations(u))]
    /\ \A k \in Nat : w[k + 1] = Fed(u, s, v, w[k])

LEMMA ArrivesBy ==
    ASSUME NEW u, NEW s, NEW v
    PROVE  \E w : Nearer(u, s, v, w)
<1> DEFINE Solves(f) == f = [k \in Nat |-> IF k = 0 THEN {} ELSE Fed(u, s, v, f[k - 1])]
           g == [k \in Nat |-> Ends(u, s, v, k)]
           within == CHOOSE f : Solves(f)
<1>1. Solves(g)
  <2>1. ASSUME NEW k \in Nat
        PROVE  g[k] = IF k = 0 THEN {} ELSE Fed(u, s, v, g[k - 1])
    <3>1. CASE k = 0
      BY <3>1, EndsNone
    <3>2. CASE k # 0
      <4>1. k - 1 \in Nat /\ k = (k - 1) + 1
        BY <3>2
      <4>2. g[k] = Ends(u, s, v, k) /\ g[k - 1] = Ends(u, s, v, k - 1)
        BY <4>1
      <4>3. \A j \in Nat : Ends(u, s, v, j + 1) = Fed(u, s, v, Ends(u, s, v, j))
        BY EndsStep
      <4>4. Ends(u, s, v, k) = Fed(u, s, v, Ends(u, s, v, k - 1))
        BY <4>1, <4>3
      <4> QED
        BY <3>2, <4>2, <4>4
    <3> QED
      BY <3>1, <3>2
  <2> QED
    BY <2>1
<1>2. Arrives(u, s, v) = within[Cardinality(Locations(u))]
  BY DEF Arrives, Fed
<1> HIDE DEF Solves, g
<1>3. Solves(within)
  BY <1>1
<1> HIDE DEF within
<1>4. /\ within[0] = {}
      /\ \A k \in Nat \ {0} : within[k] = Fed(u, s, v, within[k - 1])
  BY <1>3 DEF Solves
<1>5. \A k \in Nat : k + 1 \in Nat \ {0} /\ (k + 1) - 1 = k
  OBVIOUS
<1>6. \A k \in Nat : within[k + 1] = Fed(u, s, v, within[k])
  BY <1>4, <1>5
<1>7. Nearer(u, s, v, within)
  BY <1>2, <1>4, <1>6 DEF Nearer
<1> QED
  BY <1>7

LEMMA ArrivesFlows ==
    ASSUME NEW u, NEW s, NEW v, IsFiniteSet(Locations(u))
    PROVE  Arrives(u, s, v) = Flows(u, s, v)
<1>0. PICK within : Nearer(u, s, v, within)
  BY ArrivesBy
<1> DEFINE S == Locations(u)
           F == [X \in SUBSET S |-> Fed(u, s, v, X)]
           A == Arrives(u, s, v)
<1>1. /\ within[0] = {} /\ A = within[Cardinality(S)]
      /\ \A k \in Nat : within[k + 1] = Fed(u, s, v, within[k])
  BY <1>0, Zenon DEF Nearer
<1>2. Cardinality(S) \in Nat
  BY FS_CardinalityType
<1>3. \A X : Fed(u, s, v, X) \in SUBSET S
  BY DEF Fed
<1>4. \A X, Y \in SUBSET S : X \subseteq Y => Fed(u, s, v, X) \subseteq Fed(u, s, v, Y)
  BY DEF Fed
<1> HIDE DEF A
<1>5. \A k \in Nat \ {0} : k - 1 \in Nat /\ k - 1 < k /\ (k - 1) + 1 = k
  OBVIOUS
<1>6. \A k \in Nat \ {0} : within[k] = Fed(u, s, v, within[k - 1])
  BY <1>1, <1>5
<1> DEFINE Wrong == {k \in Nat : ~(within[k] \subseteq Flows(u, s, v))}
           Before == {ss \in Nat \X Nat : ss[1] < ss[2]}
<1>7. Wrong = {}
  <2>1. SUFFICES ASSUME Wrong # {} PROVE FALSE
    OBVIOUS
  <2>2. IsWellFoundedOn(Before, Nat)
    BY NatLessThanWellFounded, Zenon DEF OpToRel
  <2>3. \A x, y \in Nat : <<y, x>> \in Before <=> y < x
    OBVIOUS
  <2> HIDE DEF Before
  <2>4. PICK k \in Wrong : \A j \in Wrong : ~(<<j, k>> \in Before)
    <3>1. Wrong \subseteq Nat
      OBVIOUS
    <3> HIDE DEF Wrong
    <3> QED
      BY <2>1, <2>2, <3>1, WFMin
  <2>5. k \in Nat /\ k # 0
    BY <1>1, <2>4
  <2>6. within[k - 1] \subseteq Flows(u, s, v)
    BY <1>5, <2>3, <2>4, <2>5
  <2>7. Fed(u, s, v, within[k - 1]) \subseteq Flows(u, s, v)
    <3>1. Closed(u, s, v, {}, {}, Flows(u, s, v))
      BY GetsClosed DEF Flows
    <3> QED
      BY <2>6, <3>1 DEF Closed, Premise, Fed
  <2> QED
    BY <1>6, <2>4, <2>5, <2>7
<1>8. A \subseteq Flows(u, s, v)
  BY <1>1, <1>2, <1>7
<1>9. \A k \in Nat : within[k] \in SUBSET S
  <2> HIDE DEF S
  <2> QED
    BY <1>1, <1>3, <1>6
<1>10. F[A] = A
  <2>1. F \in [SUBSET S -> SUBSET S] /\ \A X \in SUBSET S : F[X] = Fed(u, s, v, X)
    BY <1>3
  <2>2. IsFiniteSet(S)
    OBVIOUS
  <2> HIDE DEF S, F
  <2>3. \A k \in Nat : within[k + 1] = F[within[k]]
    BY <1>1, <1>9, <2>1
  <2>4. /\ \A X, Y \in SUBSET S : X \subseteq Y => F[X] \subseteq F[Y]
        /\ within[0] \in SUBSET S /\ within[0] \subseteq F[within[0]]
    BY <1>1, <1>4, <2>1
  <2>5. F[within[Cardinality(S)]] = within[Cardinality(S)]
    BY <2>1, <2>2, <2>3, <2>4, Saturation
  <2> QED
    BY <1>1, <2>5
<1>11. A \in SUBSET S
  BY <1>1, <1>2, <1>9
<1>12. Fed(u, s, v, A) = A
  BY <1>10, <1>11
<1>13. Closed(u, s, v, {}, {}, A)
  <2>1. \A n \in S : Starts(u, s, v, n) \/ Feeds(u, s, v, n) \cap A # {} => n \in Fed(u, s, v, A)
    BY DEF Fed
  <2> QED
    BY <1>12, <2>1, Zenon DEF Closed, Premise
<1>14. Flows(u, s, v) \subseteq A
  BY <1>11, <1>13, GetsLeast DEF Flows
<1> QED
  BY <1>8, <1>14 DEF A

(***************************************************************************)
(* The call stack.                                                         *)
(***************************************************************************)
Scratches == UNION {[D -> Type] : D \in SUBSET DOMAIN Nodes}

WalkFrames ==
    [kind : {"walk"}, flow : DOMAIN Nodes, symbol : Symbols,
     stack : Seq(DOMAIN Nodes), scratch : Scratches]
LoopFrames ==
    [kind : {"loop"}, label : (DOMAIN Nodes) \ {START}, symbol : Symbols,
     pending : Seq(DOMAIN Nodes), parts : SUBSET Type, seeded : BOOLEAN]

Frames == WalkFrames \cup LoopFrames

Typed(f) == \A k \in DOMAIN f : k \in (DOMAIN Nodes) \X Symbols /\ f[k] \in Type

Types ==
    /\ unit \in Units
    /\ declared \in [Symbols -> Type]
    /\ \A s \in Symbols : declared[s] \in {Declared[s], {AnyType}}
    /\ Typed(memo) /\ Typed(provisional)
    /\ depth \in Nat /\ exhausted \in BOOLEAN
    /\ answer \in [ref : Refs \cup {<<>>}, type : Type]
    /\ answer = NoAnswer \/ answer.ref \in Refs
    /\ frames # <<>> => answer.ref \in Refs
    /\ frames \in Seq(Frames)

(* Walks and loops alternate.  A walk has its own node at the bottom of    *)
(* its stack until it is worked out, and stands for what was asked of it;  *)
(* a loop is at the label on top of the stack of the walk below.           *)
ShapeAt(u, r, fs, i) ==
    /\ fs[i].kind = (IF i % 2 = 1 THEN "walk" ELSE "loop")
    /\ fs[i].symbol = r[1]
    /\ fs[i].kind = "walk" =>
         /\ IF fs[i].stack = <<>> THEN fs[i].flow \in DOMAIN fs[i].scratch
            ELSE fs[i].stack[1] = fs[i].flow
         /\ IF i = 1 THEN fs[i].flow = u.refs[r]
            ELSE fs[i - 1].pending # <<>> /\ fs[i].flow = Head(fs[i - 1].pending)
    /\ fs[i].kind = "loop" =>
         /\ fs[i - 1].stack # <<>>
         /\ fs[i - 1].stack[Len(fs[i - 1].stack)] = fs[i].label
         /\ u.nodes[fs[i].label].kind = "loop"

Shape == \A i \in 1..Len(frames) : ShapeAt(unit, answer.ref, frames, i)

Structure == Types /\ Shape /\ LoopsInFlight

-----------------------------------------------------------------------------

LEMMA Parity ==
    /\ 1 % 2 = 1 /\ 2 % 2 # 1
    /\ \A i \in Nat : (i + 1) % 2 = 1 <=> i % 2 # 1
OBVIOUS

(* Replacing the top frame, and popping it to replace the next.            *)
LEMMA FramesReplaced ==
    ASSUME frames \in Seq(Frames), frames # <<>>, NEW x \in Frames, frames' = Append(Below, x)
    PROVE  /\ frames' \in Seq(Frames) /\ frames' # <<>> /\ Len(frames') = Len(frames)
           /\ Len(frames) \in Nat \ {0}
           /\ \A i \in 1..(Len(frames) - 1) : frames'[i] = frames[i]
           /\ frames'[Len(frames)] = x
<1>1. /\ Below \in Seq(Frames) /\ Len(Below) = Len(frames) - 1 /\ Len(frames) \in Nat \ {0}
      /\ \A i \in 1..(Len(frames) - 1) : Below[i] = frames[i]
  BY PopProperties DEF Below
<1>2. /\ Append(Below, x) \in Seq(Frames) /\ Append(Below, x) # <<>>
      /\ Len(Append(Below, x)) = Len(Below) + 1
      /\ \A i \in 1..Len(Below) : Append(Below, x)[i] = Below[i]
      /\ Append(Below, x)[Len(Below) + 1] = x
  BY <1>1, PushProperties
<1>3. Len(Below) + 1 = Len(frames)
  BY <1>1
<1> QED
  BY <1>1, <1>2, <1>3, Zenon

Lower == SubSeq(frames, 1, Len(frames) - 2)

LEMMA FramesReturned ==
    ASSUME frames \in Seq(Frames), Len(frames) >= 2, NEW x \in Frames, frames' = Append(Lower, x)
    PROVE  /\ frames' \in Seq(Frames) /\ frames' # <<>> /\ Len(frames') = Len(frames) - 1
           /\ Len(frames) \in Nat
           /\ \A i \in 1..(Len(frames) - 2) : frames'[i] = frames[i]
           /\ frames'[Len(frames) - 1] = x
<1>1. Len(frames) \in Nat /\ \A i \in 1..Len(frames) : frames[i] \in Frames
  BY LenProperties
<1>2. \A i \in 1..(Len(frames) - 2) : frames[i] \in Frames
  BY <1>1
<1>3. /\ Lower \in Seq(Frames)
      /\ Len(Lower) = IF 1 <= Len(frames) - 2 THEN (Len(frames) - 2) - 1 + 1 ELSE 0
      /\ \A i \in 1..((Len(frames) - 2) - 1 + 1) : Lower[i] = frames[1 + i - 1]
  BY <1>1, <1>2, SubSeqProperties DEF Lower
<1>4. Len(Lower) = Len(frames) - 2
  <2>1. \A m \in Nat : m >= 2 => (IF 1 <= m - 2 THEN (m - 2) - 1 + 1 ELSE 0) = m - 2
    OBVIOUS
  <2> QED
    BY <1>1, <1>3, <2>1
<1>5. ASSUME NEW i \in 1..(Len(frames) - 2) PROVE Lower[i] = frames[i]
  <2>1. i \in 1..((Len(frames) - 2) - 1 + 1) /\ 1 + i - 1 = i
    BY <1>1
  <2> QED
    BY <1>3, <2>1
<1>6. /\ Append(Lower, x) \in Seq(Frames) /\ Append(Lower, x) # <<>>
      /\ Len(Append(Lower, x)) = Len(Lower) + 1
      /\ \A i \in 1..Len(Lower) : Append(Lower, x)[i] = Lower[i]
      /\ Append(Lower, x)[Len(Lower) + 1] = x
  BY <1>3, PushProperties
<1>7. Len(Lower) + 1 = Len(frames) - 1
  BY <1>1, <1>4
<1> QED
  BY <1>1, <1>4, <1>5, <1>6, <1>7, Zenon

(* A finite map with one more entry.                                       *)
LEMMA PutProperties ==
    ASSUME NEW f, NEW k, NEW t
    PROVE  /\ DOMAIN Put(f, k, t) = (DOMAIN f) \cup {k}
           /\ Put(f, k, t)[k] = t
           /\ \A i \in (DOMAIN f) \ {k} : Put(f, k, t)[i] = f[i]
BY DEF Put

LEMMA ScratchPut ==
    ASSUME NEW f \in Scratches, NEW n \in DOMAIN Nodes, NEW t \in Type
    PROVE  Put(f, n, t) \in Scratches
<1>1. PICK D \in SUBSET DOMAIN Nodes : f \in [D -> Type]
  BY DEF Scratches
<1>2. Put(f, n, t) \in [D \cup {n} -> Type]
  BY <1>1 DEF Put
<1> QED
  BY <1>2 DEF Scratches

LEMMA ScratchTyped ==
    ASSUME NEW f \in Scratches
    PROVE  DOMAIN f \subseteq DOMAIN Nodes /\ \A n \in DOMAIN f : f[n] \in Type
BY DEF Scratches

LEMMA ScratchEmpty == <<>> \in Scratches /\ DOMAIN <<>> = {}
<1>1. <<>> \in Seq(Type) /\ Len(<<>>) = 0
  BY EmptySeq
<1>2. <<>> \in [{} -> Type]
  BY <1>1, LenProperties
<1> QED
  BY <1>2 DEF Scratches

LEMMA UnionType ==
    ASSUME NEW T \in SUBSET Type
    PROVE  union(T) \in Type
BY DEF union, Type

LEMMA NarrowType ==
    ASSUME NEW t \in Type, NEW node, NEW o \in narrow_query(t, node)
    PROVE  o.type \in Type /\ o.exhausted \in BOOLEAN
<1>1. \/ o = [type |-> narrow(t, node), exhausted |-> FALSE]
      \/ o = [type |-> t, exhausted |-> TRUE]
  BY DEF narrow_query
<1>2. narrow(t, node) \in Type
  BY DEF narrow, Type
<1>3. CASE o = [type |-> narrow(t, node), exhausted |-> FALSE]
  BY <1>2, <1>3, Zenon
<1>4. CASE o = [type |-> t, exhausted |-> TRUE]
  BY <1>4, Zenon
<1> QED
  BY <1>1, <1>3, <1>4

(* What a well-formed unit says of its nodes.                              *)
LEMMA NodeFacts ==
    ASSUME Types
    PROVE  /\ IsFiniteSet(DOMAIN Nodes) /\ DOMAIN Nodes \subseteq Nat \ {0}
           /\ START \in DOMAIN Nodes /\ Nodes[START].kind = "start"
           /\ \A r \in Refs : /\ r[1] \in Symbols /\ unit.refs[r] \in (DOMAIN Nodes) \cup {UNREACHABLE}
                              /\ unit.run[r] \subseteq Values
           /\ \A n \in DOMAIN Nodes :
                /\ Nodes[n].kind = "assign" => Nodes[n].from \in DOMAIN Nodes /\ Nodes[n].assigned \subseteq Values
                /\ Nodes[n].kind = "cond"   => Nodes[n].from \in DOMAIN Nodes
                /\ Nodes[n].kind = "branch" => Nodes[n].from \subseteq DOMAIN Nodes
                /\ Nodes[n].kind = "loop"   => /\ Nodes[n].pre \in Seq(DOMAIN Nodes)
                                              /\ Nodes[n].back \in Seq(DOMAIN Nodes)
<1>1. WellFormed(unit)
  BY UnitsAssumption DEF Types
<1> QED
  BY <1>1 DEF WellFormed, Nodes, Refs, START, UNREACHABLE

LoopsOf(fs) == {i \in 1..Len(fs) : fs[i].kind = "loop"}
LoopsRight(fs, d, prov) ==
    /\ d = Cardinality(LoopsOf(fs))
    /\ DOMAIN prov = {<<fs[i].label, fs[i].symbol>> : i \in LoopsOf(fs)}
    /\ \A i, j \in LoopsOf(fs) : fs[i].label = fs[j].label => i = j

LEMMA LoopsRestated ==
    ASSUME NEW F, frames \in Seq(F)
    PROVE  LoopsInFlight <=> LoopsRight(frames, depth, provisional)
<1>1. DOMAIN frames = 1..Len(frames)
  BY SeqFacts
<1> QED
  BY <1>1, Zenon DEF LoopsInFlight, LoopsRight, LoopsOf

(* Frames that keep the loops, their labels and their symbols.             *)
LEMMA LoopsSame ==
    ASSUME NEW fs, NEW gs, NEW d, NEW prov, NEW prov2, LoopsRight(fs, d, prov),
           DOMAIN prov2 = DOMAIN prov,
           LoopsOf(gs) = LoopsOf(fs),
           \A i \in LoopsOf(fs) : gs[i].label = fs[i].label /\ gs[i].symbol = fs[i].symbol
    PROVE  LoopsRight(gs, d, prov2)
BY DEF LoopsRight

(* The frame at a position, by its kind.                                   *)
LEMMA FrameFacts ==
    ASSUME Types, Shape, NEW i \in 1..Len(frames)
    PROVE  /\ Len(frames) \in Nat /\ frames # <<>>
           /\ frames[i] \in Frames
           /\ frames[i] \in WalkFrames <=> frames[i].kind = "walk"
           /\ frames[i] \in LoopFrames <=> frames[i].kind = "loop"
           /\ frames[i].symbol = answer.ref[1] /\ answer.ref[1] \in Symbols
           /\ frames[i] \in WalkFrames <=> i % 2 = 1
           /\ frames[i] \in LoopFrames <=> i % 2 # 1
<1>1. frames \in Seq(Frames)
  BY DEF Types
<1>2. /\ Len(frames) \in Nat /\ frames[i] \in Frames /\ frames # <<>>
      /\ frames[i] \in WalkFrames \/ frames[i] \in LoopFrames
  BY <1>1, SeqFacts DEF Frames
<1>3. frames[i] \in WalkFrames => frames[i].kind = "walk"
  BY DEF WalkFrames
<1>4. frames[i] \in LoopFrames => frames[i].kind = "loop"
  BY DEF LoopFrames
<1>5. /\ frames[i].kind = IF i % 2 = 1 THEN "walk" ELSE "loop"
      /\ frames[i].symbol = answer.ref[1]
  BY DEF Shape, ShapeAt
<1>6. frames[i].symbol \in Symbols
  BY <1>2 DEF WalkFrames, LoopFrames
<1>7. "walk" # "loop"
  OBVIOUS
<1> QED
  BY <1>2, <1>3, <1>4, <1>5, <1>6, <1>7, Zenon

(* A loop has a walk below it, and a walk that is not at the bottom a loop. *)
LEMMA BelowFacts ==
    ASSUME Types, Shape, NEW i \in 1..Len(frames), i # 1 \/ frames[i].kind = "loop"
    PROVE  /\ i - 1 \in 1..Len(frames) /\ i \in Nat /\ i >= 2
           /\ frames[i] \in LoopFrames => frames[i - 1] \in WalkFrames
           /\ frames[i] \in WalkFrames => frames[i - 1] \in LoopFrames
<1>1. Len(frames) \in Nat
  BY FrameFacts
<1>2. i # 1
  BY FrameFacts, Parity
<1>3. i - 1 \in 1..Len(frames) /\ i \in Nat /\ i >= 2
  BY <1>1, <1>2
<1>4. i % 2 = 1 <=> (i - 1) % 2 # 1
  <2>1. PICK k \in Nat : i = k + 1
    BY <1>3
  <2>2. i - 1 = k
    BY <2>1
  <2> QED
    BY <2>1, <2>2, Parity
<1> QED
  BY <1>3, <1>4, FrameFacts

(* The shape of what stays is kept.                                        *)
LEMMA ShapeKept ==
    ASSUME Types, Shape, unit' = unit, answer'.ref = answer.ref,
           NEW m \in Nat \ {0}, m <= Len(frames) + 1, Len(frames') = m,
           \A i \in 1..(m - 1) : frames'[i] = frames[i],
           ShapeAt(unit, answer.ref, frames', m)
    PROVE  Shape'
<1>1. ASSUME NEW i \in 1..(m - 1)
      PROVE  ShapeAt(unit, answer.ref, frames', i)
  <2>1. i \in 1..Len(frames) /\ Len(frames) \in Nat
    BY SeqFacts DEF Types
  <2>2. frames'[i] = frames[i]
    OBVIOUS
  <2>3. ShapeAt(unit, answer.ref, frames, i)
    BY <2>1 DEF Shape
  <2>4. CASE i = 1
    <3>1. frames[i].kind = "walk"
      BY <2>3, <2>4, Parity DEF ShapeAt
    <3> QED
      BY <2>2, <2>3, <2>4, <3>1 DEF ShapeAt
  <2>5. CASE i # 1
    <3>1. frames'[i - 1] = frames[i - 1]
      BY <2>1, <2>5
    <3> QED
      BY <2>2, <2>3, <3>1 DEF ShapeAt
  <2> QED
    BY <2>4, <2>5
<1>2. ASSUME NEW i \in 1..m
      PROVE  ShapeAt(unit, answer.ref, frames', i)
  BY <1>1
<1> QED
  BY <1>2 DEF Shape

(* Working out a node or pushing one: only the top walk changes.           *)
LEMMA WalkStep ==
    ASSUME Structure, Walking, unit' = unit, answer' = answer, UNCHANGED <<depth, provisional>>,
           NEW stack \in Seq(DOMAIN Nodes), NEW scratch \in Scratches,
           IF stack = <<>> THEN Top.flow \in DOMAIN scratch ELSE stack[1] = Top.flow,
           frames' = Append(Below, [Top EXCEPT !.stack = stack, !.scratch = scratch])
    PROVE  /\ frames' \in Seq(Frames) /\ Len(frames') = Len(frames) /\ frames' # <<>>
           /\ \A i \in 1..(Len(frames) - 1) : frames'[i] = frames[i]
           /\ frames'[Len(frames)] = [Top EXCEPT !.stack = stack, !.scratch = scratch]
           /\ Len(frames) \in Nat \ {0}
           /\ Shape' /\ LoopsInFlight'
<1> DEFINE K == Len(frames)
           new == [Top EXCEPT !.stack = stack, !.scratch = scratch]
<1>1. frames # <<>> /\ K \in 1..K /\ K \in Nat \ {0} /\ frames \in Seq(Frames)
  BY SeqFacts DEF Structure, Types, Walking
<1>2. Top \in WalkFrames /\ Top = frames[K]
  BY <1>1, FrameFacts DEF Structure, Walking, Top
<1>3. /\ new \in WalkFrames /\ new.flow = Top.flow /\ new.stack = stack /\ new.scratch = scratch
      /\ new.kind = "walk" /\ new.symbol = Top.symbol /\ Top.kind = "walk"
  BY <1>2 DEF WalkFrames
<1> HIDE DEF new
<1>4. frames' = Append(Below, new)
  BY DEF new
<1>5. /\ frames' \in Seq(Frames) /\ frames' # <<>> /\ Len(frames') = K
      /\ \A i \in 1..(K - 1) : frames'[i] = frames[i]
      /\ frames'[K] = new
  <2>1. new \in Frames
    BY <1>3 DEF Frames
  <2> QED
    BY <1>1, <1>4, <2>1, FramesReplaced
<1>6. ShapeAt(unit, answer.ref, frames', K)
  <2>1. ShapeAt(unit, answer.ref, frames, K)
    BY <1>1 DEF Structure, Shape
  <2>2. K # 1 => frames'[K - 1] = frames[K - 1]
    BY <1>1, <1>5
  <2>3. "walk" # "loop"
    OBVIOUS
  <2>4. /\ new.kind = (IF K % 2 = 1 THEN "walk" ELSE "loop") /\ new.symbol = answer.ref[1]
        /\ IF new.stack = <<>> THEN new.flow \in DOMAIN new.scratch ELSE new.stack[1] = new.flow
        /\ IF K = 1 THEN new.flow = unit.refs[answer.ref]
           ELSE frames'[K - 1].pending # <<>> /\ new.flow = Head(frames'[K - 1].pending)
    BY <1>2, <1>3, <2>1, <2>2 DEF ShapeAt
  <2> QED
    BY <1>3, <1>5, <2>3, <2>4, Zenon DEF ShapeAt
<1>7. Shape'
  <2>1. K <= Len(frames) + 1 /\ answer'.ref = answer.ref
    BY <1>1
  <2> QED
    BY <1>1, <1>5, <1>6, <2>1, ShapeKept DEF Structure
<1>8. LoopsInFlight'
  <2>1. \A i \in 1..K : frames'[i].kind = frames[i].kind /\ (i = K \/ frames'[i] = frames[i])
    <3>1. \A i \in 1..K : i = K \/ i \in 1..(K - 1)
      BY <1>1
    <3> QED
      BY <1>2, <1>3, <1>5, <3>1
  <2>2. LoopsOf(frames') = LoopsOf(frames)
    BY <1>5, <2>1 DEF LoopsOf
  <2>3. \A i \in LoopsOf(frames) : frames'[i] = frames[i]
    BY <1>2, <1>3, <2>1 DEF LoopsOf
  <2>4. LoopsRight(frames, depth, provisional)
    BY <1>1, LoopsRestated DEF Structure
  <2>5. LoopsRight(frames', depth, provisional')
    BY <2>2, <2>3, <2>4, LoopsSame
  <2>6. DOMAIN frames' = 1..Len(frames')
    BY <1>5, SeqFacts
  <2> QED
    BY <2>5, <2>6 DEF LoopsInFlight, LoopsRight, LoopsOf
<1> QED
  BY <1>1, <1>5, <1>7, <1>8 DEF new

(* The walk on top.                                                        *)
LEMMA WalkTop ==
    ASSUME Structure, Walking
    PROVE  /\ frames # <<>> /\ Len(frames) \in Nat \ {0} /\ Len(frames) \in 1..Len(frames)
           /\ Top = frames[Len(frames)] /\ Top \in WalkFrames
           /\ Top.stack \in Seq(DOMAIN Nodes) /\ Top.scratch \in Scratches
           /\ Top.flow \in DOMAIN Nodes
           /\ Top.symbol = answer.ref[1] /\ Top.symbol \in Symbols
           /\ IF Top.stack = <<>> THEN Top.flow \in DOMAIN Top.scratch ELSE Top.stack[1] = Top.flow
           /\ Top.stack # <<>> => Node \in DOMAIN Nodes
<1>1. frames # <<>> /\ Len(frames) \in Nat \ {0} /\ Len(frames) \in 1..Len(frames)
  BY SeqFacts DEF Structure, Types, Walking
<1>2. Top = frames[Len(frames)] /\ Top \in WalkFrames /\ Top.symbol = answer.ref[1]
  BY <1>1, FrameFacts DEF Structure, Walking, Top
<1>3. /\ Top.stack \in Seq(DOMAIN Nodes) /\ Top.scratch \in Scratches
      /\ Top.flow \in DOMAIN Nodes /\ Top.symbol \in Symbols /\ Top.kind = "walk"
  BY <1>2 DEF WalkFrames
<1>4. IF Top.stack = <<>> THEN Top.flow \in DOMAIN Top.scratch ELSE Top.stack[1] = Top.flow
  <2>1. ShapeAt(unit, answer.ref, frames, Len(frames))
    BY <1>1 DEF Structure, Shape
  <2> QED
    BY <1>2, <1>3, <2>1, Zenon DEF ShapeAt
<1>5. Top.stack # <<>> => Node \in DOMAIN Nodes
  BY <1>3, PopProperties DEF Node
<1> QED
  BY <1>1, <1>2, <1>3, <1>4, <1>5

(* The frames that did not change.                                         *)
Same(m) == \A i \in 1..m : frames'[i] = frames[i]

LEMMA SetFrames ==
    ASSUME Structure, Walking, Top.stack # <<>>, NEW t \in Type, flow_set(t),
           UNCHANGED <<unit, provisional, depth, answer>>
    PROVE  /\ frames' \in Seq(Frames) /\ frames' # <<>> /\ Len(frames') = Len(frames)
           /\ Same(Len(frames) - 1)
           /\ frames'[Len(frames)] =
                [Top EXCEPT !.stack = Popped, !.scratch = Put(Top.scratch, Node, t)]
           /\ Shape' /\ LoopsInFlight'
<1> DEFINE scratch == Put(Top.scratch, Node, t)
<1>1. Node \in DOMAIN Nodes
  BY WalkTop
<1>2. scratch \in Scratches /\ Node \in DOMAIN scratch /\ DOMAIN Top.scratch \subseteq DOMAIN scratch
  <2>1. Top.scratch \in Scratches
    BY WalkTop
  <2>2. scratch \in Scratches
    BY <1>1, <2>1, ScratchPut
  <2>3. DOMAIN scratch = (DOMAIN Top.scratch) \cup {Node}
    BY DEF Put
  <2> HIDE DEF scratch
  <2> QED
    BY <2>2, <2>3
<1>3. /\ Popped \in Seq(DOMAIN Nodes) /\ Len(Popped) = Len(Top.stack) - 1
      /\ \A i \in 1..(Len(Top.stack) - 1) : Popped[i] = Top.stack[i]
      /\ Len(Top.stack) \in Nat \ {0}
  BY WalkTop, PopProperties DEF Popped
<1>4. Top.stack[1] = Top.flow
  BY WalkTop
<1>5. IF Popped = <<>> THEN Top.flow \in DOMAIN scratch ELSE Popped[1] = Top.flow
  <2>1. CASE Popped = <<>>
    <3>1. Len(Top.stack) = 1
      BY <1>3, <2>1, SeqFacts
    <3> QED
      BY <1>2, <1>4, <2>1, <3>1 DEF Node
  <2>2. CASE Popped # <<>>
    <3>1. Len(Popped) # 0
      BY <1>3, <2>2, SeqFacts
    <3>2. 1 \in 1..(Len(Top.stack) - 1)
      <4>1. Len(Top.stack) \in Nat \ {0} /\ Len(Top.stack) - 1 # 0
        BY <1>3, <3>1
      <4>2. \A m \in Nat \ {0} : m - 1 # 0 => 1 \in 1..(m - 1)
        OBVIOUS
      <4> QED
        BY <4>1, <4>2, Zenon
    <3> QED
      BY <1>3, <1>4, <2>2, <3>2
  <2> QED
    BY <2>1, <2>2
<1> HIDE DEF scratch
<1>6. frames' = Append(Below, [Top EXCEPT !.stack = Popped, !.scratch = scratch])
  BY DEF flow_set, scratch
<1> QED
  BY <1>2, <1>3, <1>5, <1>6, WalkStep DEF Same, scratch

LEMMA PushFrames ==
    ASSUME Structure, Walking, Top.stack # <<>>, NEW n \in DOMAIN Nodes, Push(n),
           UNCHANGED <<unit, provisional, depth, answer>>
    PROVE  /\ frames' \in Seq(Frames) /\ frames' # <<>> /\ Len(frames') = Len(frames)
           /\ Same(Len(frames) - 1)
           /\ frames'[Len(frames)] =
                [Top EXCEPT !.stack = Append(Top.stack, n), !.scratch = Top.scratch]
           /\ Shape' /\ LoopsInFlight'
<1> DEFINE stack == Append(Top.stack, n)
<1>1. stack \in Seq(DOMAIN Nodes) /\ stack # <<>> /\ stack[1] = Top.flow
  <2>1. Top.stack \in Seq(DOMAIN Nodes) /\ Top.stack[1] = Top.flow
    BY WalkTop
  <2>2. 1 \in 1..Len(Top.stack)
    BY <2>1, PopProperties
  <2> QED
    BY <2>1, <2>2, PushProperties
<1> HIDE DEF stack
<1>2. IF stack = <<>> THEN Top.flow \in DOMAIN Top.scratch ELSE stack[1] = Top.flow
  BY <1>1
<1>3. frames' = Append(Below, [Top EXCEPT !.stack = stack, !.scratch = Top.scratch])
  <2>1. [Top EXCEPT !.stack = stack] = [Top EXCEPT !.stack = stack, !.scratch = Top.scratch]
    BY WalkTop DEF WalkFrames
  <2> QED
    BY <2>1 DEF Push, stack
<1> QED
  BY <1>1, <1>2, <1>3, WalkTop, WalkStep DEF Same, stack

(* The memo after a node was worked out.                                   *)
LEMMA MemoPut ==
    ASSUME Structure, NEW n \in DOMAIN Nodes, NEW s \in Symbols, NEW t \in Type, unit' = unit,
           memo' = memo \/ memo' = Put(memo, <<n, s>>, t)
    PROVE  Typed(memo)'
<1>1. Typed(memo)
  BY DEF Structure, Types
<1>2. CASE memo' = memo
  BY <1>1, <1>2 DEF Typed, Nodes
<1>3. CASE memo' = Put(memo, <<n, s>>, t)
  <2>1. /\ DOMAIN memo' = (DOMAIN memo) \cup {<<n, s>>} /\ memo'[<<n, s>>] = t
        /\ \A i \in (DOMAIN memo) \ {<<n, s>>} : memo'[i] = memo[i]
    BY <1>3 DEF Put
  <2>2. ASSUME NEW k \in DOMAIN memo' PROVE k \in (DOMAIN Nodes) \X Symbols /\ memo'[k] \in Type
    BY <1>1, <2>1 DEF Typed
  <2> QED
    BY <2>2 DEF Typed, Nodes, Type
<1> QED
  BY <1>2, <1>3

(* What a step within a resolution leaves alone.                           *)
LEMMA TypesKept ==
    ASSUME Structure, unit' = unit, declared' = declared, answer' = answer, frames # <<>>,
           exhausted' \in BOOLEAN, depth' \in Nat,
           Typed(memo)', Typed(provisional)', frames' \in Seq(Frames)
    PROVE  Types'
<1>1. Refs' = Refs /\ Type' = Type /\ Frames' = Frames
  BY DEF Refs, Type, Frames, WalkFrames, LoopFrames, Scratches, Nodes
<1> QED
  BY <1>1 DEF Structure, Types

LEMMA SetStructure ==
    ASSUME Structure, Walking, Top.stack # <<>>, NEW t \in Type, flow_set(t),
           UNCHANGED <<unit, declared, provisional, depth, answer>>, exhausted' \in BOOLEAN
    PROVE  Structure'
<1>1. frames' \in Seq(Frames) /\ Shape' /\ LoopsInFlight'
  BY SetFrames
<1>2. Typed(memo)'
  <2>1. memo' = memo \/ memo' = Put(memo, <<Node, Top.symbol>>, t)
    BY DEF flow_set
  <2> QED
    BY <2>1, WalkTop, MemoPut
<1>3. Typed(provisional)' /\ depth' \in Nat
  BY DEF Structure, Types, Typed, Nodes
<1>4. Types'
  BY <1>1, <1>2, <1>3, TypesKept, WalkTop
<1> QED
  BY <1>1, <1>4 DEF Structure

LEMMA PushStructure ==
    ASSUME Structure, Walking, Top.stack # <<>>, NEW n \in DOMAIN Nodes, Push(n),
           UNCHANGED <<unit, declared, provisional, depth, answer>>, exhausted' \in BOOLEAN
    PROVE  Structure'
<1>1. frames' \in Seq(Frames) /\ Shape' /\ LoopsInFlight'
  BY PushFrames
<1>2. Typed(memo)' /\ Typed(provisional)' /\ depth' \in Nat
  BY DEF Structure, Types, Typed, Nodes, Push
<1>3. Types'
  BY <1>1, <1>2, TypesKept, WalkTop
<1> QED
  BY <1>1, <1>3 DEF Structure

(* Lookups are typed.                                                      *)
LEMMA CachedType ==
    ASSUME Types, NEW n, NEW s \in Symbols, Cached(n, s)
    PROVE  flow_lookup_cached(n, s) \in Type
<1>1. CASE Sentinel(n)
  BY <1>1 DEF Types, flow_lookup_cached
<1>2. CASE ~Sentinel(n) /\ <<n, s>> \in DOMAIN provisional
  <2>1. provisional[<<n, s>>] \in Type
    BY <1>2 DEF Types, Typed
  <2> QED
    BY <1>2, <2>1 DEF flow_lookup_cached
<1>3. CASE ~Sentinel(n) /\ <<n, s>> \notin DOMAIN provisional
  <2>1. memo[<<n, s>>] \in Type
    BY <1>3 DEF Types, Typed, Cached
  <2> QED
    BY <1>3, <2>1 DEF flow_lookup_cached
<1> QED
  BY <1>1, <1>2, <1>3

LEMMA KnownType ==
    ASSUME Structure, Walking, NEW n, Known(n)
    PROVE  scratch_or_cached(n) \in Type
BY WalkTop, ScratchTyped, CachedType DEF Structure, Known, scratch_or_cached

(* The least of some nodes is one of them.                                 *)
LEMMA LeastMember ==
    ASSUME NEW S \in SUBSET Nat, S # {}
    PROVE  Least(S) \in S
<1> DEFINE Before == {ss \in Nat \X Nat : ss[1] < ss[2]}
<1>1. IsWellFoundedOn(Before, Nat)
  BY NatLessThanWellFounded, Zenon DEF OpToRel
<1>2. \A x, y \in Nat : <<y, x>> \in Before <=> y < x
  OBVIOUS
<1> HIDE DEF Before
<1>3. PICK x \in S : \A y \in S : ~(<<y, x>> \in Before)
  BY <1>1, WFMin
<1>4. ASSUME NEW y \in S PROVE x <= y
  <2>1. x \in Nat /\ y \in Nat /\ ~(y < x)
    BY <1>2, <1>3
  <2> QED
    BY <2>1
<1> QED
  BY <1>4 DEF Least

LEMMA VisitAssignmentStructure ==
    ASSUME Structure, VisitAssignment PROVE Structure'
<1> DEFINE node == Nodes[Node]
<1>1. Walking /\ Top.stack # <<>> /\ node.kind = "assign" /\ exhausted' \in BOOLEAN
      /\ UNCHANGED <<unit, declared, provisional, depth, answer>>
  BY DEF VisitAssignment, Visiting, Structure, Types
<1>2. node.from \in DOMAIN Nodes /\ node.assigned \in Type /\ declared[Top.symbol] \in Type
  BY <1>1, WalkTop, NodeFacts DEF Structure, Types, Type
<1>3. \/ flow_set(declared[Top.symbol]) \/ flow_set(node.assigned)
      \/ Known(node.from) /\ flow_set(scratch_or_cached(node.from))
      \/ Push(node.from)
  BY DEF VisitAssignment
<1> HIDE DEF node
<1> QED
  BY <1>1, <1>2, <1>3, SetStructure, PushStructure, KnownType

LEMMA VisitConditionStructure ==
    ASSUME Structure, VisitCondition PROVE Structure'
<1> DEFINE node == Nodes[Node]
<1>1. Walking /\ Top.stack # <<>> /\ node.kind = "cond"
      /\ UNCHANGED <<unit, declared, provisional, depth, answer>>
  BY DEF VisitCondition, Visiting
<1>2. node.from \in DOMAIN Nodes /\ exhausted \in BOOLEAN
  BY <1>1, WalkTop, NodeFacts DEF Structure, Types
<1>3. \/ Push(node.from) /\ exhausted' = exhausted
      \/ Known(node.from) /\ flow_set(scratch_or_cached(node.from)) /\ exhausted' = exhausted
      \/ Known(node.from) /\ \E o \in narrow_query(scratch_or_cached(node.from), node) :
                                flow_set(o.type) /\ exhausted' = (exhausted \/ o.exhausted)
  BY DEF VisitCondition
<1> HIDE DEF node
<1>4. CASE Push(node.from) /\ exhausted' = exhausted
  BY <1>1, <1>2, <1>4, PushStructure
<1>5. CASE Known(node.from) /\ flow_set(scratch_or_cached(node.from)) /\ exhausted' = exhausted
  BY <1>1, <1>2, <1>5, SetStructure, KnownType
<1>6. ASSUME Known(node.from), NEW o \in narrow_query(scratch_or_cached(node.from), node),
             flow_set(o.type), exhausted' = (exhausted \/ o.exhausted)
      PROVE  Structure'
  <2>1. o.type \in Type /\ o.exhausted \in BOOLEAN
    BY <1>1, <1>6, KnownType, NarrowType
  <2>2. exhausted' \in BOOLEAN
    BY <1>6, Zenon
  <2> QED
    BY <1>1, <1>6, <2>1, <2>2, SetStructure
<1> QED
  BY <1>3, <1>4, <1>5, <1>6

LEMMA VisitBranchStructure ==
    ASSUME Structure, VisitBranch PROVE Structure'
<1> DEFINE node == Nodes[Node]
           types == {scratch_or_cached(n) : n \in node.from}
<1>1. Walking /\ Top.stack # <<>> /\ node.kind = "branch" /\ exhausted' \in BOOLEAN
      /\ UNCHANGED <<unit, declared, provisional, depth, answer>>
  BY DEF VisitBranch, Visiting, Structure, Types
<1>2. node.from \subseteq DOMAIN Nodes /\ DOMAIN Nodes \subseteq Nat
  BY <1>1, WalkTop, NodeFacts DEF Structure
<1>3. \/ Missing(node) # {} /\ Push(Least(Missing(node)))
      \/ Missing(node) = {} /\ flow_set(union(types))
  BY DEF VisitBranch
<1> HIDE DEF node
<1>4. CASE Missing(node) # {} /\ Push(Least(Missing(node)))
  <2>1. Least(Missing(node)) \in Missing(node)
    BY <1>2, <1>4, LeastMember DEF Missing
  <2>2. Least(Missing(node)) \in DOMAIN Nodes
    BY <1>2, <2>1 DEF Missing
  <2> QED
    BY <1>1, <1>4, <2>2, PushStructure
<1>5. CASE Missing(node) = {} /\ flow_set(union(types))
  <2>1. \A n \in node.from : Known(n)
    BY <1>5 DEF Missing
  <2>2. types \in SUBSET Type
    BY <1>1, <2>1, KnownType
  <2> HIDE DEF types
  <2> QED
    BY <1>1, <1>5, <2>2, UnionType, SetStructure
<1> QED
  BY <1>3, <1>4, <1>5

-----------------------------------------------------------------------------
(* The loop on top.                                                        *)
LEMMA LoopTop ==
    ASSUME Structure, Looping
    PROVE  /\ frames # <<>> /\ Len(frames) \in Nat /\ Len(frames) >= 2
           /\ Len(frames) \in 1..Len(frames) /\ Len(frames) - 1 \in 1..Len(frames)
           /\ Top = frames[Len(frames)] /\ Top \in LoopFrames
           /\ Top.kind = "loop" /\ Top.label \in DOMAIN Nodes /\ Top.label # START
           /\ Nodes[Top.label].kind = "loop"
           /\ Top.symbol = answer.ref[1] /\ Top.symbol \in Symbols
           /\ Top.pending \in Seq(DOMAIN Nodes) /\ Top.parts \in SUBSET Type
           /\ frames[Len(frames) - 1] \in WalkFrames
           /\ frames[Len(frames) - 1].stack # <<>>
           /\ frames[Len(frames) - 1].stack[Len(frames[Len(frames) - 1].stack)] = Top.label
           /\ <<Top.label, Top.symbol>> \in DOMAIN provisional
<1>1. frames # <<>> /\ Len(frames) \in Nat \ {0} /\ Len(frames) \in 1..Len(frames)
  BY SeqFacts DEF Structure, Types, Looping
<1>2. Top = frames[Len(frames)] /\ Top \in LoopFrames /\ Top.symbol = answer.ref[1]
  BY <1>1, FrameFacts DEF Structure, Looping, Top
<1>3. /\ Top.pending \in Seq(DOMAIN Nodes) /\ Top.parts \in SUBSET Type /\ Top.kind = "loop"
      /\ Top.label \in DOMAIN Nodes /\ Top.label # START /\ Top.symbol \in Symbols
  BY <1>2 DEF LoopFrames
<1>4. /\ Len(frames) >= 2 /\ Len(frames) - 1 \in 1..Len(frames)
      /\ frames[Len(frames) - 1] \in WalkFrames
  BY <1>1, <1>2, <1>3, BelowFacts DEF Structure
<1>5. /\ frames[Len(frames) - 1].stack # <<>>
      /\ frames[Len(frames) - 1].stack[Len(frames[Len(frames) - 1].stack)] = Top.label
      /\ Nodes[Top.label].kind = "loop"
  <2>1. ShapeAt(unit, answer.ref, frames, Len(frames))
    BY <1>1 DEF Structure, Shape
  <2> QED
    BY <1>2, <1>3, <2>1, Zenon DEF ShapeAt, Nodes
<1>6. <<Top.label, Top.symbol>> \in DOMAIN provisional
  <2>1. Len(frames) \in LoopsOf(frames)
    BY <1>1, <1>2, <1>3 DEF LoopsOf
  <2>2. LoopsRight(frames, depth, provisional)
    BY LoopsRestated DEF Structure, Types
  <2> QED
    BY <1>2, <2>1, <2>2 DEF LoopsRight
<1> QED
  BY <1>1, <1>2, <1>3, <1>4, <1>5, <1>6

LEMMA EnterLoopFrames ==
    ASSUME Structure, EnterLoop
    PROVE  /\ frames' \in Seq(Frames) /\ frames' # <<>> /\ Len(frames') = Len(frames) + 1
           /\ Same(Len(frames))
           /\ frames'[Len(frames) + 1] =
                [kind |-> "loop", label |-> Node, symbol |-> Top.symbol,
                 pending |-> Nodes[Node].pre, parts |-> {}, seeded |-> FALSE]
           /\ Shape' /\ LoopsInFlight'
<1> DEFINE K == Len(frames)
           new == [kind |-> "loop", label |-> Node, symbol |-> Top.symbol,
                   pending |-> Nodes[Node].pre, parts |-> {}, seeded |-> FALSE]
<1>1. /\ Walking /\ Top.stack # <<>> /\ ~Known(Node) /\ Nodes[Node].kind = "loop"
      /\ frames' = Append(frames, new)
      /\ unit' = unit /\ answer' = answer
      /\ provisional' = Put(provisional, <<Node, Top.symbol>>, declared[Top.symbol])
      /\ depth' = depth + 1
  BY DEF EnterLoop, Visiting
<1>2. Node # START /\ <<Node, Top.symbol>> \notin DOMAIN provisional
  BY <1>1 DEF Known, Cached, Sentinel
<1>3. /\ Node \in DOMAIN Nodes /\ Top.symbol \in Symbols /\ Top.symbol = answer.ref[1]
      /\ K \in Nat \ {0} /\ K \in 1..K /\ Top = frames[K] /\ Top \in WalkFrames
      /\ frames \in Seq(Frames)
  BY <1>1, WalkTop DEF Structure, Types
<1>4. Nodes[Node].pre \in Seq(DOMAIN Nodes)
  BY <1>1, <1>3, NodeFacts DEF Structure
<1>5. /\ new \in Frames /\ new.kind = "loop" /\ new.symbol = Top.symbol /\ new.label = Node
  BY <1>2, <1>3, <1>4 DEF Frames, LoopFrames
<1> HIDE DEF new
<1>6. /\ frames' \in Seq(Frames) /\ frames' # <<>> /\ Len(frames') = K + 1
      /\ \A i \in 1..K : frames'[i] = frames[i]
      /\ frames'[K + 1] = new
  <2>1. /\ Append(frames, new) \in Seq(Frames) /\ Append(frames, new) # <<>>
        /\ Len(Append(frames, new)) = Len(frames) + 1
        /\ \A i \in 1..Len(frames) : Append(frames, new)[i] = frames[i]
        /\ Append(frames, new)[Len(frames) + 1] = new
    BY <1>3, <1>5, PushProperties
  <2> QED
    BY <1>1, <2>1, Zenon
<1>7. ShapeAt(unit, answer.ref, frames', K + 1)
  <2>1. K % 2 = 1
    BY <1>1, <1>3, FrameFacts DEF Structure
  <2>2. (K + 1) % 2 # 1 /\ (K + 1) - 1 = K
    BY <1>3, <2>1, Parity
  <2>3. frames'[(K + 1) - 1] = Top
    BY <1>3, <1>6, <2>2
  <2>4. "walk" # "loop" /\ Top.stack[Len(Top.stack)] = Node
    BY DEF Node
  <2> QED
    BY <1>1, <1>3, <1>5, <1>6, <2>2, <2>3, <2>4, Zenon DEF ShapeAt, Nodes
<1>8. Shape'
  <2>1. /\ K + 1 \in Nat \ {0} /\ K + 1 <= Len(frames) + 1 /\ answer'.ref = answer.ref
        /\ (K + 1) - 1 = K
    BY <1>1, <1>3
  <2>2. \A i \in 1..((K + 1) - 1) : frames'[i] = frames[i]
    BY <1>6, <2>1
  <2> QED
    BY <1>1, <1>6, <1>7, <2>1, <2>2, ShapeKept DEF Structure
<1>9. LoopsInFlight'
  <2>1. LoopsRight(frames, depth, provisional)
    BY <1>3, LoopsRestated DEF Structure
  <2>2. LoopsOf(frames') = LoopsOf(frames) \cup {K + 1}
    <3>1. 1..(K + 1) = (1..K) \cup {K + 1}
      BY <1>3
    <3> QED
      BY <1>5, <1>6, <3>1 DEF LoopsOf
  <2>3. IsFiniteSet(LoopsOf(frames)) /\ K + 1 \notin LoopsOf(frames)
    <3>1. IsFiniteSet(1..K) /\ LoopsOf(frames) \subseteq 1..K
      BY <1>3, FS_Interval DEF LoopsOf
    <3> QED
      BY <1>3, <3>1, FS_Subset
  <2>4. depth' = Cardinality(LoopsOf(frames'))
    BY <1>1, <2>1, <2>2, <2>3, FS_AddElement DEF LoopsRight
  <2>5. \A i \in LoopsOf(frames) : frames'[i] = frames[i] /\ frames[i].symbol = Top.symbol
    BY <1>3, <1>6, FrameFacts DEF LoopsOf, Structure
  <2>6. DOMAIN provisional' = {<<frames'[i].label, frames'[i].symbol>> : i \in LoopsOf(frames')}
    <3>1. DOMAIN provisional' = (DOMAIN provisional) \cup {<<Node, Top.symbol>>}
      BY <1>1 DEF Put
    <3>2. DOMAIN provisional = {<<frames[i].label, frames[i].symbol>> : i \in LoopsOf(frames)}
      BY <2>1 DEF LoopsRight
    <3>3. {<<frames'[i].label, frames'[i].symbol>> : i \in LoopsOf(frames)}
            = {<<frames[i].label, frames[i].symbol>> : i \in LoopsOf(frames)}
      BY <2>5
    <3>4. {<<frames'[i].label, frames'[i].symbol>> : i \in LoopsOf(frames')}
            = {<<frames'[i].label, frames'[i].symbol>> : i \in LoopsOf(frames)}
                \cup {<<frames'[K + 1].label, frames'[K + 1].symbol>>}
      BY <2>2
    <3> QED
      BY <1>5, <1>6, <3>1, <3>2, <3>3, <3>4
  <2>7. \A i \in LoopsOf(frames) : frames[i].label # Node
    BY <1>2, <2>1, <2>5 DEF LoopsRight
  <2>8. \A i, j \in LoopsOf(frames') : frames'[i].label = frames'[j].label => i = j
    BY <1>5, <1>6, <2>1, <2>2, <2>5, <2>7 DEF LoopsRight
  <2>9. DOMAIN frames' = 1..Len(frames')
    BY <1>6, SeqFacts
  <2> QED
    BY <2>4, <2>6, <2>8, <2>9 DEF LoopsInFlight, LoopsOf
<1> QED
  BY <1>6, <1>8, <1>9 DEF new, Same

LEMMA EnterLoopStructure ==
    ASSUME Structure, EnterLoop PROVE Structure'
<1>1. frames' \in Seq(Frames) /\ Shape' /\ LoopsInFlight'
  BY EnterLoopFrames
<1>2. /\ Walking /\ Top.stack # <<>> /\ UNCHANGED <<unit, declared, memo, answer, exhausted>>
      /\ provisional' = Put(provisional, <<Node, Top.symbol>>, declared[Top.symbol])
      /\ depth' = depth + 1
  BY DEF EnterLoop, Visiting
<1>3. Typed(memo)' /\ depth' \in Nat /\ exhausted' \in BOOLEAN
  BY <1>2 DEF Structure, Types, Typed, Nodes
<1>4. Typed(provisional)'
  <2>1. /\ DOMAIN provisional' = (DOMAIN provisional) \cup {<<Node, Top.symbol>>}
        /\ provisional'[<<Node, Top.symbol>>] = declared[Top.symbol]
        /\ \A i \in (DOMAIN provisional) \ {<<Node, Top.symbol>>} : provisional'[i] = provisional[i]
    BY <1>2 DEF Put
  <2>2. Node \in DOMAIN Nodes /\ Top.symbol \in Symbols /\ declared[Top.symbol] \in Type
    BY <1>2, WalkTop DEF Structure, Types
  <2>3. ASSUME NEW k \in DOMAIN provisional'
        PROVE  k \in (DOMAIN Nodes) \X Symbols /\ provisional'[k] \in Type
    BY <2>1, <2>2 DEF Structure, Types, Typed
  <2> QED
    BY <1>2, <2>3 DEF Typed, Nodes, Type
<1>5. Types'
  BY <1>1, <1>2, <1>3, <1>4, TypesKept, WalkTop
<1> QED
  BY <1>1, <1>5 DEF Structure

(* A loop frame at position m of the new stack, in place of one of the old *)
(* stack: its label, and the walk below, are the same.                     *)
LEMMA LoopReplaced ==
    ASSUME Structure, unit' = unit, answer' = answer, frames' \in Seq(Frames),
           NEW m \in 1..Len(frames), Len(frames') = m, Same(m - 1),
           frames[m] \in LoopFrames,
           frames'[m].kind = "loop", frames'[m].label = frames[m].label,
           frames'[m].symbol = frames[m].symbol,
           \A i \in 1..Len(frames) : i > m => frames[i].kind # "loop",
           depth' = depth, DOMAIN provisional' = DOMAIN provisional
    PROVE  Shape' /\ LoopsInFlight'
<1>1. Len(frames) \in Nat /\ m \in Nat \ {0} /\ m <= Len(frames) + 1 /\ frames \in Seq(Frames)
  BY SeqFacts DEF Structure, Types
<1>2. frames[m].kind = "loop"
  BY DEF LoopFrames
<1>3. m - 1 \in 1..(m - 1)
  BY <1>2, BelowFacts DEF Structure
<1>4. frames'[m - 1] = frames[m - 1] /\ \A i \in 1..(m - 1) : frames'[i] = frames[i]
  BY <1>3 DEF Same
<1>5. ShapeAt(unit, answer.ref, frames, m)
  BY DEF Structure, Shape
<1>6. "walk" # "loop"
  OBVIOUS
<1>7. ShapeAt(unit, answer.ref, frames', m)
  BY <1>2, <1>4, <1>5, <1>6, Zenon DEF ShapeAt
<1>8. Shape'
  <2>1. answer'.ref = answer.ref
    OBVIOUS
  <2> QED
    BY <1>1, <1>4, <1>7, <2>1, ShapeKept DEF Structure
<1>9. \A i \in 1..m : i = m \/ i \in 1..(m - 1)
  BY <1>1
<1>10. LoopsOf(frames') = LoopsOf(frames)
  <2>1. \A i \in 1..m : frames'[i].kind = frames[i].kind
    BY <1>2, <1>4, <1>9
  <2>2. \A i \in 1..Len(frames) : i \in 1..m \/ i > m
    BY <1>1
  <2>3. \A i \in 1..m : i \in 1..Len(frames)
    BY <1>1
  <2> QED
    BY <2>1, <2>2, <2>3 DEF LoopsOf
<1>11. \A i \in LoopsOf(frames) : frames'[i].label = frames[i].label /\ frames'[i].symbol = frames[i].symbol
  <2>1. \A i \in LoopsOf(frames') : i \in 1..m
    BY DEF LoopsOf
  <2> QED
    BY <1>4, <1>9, <1>10, <2>1
<1>12. LoopsRight(frames, depth, provisional)
  BY <1>1, LoopsRestated DEF Structure
<1>13. LoopsRight(frames', depth, provisional')
  BY <1>10, <1>11, <1>12, LoopsSame
<1>14. DOMAIN frames' = 1..Len(frames')
  BY SeqFacts
<1> QED
  BY <1>8, <1>13, <1>14 DEF LoopsInFlight, LoopsRight, LoopsOf

LEMMA PartFacts ==
    ASSUME NEW f \in LoopFrames, f.pending # <<>>, NEW t \in Type
    PROVE  /\ Part(f, t) \in LoopFrames /\ Part(f, t).kind = "loop"
           /\ Part(f, t).label = f.label /\ Part(f, t).symbol = f.symbol
           /\ Part(f, t).pending = Tail(f.pending) /\ Part(f, t).parts = f.parts \cup {t}
           /\ Part(f, t).seeded = f.seeded
<1>1. Tail(f.pending) \in Seq(DOMAIN Nodes)
  BY HeadTailProperties DEF LoopFrames
<1> QED
  BY <1>1 DEF Part, LoopFrames

(* One antecedent of the label answered at once.                           *)
LEMMA PartFrames ==
    ASSUME Structure, Looping, Top.pending # <<>>, NEW t \in Type,
           frames' = Append(Below, Part(Top, t)),
           UNCHANGED <<unit, answer, depth, provisional>>
    PROVE  /\ frames' \in Seq(Frames) /\ frames' # <<>> /\ Len(frames') = Len(frames)
           /\ Same(Len(frames) - 1) /\ frames'[Len(frames)] = Part(Top, t)
           /\ Shape' /\ LoopsInFlight'
<1>1. Part(Top, t) \in Frames
  BY LoopTop, PartFacts DEF Frames
<1>2. /\ frames' \in Seq(Frames) /\ frames' # <<>> /\ Len(frames') = Len(frames)
      /\ Same(Len(frames) - 1) /\ frames'[Len(frames)] = Part(Top, t)
  BY <1>1, LoopTop, FramesReplaced DEF Same, Structure, Types
<1>3. /\ frames[Len(frames)] \in LoopFrames
      /\ frames'[Len(frames)].kind = "loop" /\ frames'[Len(frames)].label = frames[Len(frames)].label
      /\ frames'[Len(frames)].symbol = frames[Len(frames)].symbol
  BY <1>2, LoopTop, PartFacts
<1>4. Len(frames) \in 1..Len(frames) /\ \A i \in 1..Len(frames) : ~(i > Len(frames))
  BY LoopTop
<1>5. Shape' /\ LoopsInFlight'
  BY <1>2, <1>3, <1>4, LoopReplaced
<1> QED
  BY <1>2, <1>5

(* A walk that starts.                                                     *)
LEMMA WalkFacts ==
    ASSUME NEW n \in DOMAIN Nodes, NEW s \in Symbols
    PROVE  /\ Walk(n, s) \in WalkFrames /\ Walk(n, s).kind = "walk" /\ Walk(n, s).flow = n
           /\ Walk(n, s).symbol = s /\ Walk(n, s).stack # <<>> /\ Walk(n, s).stack[1] = n
           /\ DOMAIN Walk(n, s).scratch = {}
<1>1. <<n>> \in Seq(DOMAIN Nodes) /\ <<n>> # <<>> /\ <<n>>[1] = n
  OBVIOUS
<1>2. Walk(n, s).stack = <<n>> /\ Walk(n, s).scratch = <<>>
  BY DEF Walk
<1>3. /\ Walk(n, s) \in WalkFrames /\ Walk(n, s).kind = "walk" /\ Walk(n, s).flow = n
      /\ Walk(n, s).symbol = s
  BY <1>1, ScratchEmpty DEF Walk, WalkFrames
<1> QED
  BY <1>1, <1>2, <1>3, ScratchEmpty

LEMMA CallFrames ==
    ASSUME Structure, Looping, Top.pending # <<>>,
           frames' = Append(frames, Walk(Head(Top.pending), Top.symbol)),
           UNCHANGED <<unit, answer, depth, provisional>>
    PROVE  /\ frames' \in Seq(Frames) /\ frames' # <<>> /\ Len(frames') = Len(frames) + 1
           /\ Same(Len(frames)) /\ frames'[Len(frames) + 1] = Walk(Head(Top.pending), Top.symbol)
           /\ Shape' /\ LoopsInFlight'
<1> DEFINE K == Len(frames)
           n == Head(Top.pending)
           new == Walk(n, Top.symbol)
<1>1. n \in DOMAIN Nodes
  BY LoopTop, HeadTailProperties
<1>2. /\ K \in Nat \ {0} /\ K \in 1..K /\ Top = frames[K] /\ Top.symbol \in Symbols
      /\ Top.symbol = answer.ref[1] /\ Top \in LoopFrames /\ Top.kind = "loop"
      /\ frames \in Seq(Frames)
  BY LoopTop DEF Structure, Types
<1> HIDE DEF n
<1>3. /\ new \in Frames /\ new.kind = "walk" /\ new.flow = n /\ new.symbol = Top.symbol
      /\ new.stack # <<>> /\ new.stack[1] = n
  BY <1>1, <1>2, WalkFacts DEF Frames
<1> HIDE DEF new
<1>4. /\ frames' \in Seq(Frames) /\ frames' # <<>> /\ Len(frames') = K + 1
      /\ \A i \in 1..K : frames'[i] = frames[i]
      /\ frames'[K + 1] = new
  <2>1. /\ Append(frames, new) \in Seq(Frames) /\ Append(frames, new) # <<>>
        /\ Len(Append(frames, new)) = Len(frames) + 1
        /\ \A i \in 1..Len(frames) : Append(frames, new)[i] = frames[i]
        /\ Append(frames, new)[Len(frames) + 1] = new
    BY <1>2, <1>3, PushProperties
  <2>2. frames' = Append(frames, new)
    BY DEF new, n
  <2> QED
    BY <2>1, <2>2, Zenon
<1>5. ShapeAt(unit, answer.ref, frames', K + 1)
  <2>1. K % 2 # 1
    BY <1>2, FrameFacts DEF Structure
  <2>2. (K + 1) % 2 = 1 /\ (K + 1) - 1 = K /\ K + 1 # 1
    BY <1>2, <2>1, Parity
  <2>3. frames'[(K + 1) - 1] = Top
    BY <1>2, <1>4, <2>2
  <2>4. "walk" # "loop"
    OBVIOUS
  <2> QED
    BY <1>2, <1>3, <1>4, <2>2, <2>3, <2>4, Zenon DEF ShapeAt, n
<1>6. Shape'
  <2>1. /\ K + 1 \in Nat \ {0} /\ K + 1 <= Len(frames) + 1 /\ answer'.ref = answer.ref
        /\ (K + 1) - 1 = K
    BY <1>2
  <2>2. \A i \in 1..((K + 1) - 1) : frames'[i] = frames[i]
    BY <1>4, <2>1
  <2> QED
    BY <1>4, <1>5, <2>1, <2>2, ShapeKept DEF Structure
<1>7. LoopsInFlight'
  <2>1. LoopsRight(frames, depth, provisional)
    BY <1>2, LoopsRestated DEF Structure
  <2>2. LoopsOf(frames') = LoopsOf(frames)
    <3>1. 1..(K + 1) = (1..K) \cup {K + 1}
      BY <1>2
    <3> QED
      BY <1>3, <1>4, <3>1 DEF LoopsOf
  <2>3. \A i \in LoopsOf(frames) : frames'[i] = frames[i]
    BY <1>4 DEF LoopsOf
  <2>4. LoopsRight(frames', depth', provisional')
    BY <2>1, <2>2, <2>3, LoopsSame
  <2>5. DOMAIN frames' = 1..Len(frames')
    BY <1>4, SeqFacts
  <2> QED
    BY <2>4, <2>5 DEF LoopsInFlight, LoopsRight, LoopsOf
<1> QED
  BY <1>4, <1>6, <1>7 DEF new, n, Same

LEMMA LoopPartStructure ==
    ASSUME Structure, LoopPart PROVE Structure'
<1> DEFINE n == Head(Top.pending)
<1>1. Looping /\ Top.pending # <<>>
      /\ UNCHANGED <<unit, declared, memo, provisional, depth, answer, exhausted>>
  BY DEF LoopPart
<1>2. frames' \in Seq(Frames) /\ Shape' /\ LoopsInFlight'
  <2>1. CASE Cached(n, Top.symbol)
    <3>1. flow_lookup_cached(n, Top.symbol) \in Type
      BY <1>1, <2>1, LoopTop, CachedType DEF Structure
    <3>2. frames' = Append(Below, Part(Top, flow_lookup_cached(n, Top.symbol)))
      BY <2>1 DEF LoopPart
    <3> QED
      BY <1>1, <3>1, <3>2, PartFrames
  <2>2. CASE ~Cached(n, Top.symbol)
    <3>1. frames' = Append(frames, Walk(n, Top.symbol))
      BY <2>2 DEF LoopPart
    <3> QED
      BY <1>1, <3>1, CallFrames
  <2> QED
    BY <2>1, <2>2
<1>3. Typed(memo)' /\ Typed(provisional)' /\ depth' \in Nat /\ exhausted' \in BOOLEAN
  BY <1>1 DEF Structure, Types, Typed, Nodes
<1>4. Types'
  BY <1>1, <1>2, <1>3, TypesKept, LoopTop
<1> QED
  BY <1>2, <1>4 DEF Structure

LEMMA LoopSeedFrames ==
    ASSUME Structure, LoopSeed
    PROVE  /\ frames' \in Seq(Frames) /\ frames' # <<>> /\ Len(frames') = Len(frames)
           /\ Same(Len(frames) - 1)
           /\ frames'[Len(frames)] =
                [Top EXCEPT !.pending = Nodes[Top.label].back, !.parts = {union(Top.parts)}, !.seeded = TRUE]
           /\ frames'[Len(frames)] \in LoopFrames
           /\ union(Top.parts) \in Type
           /\ Shape' /\ LoopsInFlight'
<1> DEFINE seed == union(Top.parts)
           new == [Top EXCEPT !.pending = Nodes[Top.label].back, !.parts = {seed}, !.seeded = TRUE]
<1>1. /\ Looping /\ UNCHANGED <<unit, answer, depth>>
      /\ frames' = Append(Below, new)
      /\ provisional' = Put(provisional, <<Top.label, Top.symbol>>, seed)
  BY DEF LoopSeed
<1>2. seed \in Type /\ Nodes[Top.label].back \in Seq(DOMAIN Nodes)
  BY <1>1, LoopTop, UnionType, NodeFacts DEF Structure
<1>3. new \in LoopFrames /\ new.kind = "loop" /\ new.label = Top.label /\ new.symbol = Top.symbol
  <2>1. Top \in LoopFrames
    BY <1>1, LoopTop
  <2> HIDE DEF seed
  <2> QED
    BY <1>2, <2>1 DEF LoopFrames
<1> HIDE DEF new
<1>4. /\ frames' \in Seq(Frames) /\ frames' # <<>> /\ Len(frames') = Len(frames)
      /\ Same(Len(frames) - 1) /\ frames'[Len(frames)] = new
  BY <1>1, <1>3, LoopTop, FramesReplaced DEF Same, Structure, Types, Frames
<1>5. DOMAIN provisional' = DOMAIN provisional
  BY <1>1, LoopTop DEF Put
<1>6. /\ frames[Len(frames)] \in LoopFrames
      /\ frames'[Len(frames)].kind = "loop" /\ frames'[Len(frames)].label = frames[Len(frames)].label
      /\ frames'[Len(frames)].symbol = frames[Len(frames)].symbol
  BY <1>1, <1>3, <1>4, LoopTop
<1>7. Len(frames) \in 1..Len(frames) /\ \A i \in 1..Len(frames) : ~(i > Len(frames))
  BY <1>1, LoopTop
<1>8. Shape' /\ LoopsInFlight'
  BY <1>1, <1>4, <1>5, <1>6, <1>7, LoopReplaced
<1> QED
  BY <1>2, <1>3, <1>4, <1>8 DEF new

LEMMA LoopSeedStructure ==
    ASSUME Structure, LoopSeed PROVE Structure'
<1>1. frames' \in Seq(Frames) /\ Shape' /\ LoopsInFlight' /\ union(Top.parts) \in Type
  BY LoopSeedFrames
<1>2. /\ Looping /\ UNCHANGED <<unit, declared, memo, depth, answer, exhausted>>
      /\ provisional' = Put(provisional, <<Top.label, Top.symbol>>, union(Top.parts))
  BY DEF LoopSeed
<1>3. Typed(memo)' /\ depth' \in Nat /\ exhausted' \in BOOLEAN
  BY <1>2 DEF Structure, Types, Typed, Nodes
<1>4. Typed(provisional)'
  <2>1. /\ DOMAIN provisional' = (DOMAIN provisional) \cup {<<Top.label, Top.symbol>>}
        /\ provisional'[<<Top.label, Top.symbol>>] = union(Top.parts)
        /\ \A i \in (DOMAIN provisional) \ {<<Top.label, Top.symbol>>} : provisional'[i] = provisional[i]
    BY <1>2 DEF Put
  <2>2. Top.label \in DOMAIN Nodes /\ Top.symbol \in Symbols
    BY <1>2, LoopTop
  <2>3. ASSUME NEW k \in DOMAIN provisional'
        PROVE  k \in (DOMAIN Nodes) \X Symbols /\ provisional'[k] \in Type
    BY <1>1, <2>1, <2>2 DEF Structure, Types, Typed
  <2> QED
    BY <1>2, <2>3 DEF Typed, Nodes, Type
<1>5. Types'
  BY <1>1, <1>2, <1>3, <1>4, TypesKept, LoopTop
<1> QED
  BY <1>1, <1>5 DEF Structure

(* The caller of the frame on top.                                         *)
LEMMA CallerFacts ==
    ASSUME Structure, frames # <<>>
    PROVE  /\ Below = <<>> <=> Len(frames) = 1
           /\ Len(frames) >= 2 => Below[Len(Below)] = frames[Len(frames) - 1]
           /\ Len(frames) \in Nat \ {0}
<1>1. /\ Below \in Seq(Frames) /\ Len(Below) = Len(frames) - 1 /\ Len(frames) \in Nat \ {0}
      /\ \A i \in 1..(Len(frames) - 1) : Below[i] = frames[i]
  BY PopProperties DEF Below, Structure, Types
<1>2. Below = <<>> <=> Len(frames) = 1
  <2>1. Below = <<>> <=> Len(Below) = 0
    BY <1>1, SeqFacts
  <2> QED
    BY <1>1, <2>1
<1>3. Len(frames) >= 2 => Len(frames) - 1 \in 1..(Len(frames) - 1)
  BY <1>1
<1> QED
  BY <1>1, <1>2, <1>3

LEMMA LoopDoneFrames ==
    ASSUME Structure, LoopDone
    PROVE  LET caller == frames[Len(frames) - 1]
           IN  /\ frames' \in Seq(Frames) /\ frames' # <<>> /\ Len(frames') = Len(frames) - 1
               /\ Same(Len(frames) - 2)
               /\ frames'[Len(frames) - 1] \in WalkFrames
               /\ frames'[Len(frames) - 1].scratch = Put(caller.scratch, Top.label, union(Top.parts))
               /\ frames'[Len(frames) - 1].stack = SubSeq(caller.stack, 1, Len(caller.stack) - 1)
               /\ union(Top.parts) \in Type
               /\ Shape' /\ LoopsInFlight' /\ depth' \in Nat
<1> DEFINE K == Len(frames)
           caller == frames[K - 1]
           popped == SubSeq(caller.stack, 1, Len(caller.stack) - 1)
           result == union(Top.parts)
           scratch == Put(caller.scratch, Top.label, result)
           new == [caller EXCEPT !.stack = popped, !.scratch = scratch]
<1>1. /\ Looping /\ unit' = unit /\ answer' = answer
      /\ provisional' = Drop(provisional, <<Top.label, Top.symbol>>)
      /\ depth' = depth - 1
  BY DEF LoopDone
<1>2. /\ K \in Nat /\ K >= 2 /\ K \in 1..K /\ K - 1 \in 1..K /\ frames # <<>> /\ Top = frames[K]
      /\ Top \in LoopFrames /\ Top.kind = "loop" /\ Top.label \in DOMAIN Nodes
      /\ Top.symbol = answer.ref[1]
      /\ caller \in WalkFrames /\ caller.stack # <<>> /\ caller.stack[Len(caller.stack)] = Top.label
      /\ frames \in Seq(Frames)
  BY <1>1, LoopTop DEF Structure, Types
<1>3. frames' = Append(Lower, new)
  <2>1. Below[Len(Below)] = caller
    BY <1>2, CallerFacts
  <2> QED
    BY <2>1 DEF LoopDone, Lower
<1>4. result \in Type
  BY <1>1, LoopTop, UnionType
<1> HIDE DEF caller, result
<1>5. /\ caller.stack \in Seq(DOMAIN Nodes) /\ caller.scratch \in Scratches
      /\ caller.flow \in DOMAIN Nodes /\ caller.symbol \in Symbols /\ caller.kind = "walk"
  BY <1>2 DEF WalkFrames
<1>6. scratch \in Scratches /\ Top.label \in DOMAIN scratch
  <2>1. scratch \in Scratches
    BY <1>2, <1>4, <1>5, ScratchPut
  <2>2. DOMAIN scratch = (DOMAIN caller.scratch) \cup {Top.label}
    BY DEF Put
  <2> HIDE DEF scratch
  <2> QED
    BY <2>1, <2>2
<1>7. /\ popped \in Seq(DOMAIN Nodes) /\ Len(popped) = Len(caller.stack) - 1
      /\ \A i \in 1..(Len(caller.stack) - 1) : popped[i] = caller.stack[i]
      /\ Len(caller.stack) \in Nat \ {0}
  BY <1>2, <1>5, PopProperties
<1> HIDE DEF scratch, popped
<1>8. /\ new \in WalkFrames /\ new.flow = caller.flow /\ new.stack = popped /\ new.scratch = scratch
      /\ new.kind = "walk" /\ new.symbol = caller.symbol
  BY <1>2, <1>6, <1>7 DEF WalkFrames
<1> HIDE DEF new
<1>9. /\ frames' \in Seq(Frames) /\ frames' # <<>> /\ Len(frames') = K - 1
      /\ Same(K - 2) /\ frames'[K - 1] = new
  <2>1. new \in Frames
    BY <1>8 DEF Frames
  <2> QED
    BY <1>2, <1>3, <2>1, FramesReturned DEF Same
<1>10. ShapeAt(unit, answer.ref, frames, K - 1)
  BY <1>2 DEF Structure, Shape
<1>11. IF popped = <<>> THEN caller.flow \in DOMAIN scratch ELSE popped[1] = caller.flow
  <2>1. caller.stack[1] = caller.flow
    BY <1>2, <1>5, <1>10, Zenon DEF ShapeAt, caller
  <2>2. CASE popped = <<>>
    <3>1. Len(caller.stack) = 1
      BY <1>7, <2>2, SeqFacts
    <3> QED
      BY <1>2, <1>6, <2>1, <2>2, <3>1
  <2>3. CASE popped # <<>>
    <3>1. Len(popped) # 0
      BY <1>7, <2>3, SeqFacts
    <3>2. 1 \in 1..(Len(caller.stack) - 1)
      <4>1. \A m \in Nat \ {0} : m - 1 # 0 => 1 \in 1..(m - 1)
        OBVIOUS
      <4> QED
        BY <1>7, <3>1, <4>1
    <3> QED
      BY <1>7, <2>1, <2>3, <3>2
  <2> QED
    BY <2>2, <2>3
<1>12. ShapeAt(unit, answer.ref, frames', K - 1)
  <2>1. K - 1 # 1 => frames'[(K - 1) - 1] = frames[(K - 1) - 1]
    <3>1. K - 1 # 1 => (K - 1) - 1 \in 1..(K - 2)
      <4>1. \A m \in Nat : m >= 2 /\ m - 1 # 1 => (m - 1) - 1 \in 1..(m - 2)
        OBVIOUS
      <4>2. K \in Nat /\ K >= 2
        BY <1>2
      <4> QED
        BY <4>1, <4>2
    <3> QED
      BY <1>9, <3>1 DEF Same
  <2>2. "walk" # "loop"
    OBVIOUS
  <2>3. frames[K - 1] = caller
    BY DEF caller
  <2>4. /\ new.kind = (IF (K - 1) % 2 = 1 THEN "walk" ELSE "loop") /\ new.symbol = answer.ref[1]
        /\ IF new.stack = <<>> THEN new.flow \in DOMAIN new.scratch ELSE new.stack[1] = new.flow
        /\ IF K - 1 = 1 THEN new.flow = unit.refs[answer.ref]
           ELSE frames'[(K - 1) - 1].pending # <<>> /\ new.flow = Head(frames'[(K - 1) - 1].pending)
    BY <1>5, <1>8, <1>10, <1>11, <2>1, <2>3, Zenon DEF ShapeAt
  <2> QED
    BY <1>8, <1>9, <2>2, <2>4, Zenon DEF ShapeAt
<1>13. Shape'
  <2>1. /\ K - 1 \in Nat \ {0} /\ K - 1 <= Len(frames) + 1 /\ answer'.ref = answer.ref
        /\ (K - 1) - 1 = K - 2
    BY <1>1, <1>2
  <2>2. \A i \in 1..((K - 1) - 1) : frames'[i] = frames[i]
    BY <1>9, <2>1 DEF Same
  <2> QED
    BY <1>1, <1>9, <1>12, <2>1, <2>2, ShapeKept DEF Structure
<1>14. LoopsRight(frames, depth, provisional)
  BY <1>2, LoopsRestated DEF Structure
<1>15. LoopsOf(frames') = LoopsOf(frames) \ {K}
  <2>1. \A i \in 1..K : i \in 1..(K - 2) \/ i = K - 1 \/ i = K
    BY <1>2
  <2>2. \A i \in 1..(K - 1) : i \in 1..K /\ i # K
    BY <1>2
  <2>3. \A i \in 1..(K - 2) : i \in 1..(K - 1)
    BY <1>2
  <2>4. frames[K - 1].kind = "walk" /\ frames'[K - 1].kind = "walk"
    BY <1>5, <1>8, <1>9 DEF caller
  <2>5. \A i \in 1..(K - 2) : frames'[i] = frames[i]
    BY <1>9 DEF Same
  <2> QED
    BY <1>9, <2>1, <2>2, <2>3, <2>4, <2>5 DEF LoopsOf
<1>16. K \in LoopsOf(frames) /\ IsFiniteSet(LoopsOf(frames))
  <2>1. IsFiniteSet(1..K) /\ LoopsOf(frames) \subseteq 1..K
    BY <1>2, FS_Interval DEF LoopsOf
  <2> QED
    BY <1>2, <2>1, FS_Subset DEF LoopsOf
<1>17. depth' = Cardinality(LoopsOf(frames')) /\ depth' \in Nat
  <2>1. IsFiniteSet(LoopsOf(frames'))
    BY <1>15, <1>16, FS_RemoveElement
  <2>2. Cardinality(LoopsOf(frames')) = Cardinality(LoopsOf(frames)) - 1
    BY <1>15, <1>16, FS_RemoveElement
  <2> QED
    BY <1>1, <1>14, <2>1, <2>2, FS_CardinalityType DEF LoopsRight
<1>18. \A i \in LoopsOf(frames') : frames'[i] = frames[i]
  <2>1. \A i \in LoopsOf(frames') : i \in 1..(K - 2)
    <3>1. \A i \in 1..(K - 1) : i \in 1..(K - 2) \/ i = K - 1
      BY <1>2
    <3>2. "walk" # "loop"
      OBVIOUS
    <3> QED
      BY <1>8, <1>9, <3>1, <3>2 DEF LoopsOf
  <2> QED
    BY <1>9, <2>1 DEF Same
<1>19. DOMAIN provisional' = {<<frames'[i].label, frames'[i].symbol>> : i \in LoopsOf(frames')}
  <2>1. DOMAIN provisional' = (DOMAIN provisional) \ {<<Top.label, Top.symbol>>}
    BY <1>1 DEF Drop
  <2>2. DOMAIN provisional = {<<frames[i].label, frames[i].symbol>> : i \in LoopsOf(frames)}
    BY <1>14 DEF LoopsRight
  <2>3. \A i \in LoopsOf(frames') : frames[i].label # Top.label /\ i \in LoopsOf(frames)
    BY <1>2, <1>14, <1>15, <1>16 DEF LoopsRight
  <2>4. \A i \in LoopsOf(frames) : i \in LoopsOf(frames') \/ i = K
    BY <1>15
  <2> QED
    BY <1>2, <1>18, <2>1, <2>2, <2>3, <2>4
<1>20. \A i, j \in LoopsOf(frames') : frames'[i].label = frames'[j].label => i = j
  BY <1>14, <1>15, <1>18 DEF LoopsRight
<1>21. LoopsInFlight'
  <2>1. DOMAIN frames' = 1..Len(frames')
    BY <1>9, SeqFacts
  <2> QED
    BY <1>17, <1>19, <1>20, <2>1 DEF LoopsInFlight, LoopsOf
<1> QED
  BY <1>4, <1>8, <1>9, <1>13, <1>17, <1>21 DEF caller, scratch, result, popped

LEMMA LoopDoneStructure ==
    ASSUME Structure, LoopDone PROVE Structure'
<1>1. frames' \in Seq(Frames) /\ Shape' /\ LoopsInFlight' /\ union(Top.parts) \in Type /\ depth' \in Nat
  BY LoopDoneFrames
<1>2. /\ Looping /\ UNCHANGED <<unit, declared, answer, exhausted>>
      /\ provisional' = Drop(provisional, <<Top.label, Top.symbol>>)
      /\ memo' = memo \/ memo' = Put(memo, <<Top.label, Top.symbol>>, union(Top.parts))
  BY DEF LoopDone
<1>3. Typed(memo)' /\ exhausted' \in BOOLEAN
  BY <1>1, <1>2, LoopTop, MemoPut DEF Structure, Types
<1>4. Typed(provisional)'
  <2>1. /\ DOMAIN provisional' \subseteq DOMAIN provisional
        /\ \A i \in DOMAIN provisional' : provisional'[i] = provisional[i]
    BY <1>2 DEF Drop
  <2> QED
    BY <1>2, <2>1 DEF Structure, Types, Typed, Nodes, Type
<1>5. Types'
  BY <1>1, <1>2, <1>3, <1>4, TypesKept, LoopTop
<1> QED
  BY <1>1, <1>5 DEF Structure

(* The type a walk returns, and what asked for it.                         *)
LEMMA ReturnFacts ==
    ASSUME Structure, Return
    PROVE  /\ Walking /\ Top.flow \in DOMAIN Top.scratch /\ Top.scratch[Top.flow] \in Type
           /\ Len(frames) = 1 =>
                /\ Top.flow = unit.refs[answer.ref]
                /\ frames' = <<>> /\ answer' = [answer EXCEPT !.type = Top.scratch[Top.flow]]
           /\ Len(frames) # 1 =>
                LET loop == frames[Len(frames) - 1]
                IN  /\ Len(frames) >= 2 /\ loop \in LoopFrames /\ loop.pending # <<>>
                    /\ Top.flow = Head(loop.pending) /\ answer' = answer
                    /\ frames' = Append(Lower, Part(loop, Top.scratch[Top.flow]))
<1>1. Walking /\ Top.stack = <<>> /\ frames # <<>>
  BY DEF Return, Walking
<1>2. Top.flow \in DOMAIN Top.scratch
  BY <1>1, WalkTop
<1>3. Top.scratch[Top.flow] \in Type
  BY <1>1, <1>2, WalkTop, ScratchTyped
<1>4. /\ Len(frames) \in Nat \ {0} /\ Len(frames) \in 1..Len(frames)
      /\ Top = frames[Len(frames)] /\ Top \in WalkFrames /\ Top.kind = "walk"
  BY <1>1, WalkTop DEF Walking
<1>5. ShapeAt(unit, answer.ref, frames, Len(frames))
  BY <1>4 DEF Structure, Shape
<1>6. IF Len(frames) = 1 THEN Top.flow = unit.refs[answer.ref]
      ELSE frames[Len(frames) - 1].pending # <<>> /\ Top.flow = Head(frames[Len(frames) - 1].pending)
  BY <1>4, <1>5, Zenon DEF ShapeAt
<1>7. CASE Len(frames) = 1
  BY <1>1, <1>2, <1>3, <1>6, <1>7, CallerFacts DEF Return
<1>8. CASE Len(frames) # 1
  <2>1. Len(frames) >= 2 /\ frames[Len(frames) - 1] \in LoopFrames
    BY <1>4, <1>8, BelowFacts DEF Structure
  <2>2. Below # <<>> /\ Below[Len(Below)] = frames[Len(frames) - 1]
    BY <1>1, <1>8, <2>1, CallerFacts
  <2>3. /\ frames' = Append(Lower, Part(frames[Len(frames) - 1], Top.scratch[Top.flow]))
        /\ answer' = answer
    BY <2>2 DEF Return, Lower
  <2> QED
    BY <1>1, <1>2, <1>3, <1>6, <1>8, <2>1, <2>3
<1> QED
  BY <1>7, <1>8

LEMMA ReturnFrames ==
    ASSUME Structure, Return, Len(frames) # 1
    PROVE  /\ frames' \in Seq(Frames) /\ frames' # <<>> /\ Len(frames') = Len(frames) - 1
           /\ Same(Len(frames) - 2)
           /\ frames'[Len(frames) - 1] = Part(frames[Len(frames) - 1], Top.scratch[Top.flow])
           /\ Shape' /\ LoopsInFlight'
<1> DEFINE K == Len(frames)
           loop == frames[K - 1]
           new == Part(loop, Top.scratch[Top.flow])
<1>1. /\ Walking /\ K >= 2 /\ loop \in LoopFrames /\ loop.pending # <<>> /\ answer' = answer
      /\ Top.scratch[Top.flow] \in Type /\ frames' = Append(Lower, new)
  BY ReturnFacts
<1>2. /\ K \in Nat \ {0} /\ frames \in Seq(Frames) /\ Top = frames[K] /\ Top.kind = "walk"
      /\ UNCHANGED <<unit, depth, provisional>>
  BY <1>1, WalkTop DEF Structure, Types, Return, Walking
<1> HIDE DEF loop
<1>3. /\ new \in Frames /\ new.kind = "loop" /\ new.label = loop.label /\ new.symbol = loop.symbol
  BY <1>1, PartFacts DEF Frames
<1> HIDE DEF new
<1>4. /\ frames' \in Seq(Frames) /\ frames' # <<>> /\ Len(frames') = K - 1
      /\ Same(K - 2) /\ frames'[K - 1] = new
  BY <1>1, <1>2, <1>3, FramesReturned DEF Same
<1>5. K - 1 \in 1..Len(frames) /\ (K - 1) - 1 = K - 2
      /\ \A i \in 1..Len(frames) : i > K - 1 => i = K
  BY <1>1, <1>2
<1>6. \A i \in 1..Len(frames) : i > K - 1 => frames[i].kind # "loop"
  BY <1>2, <1>5
<1>7. /\ Same((K - 1) - 1) /\ frames[K - 1] \in LoopFrames
      /\ frames'[K - 1].kind = "loop" /\ frames'[K - 1].label = frames[K - 1].label
      /\ frames'[K - 1].symbol = frames[K - 1].symbol
  BY <1>1, <1>3, <1>4, <1>5 DEF loop
<1>8. Shape' /\ LoopsInFlight'
  <2>1. unit' = unit /\ answer' = answer /\ depth' = depth /\ DOMAIN provisional' = DOMAIN provisional
    BY <1>1, <1>2
  <2> QED
    BY <1>4, <1>5, <1>6, <1>7, <2>1, LoopReplaced
<1> QED
  BY <1>4, <1>8 DEF new, loop

(* Without frames no loop is in flight.                                    *)
LEMMA EmptyStack ==
    ASSUME frames = <<>>
    PROVE  /\ Shape /\ frames \in Seq(Frames)
           /\ LoopsInFlight <=> depth = 0 /\ DOMAIN provisional = {}
<1>1. frames \in Seq(Frames) /\ Len(frames) = 0 /\ DOMAIN frames = {}
  <2>1. <<>> \in Seq(Frames) /\ Len(<<>>) = 0 /\ DOMAIN <<>> = {}
    BY EmptySeq, ScratchEmpty
  <2> QED
    BY <2>1
<1>2. Shape
  BY <1>1 DEF Shape
<1>3. {i \in DOMAIN frames : frames[i].kind = "loop"} = {}
  BY <1>1
<1>4. Cardinality({}) = 0
  BY FS_EmptySet
<1> QED
  BY <1>1, <1>2, <1>3, <1>4 DEF LoopsInFlight

LEMMA ReturnStructure ==
    ASSUME Structure, Return PROVE Structure'
<1>1. Typed(memo)' /\ Typed(provisional)' /\ depth' \in Nat /\ exhausted' \in BOOLEAN
      /\ UNCHANGED <<unit, declared, provisional, depth>>
  BY DEF Structure, Types, Typed, Nodes, Return
<1>2. CASE Len(frames) # 1
  <2>1. frames' \in Seq(Frames) /\ Shape' /\ LoopsInFlight' /\ answer' = answer
    BY <1>2, ReturnFacts, ReturnFrames
  <2>2. Types'
    BY <1>1, <2>1, TypesKept DEF Return, Walking
  <2> QED
    BY <2>1, <2>2 DEF Structure
<1>3. CASE Len(frames) = 1
  <2>1. /\ Walking /\ frames' = <<>> /\ answer' = [answer EXCEPT !.type = Top.scratch[Top.flow]]
        /\ Top.scratch[Top.flow] \in Type
    BY <1>3, ReturnFacts
  <2>2. /\ frames # <<>> /\ answer.ref \in Refs /\ answer \in [ref : Refs \cup {<<>>}, type : Type]
        /\ Top = frames[1] /\ Top.kind = "walk" /\ frames \in Seq(Frames)
    BY <1>3, <2>1, WalkTop DEF Structure, Types, Walking
  <2>3. answer' \in [ref : Refs \cup {<<>>}, type : Type] /\ answer'.ref = answer.ref
    BY <2>1, <2>2
  <2>4. LoopsOf(frames) = {}
    <3>1. \A i \in 1..1 : i = 1
      OBVIOUS
    <3> QED
      BY <1>3, <2>2, <3>1 DEF LoopsOf
  <2>5. LoopsRight(frames, depth, provisional)
    BY <2>2, LoopsRestated DEF Structure
  <2>6. depth = 0 /\ DOMAIN provisional = {}
    BY <2>4, <2>5, FS_EmptySet DEF LoopsRight
  <2>7. (frames = <<>> /\ depth = 0 /\ DOMAIN provisional = {})'
    BY <1>1, <2>1, <2>6
  <2>8. Shape' /\ LoopsInFlight' /\ (frames \in Seq(Frames))'
    BY <2>7, EmptyStack, PTL
  <2>9. Types'
    <3>1. Refs' = Refs /\ Type' = Type
      BY <1>1 DEF Refs, Type
    <3> QED
      BY <1>1, <2>1, <2>2, <2>3, <2>8, <3>1 DEF Structure, Types
  <2> QED
    BY <2>8, <2>9 DEF Structure
<1> QED
  BY <1>2, <1>3

LEMMA ResolveStructure ==
    ASSUME Structure, NEW r \in Refs, Resolve(r) PROVE Structure'
<1> DEFINE n == unit.refs[r]
           s == r[1]
<1>1. frames = <<>> /\ UNCHANGED <<unit, declared, memo, provisional, depth, exhausted>>
  BY DEF Resolve
<1>2. s \in Symbols /\ n \in (DOMAIN Nodes) \cup {UNREACHABLE}
  BY NodeFacts DEF Structure
<1>3. depth = 0 /\ DOMAIN provisional = {}
  BY <1>1, EmptyStack DEF Structure
<1>4. Refs' = Refs /\ Type' = Type /\ Frames' = Frames
  BY <1>1 DEF Refs, Type, Frames, WalkFrames, LoopFrames, Scratches, Nodes
<1>5. Typed(memo)' /\ Typed(provisional)' /\ depth' \in Nat /\ exhausted' \in BOOLEAN
  BY <1>1 DEF Structure, Types, Typed, Nodes
<1>6. CASE Cached(n, s)
  <2>1. answer' = [ref |-> r, type |-> flow_lookup_cached(n, s)] /\ frames' = frames
    BY <1>6 DEF Resolve
  <2>2. flow_lookup_cached(n, s) \in Type
    BY <1>2, <1>6, CachedType DEF Structure
  <2>3. (frames = <<>> /\ depth = 0 /\ DOMAIN provisional = {})'
    BY <1>1, <1>3, <2>1
  <2>4. Shape' /\ LoopsInFlight' /\ (frames \in Seq(Frames))'
    BY <2>3, EmptyStack, PTL
  <2>5. answer' \in [ref : Refs \cup {<<>>}, type : Type] /\ answer'.ref \in Refs
    <3> HIDE DEF n, s
    <3> QED
      BY <2>1, <2>2
  <2>6. Types'
    BY <1>1, <1>4, <1>5, <2>4, <2>5 DEF Structure, Types
  <2> QED
    BY <2>4, <2>6 DEF Structure
<1>7. CASE ~Cached(n, s)
  <2>1. answer' = [ref |-> r, type |-> {}] /\ frames' = <<Walk(n, s)>>
    BY <1>7 DEF Resolve
  <2>2. n \in DOMAIN Nodes
    BY <1>2, <1>7 DEF Cached, Sentinel
  <2>3. /\ Walk(n, s) \in WalkFrames /\ Walk(n, s).kind = "walk" /\ Walk(n, s).flow = n
        /\ Walk(n, s).symbol = s /\ Walk(n, s).stack # <<>> /\ Walk(n, s).stack[1] = n
    BY <1>2, <2>2, WalkFacts
  <2>4. /\ frames' \in Seq(Frames) /\ frames' # <<>> /\ Len(frames') = 1
        /\ frames'[1] = Walk(n, s) /\ DOMAIN frames' = 1..1
    <3>1. Walk(n, s) \in Frames
      BY <2>3 DEF Frames
    <3> HIDE DEF n, s
    <3>2. ASSUME NEW w \in Frames
          PROVE  <<w>> \in Seq(Frames) /\ <<w>> # <<>> /\ Len(<<w>>) = 1 /\ <<w>>[1] = w
                 /\ DOMAIN <<w>> = 1..1
      OBVIOUS
    <3> QED
      BY <2>1, <3>1, <3>2, Zenon
  <2>5. {} \in Type
    BY DEF Type
  <2>6. answer' \in [ref : Refs \cup {<<>>}, type : Type] /\ answer'.ref = r
    BY <2>1, <2>5
  <2>7. Types'
    BY <1>1, <1>4, <1>5, <2>4, <2>6 DEF Structure, Types
  <2>8. ShapeAt(unit', answer'.ref, frames', 1)
    <3>1. "walk" # "loop" /\ 1 % 2 = 1
      OBVIOUS
    <3> QED
      BY <1>1, <2>3, <2>4, <2>6, <3>1, Zenon DEF ShapeAt
  <2>9. Shape'
    <3>1. \A i \in 1..1 : i = 1
      OBVIOUS
    <3> QED
      BY <2>4, <2>8, <3>1 DEF Shape
  <2>10. LoopsInFlight'
    <3>1. {i \in DOMAIN frames' : frames'[i].kind = "loop"} = {}
      <4>1. \A i \in 1..1 : i = 1
        OBVIOUS
      <4> QED
        BY <2>3, <2>4, <4>1
    <3> QED
      BY <1>1, <1>3, <3>1, FS_EmptySet DEF LoopsInFlight
  <2> QED
    BY <2>7, <2>9, <2>10 DEF Structure
<1> QED
  BY <1>6, <1>7

LEMMA PublishStructure ==
    ASSUME Structure, NEW s \in Symbols, Publish(s) PROVE Structure'
<1>1. /\ frames = <<>> /\ frames' = frames /\ answer' = NoAnswer
      /\ UNCHANGED <<unit, provisional, depth, exhausted>>
      /\ declared' = [declared EXCEPT ![s] = Declared[s]]
      /\ memo' = [k \in {k \in DOMAIN memo : k[2] # s} |-> memo[k]]
  BY DEF Publish
<1>2. depth = 0 /\ DOMAIN provisional = {}
  BY <1>1, EmptyStack DEF Structure
<1>3. (frames = <<>> /\ depth = 0 /\ DOMAIN provisional = {})'
  BY <1>1, <1>2
<1>4. Shape' /\ LoopsInFlight' /\ (frames \in Seq(Frames))'
  BY <1>3, EmptyStack, PTL
<1>5. Refs' = Refs /\ Type' = Type
  BY <1>1 DEF Refs, Type
<1>6. declared' \in [Symbols -> Type] /\ \A x \in Symbols : declared'[x] \in {Declared[x], {AnyType}}
  <2>1. Declared[s] \in Type
    BY TypesAssumption DEF Type
  <2> QED
    BY <1>1, <2>1 DEF Structure, Types
<1>7. Typed(memo)'
  <2>1. \A k \in DOMAIN memo' : k \in DOMAIN memo /\ memo'[k] = memo[k]
    BY <1>1
  <2> QED
    BY <1>1, <2>1 DEF Structure, Types, Typed, Nodes, Type
<1>8. NoAnswer \in [ref : Refs \cup {<<>>}, type : Type] /\ NoAnswer' = NoAnswer
  BY DEF NoAnswer, Type
<1>9. Types'
  <2>1. Typed(provisional)' /\ depth' \in Nat /\ exhausted' \in BOOLEAN /\ unit' \in Units
    BY <1>1 DEF Structure, Types, Typed, Nodes
  <2> QED
    BY <1>1, <1>4, <1>5, <1>6, <1>7, <1>8, <2>1 DEF Types
<1> QED
  BY <1>4, <1>9 DEF Structure

LEMMA StructureInit == Init => Structure
<1> SUFFICES ASSUME Init PROVE Structure
  OBVIOUS
<1>1. /\ unit \in Units /\ memo = <<>> /\ provisional = <<>> /\ depth = 0
      /\ frames = <<>> /\ answer = NoAnswer /\ exhausted = FALSE
      /\ declared = [s \in Symbols |-> IF s \in Late THEN {AnyType} ELSE Declared[s]]
  BY DEF Init
<1>2. DOMAIN memo = {} /\ DOMAIN provisional = {}
  BY <1>1, ScratchEmpty
<1>3. Shape /\ LoopsInFlight /\ frames \in Seq(Frames)
  BY <1>1, <1>2, EmptyStack
<1>4. NoAnswer \in [ref : Refs \cup {<<>>}, type : Type]
  BY DEF NoAnswer, Type
<1>5. declared \in [Symbols -> Type] /\ \A s \in Symbols : declared[s] \in {Declared[s], {AnyType}}
  <2>1. \A s \in Symbols : Declared[s] \in Type /\ {AnyType} \in Type
    BY TypesAssumption DEF Type
  <2> QED
    BY <1>1, <2>1
<1>6. Types
  BY <1>1, <1>2, <1>3, <1>4, <1>5 DEF Types, Typed
<1> QED
  BY <1>3, <1>6 DEF Structure

LEMMA StructureStep == Structure /\ [Next]_vars => Structure'
<1> SUFFICES ASSUME Structure, [Next]_vars PROVE Structure'
  OBVIOUS
<1>1. CASE UNCHANGED vars
  <2>1. UNCHANGED <<unit, declared, memo, provisional, depth, frames, answer, exhausted>>
    BY <1>1 DEF vars
  <2>2. Refs' = Refs /\ Type' = Type /\ Frames' = Frames
    BY <2>1 DEF Refs, Type, Frames, WalkFrames, LoopFrames, Scratches, Nodes
  <2>3. Types'
    BY <2>1, <2>2 DEF Structure, Types, Typed, Nodes
  <2>4. Shape' /\ LoopsInFlight'
    BY <2>1 DEF Structure, Shape, LoopsInFlight
  <2> QED
    BY <2>3, <2>4 DEF Structure
<1>2. CASE Next
  BY <1>2, ResolveStructure, PublishStructure, VisitAssignmentStructure, VisitConditionStructure,
     VisitBranchStructure, EnterLoopStructure, LoopPartStructure, LoopSeedStructure,
     LoopDoneStructure, ReturnStructure DEF Next, Walks
<1> QED
  BY <1>1, <1>2

LEMMA StructureAlways == Spec => []Structure
<1> QED
  BY StructureInit, StructureStep, PTL DEF Spec

LEMMA StructureTypes == Structure => TypeOK
<1> SUFFICES ASSUME Structure PROVE TypeOK
  OBVIOUS
<1>1. DOMAIN frames = 1..Len(frames)
  BY SeqFacts DEF Structure, Types
<1>2. ASSUME NEW i \in 1..Len(frames)
      PROVE  /\ frames[i].kind = (IF i % 2 = 1 THEN "walk" ELSE "loop")
             /\ frames[i].symbol = answer.ref[1]
             /\ frames[i].kind = "walk" =>
                  /\ \A j \in DOMAIN frames[i].stack : frames[i].stack[j] \in DOMAIN Nodes
                  /\ \A n \in DOMAIN frames[i].scratch : frames[i].scratch[n] \in Type
  <2>1. /\ frames[i].kind = (IF i % 2 = 1 THEN "walk" ELSE "loop")
        /\ frames[i].symbol = answer.ref[1]
    BY DEF Structure, Shape, ShapeAt
  <2>2. ASSUME frames[i].kind = "walk"
        PROVE  /\ \A j \in DOMAIN frames[i].stack : frames[i].stack[j] \in DOMAIN Nodes
               /\ \A n \in DOMAIN frames[i].scratch : frames[i].scratch[n] \in Type
    <3>1. frames[i].stack \in Seq(DOMAIN Nodes) /\ frames[i].scratch \in Scratches
      BY <2>2, FrameFacts DEF Structure, WalkFrames
    <3> QED
      BY <3>1, SeqFacts, ScratchTyped
  <2> QED
    BY <2>1, <2>2
<1> QED
  BY <1>1, <1>2 DEF Structure, Types, TypeOK, Typed

(* Every variable of the narrowing walk holds a value of its type, and the *)
(* frames of resolve_narrowed_type and resolve_loop_label alternate, all   *)
(* for the symbol of the reference being resolved.                         *)
THEOREM FlowTypesAlways == Spec => []TypeOK
<1> QED
  BY StructureAlways, StructureTypes, PTL

(* On every graph the seeds, the depth that suspends the memo and the      *)
(* loops on the call stack agree, and no label is resolved inside its own  *)
(* resolution.                                                             *)
THEOREM LoopsInFlightAlways == Spec => []LoopsInFlight
<1>1. Structure => LoopsInFlight
  BY DEF Structure
<1> QED
  BY <1>1, StructureAlways, PTL

(***************************************************************************)
(* Soundness.  A frame at position i works inside the resolution of the    *)
(* labels of the loops below it.  Each of these is held at its seed, as    *)
(* far as the seed is right.                                               *)
(***************************************************************************)
Cov(t, v) == AnyType \in t \/ v \in t

Labels(fs, i) == {fs[j].label : j \in {k \in 1..(i - 1) : fs[k].kind = "loop"}}
Held(u, s, fs, prov, v, i) ==
    {l \in Labels(fs, i) : Cov(prov[<<l, s>>], v) /\ l \in Flows(u, s, v)}
Inside(u, s, fs, prov, v, i) ==
    Gets(u, s, v, Labels(fs, i), Held(u, s, fs, prov, v, i))

(* The antecedents of a label that are accounted for.                      *)
Elements(p) == {p[k] : k \in DOMAIN p}
Done(u, f) ==
    (Elements(u.nodes[f.label].pre)
       \cup (IF f.seeded THEN Elements(u.nodes[f.label].back) ELSE {})) \ Elements(f.pending)

(* What a walk has worked out covers what gets there.  What the parts of a *)
(* loop do not cover comes from no antecedent accounted for, even with the *)
(* label itself held empty: so the seed, which is only a guess while the   *)
(* back edges are walked, does no harm.                                    *)
FrameSound(u, s, fs, prov, i) ==
    \A v \in Values :
      /\ fs[i].kind = "walk" =>
           \A n \in DOMAIN fs[i].scratch :
             Cov(fs[i].scratch[n], v) \/ n \notin Inside(u, s, fs, prov, v, i)
      /\ fs[i].kind = "loop" =>
           \/ \E t \in fs[i].parts : Cov(t, v)
           \/ Done(u, fs[i]) \cap Gets(u, s, v, Labels(fs, i) \cup {fs[i].label},
                                        Held(u, s, fs, prov, v, i)) = {}

MemoSound ==
    \A k \in DOMAIN memo : \A v \in Values :
      Cov(memo[k], v) \/ k[1] \notin Flows(unit, k[2], v)

AnswerSound ==
    frames = <<>> /\ answer # NoAnswer =>
      \A v \in Values :
        Cov(answer.type, v) \/ unit.refs[answer.ref] \notin Flows(unit, answer.ref[1], v)

FramesSound ==
    \A i \in 1..Len(frames) : FrameSound(unit, answer.ref[1], frames, provisional, i)

SoundInv == MemoSound /\ AnswerSound /\ FramesSound

-----------------------------------------------------------------------------

LEMMA ContextKept ==
    ASSUME NEW u, NEW s, NEW fs, NEW gs, NEW prov, NEW prov2, NEW i,
           \A j \in 1..(i - 1) : gs[j] = fs[j],
           \A l \in Labels(fs, i) : prov2[<<l, s>>] = prov[<<l, s>>]
    PROVE  /\ Labels(gs, i) = Labels(fs, i)
           /\ \A v : Held(u, s, gs, prov2, v, i) = Held(u, s, fs, prov, v, i)
<1>1. Labels(gs, i) = Labels(fs, i)
  BY DEF Labels
<1> QED
  BY <1>1 DEF Held

LEMMA FrameKept ==
    ASSUME NEW u, NEW s, NEW fs, NEW gs, NEW prov, NEW prov2, NEW i,
           \A j \in 1..(i - 1) : gs[j] = fs[j], gs[i] = fs[i],
           \A l \in Labels(fs, i) : prov2[<<l, s>>] = prov[<<l, s>>],
           FrameSound(u, s, fs, prov, i)
    PROVE  FrameSound(u, s, gs, prov2, i)
<1>1. /\ Labels(gs, i) = Labels(fs, i)
      /\ \A v : Held(u, s, gs, prov2, v, i) = Held(u, s, fs, prov, v, i)
  BY ContextKept
<1> QED
  BY <1>1 DEF FrameSound, Inside

LEMMA UnionCov ==
    ASSUME NEW T, NEW v, v # AnyType, ~Cov(union(T), v)
    PROVE  \A t \in T : ~Cov(t, v)
BY DEF Cov, union

(* The labels of all loops on the stack are what the seeds are for.        *)
LEMMA AllLabels ==
    ASSUME Structure, NEW s, frames = <<>> \/ s = answer.ref[1]
    PROVE  /\ DOMAIN provisional = {<<l, s>> : l \in Labels(frames, Len(frames) + 1)}
           /\ \A l \in Labels(frames, Len(frames) + 1) : l \in DOMAIN Nodes /\ ~Sentinel(l)
           /\ Len(frames) \in Nat
<1>1. Len(frames) \in Nat /\ frames \in Seq(Frames) /\ (Len(frames) + 1) - 1 = Len(frames)
  BY SeqFacts DEF Structure, Types
<1>2. Labels(frames, Len(frames) + 1) = {frames[j].label : j \in LoopsOf(frames)}
  BY <1>1 DEF Labels, LoopsOf
<1>3. \A j \in LoopsOf(frames) : /\ frames[j].symbol = s /\ frames[j].label \in DOMAIN Nodes
                                 /\ frames[j].label # START
  <2>1. ASSUME NEW j \in LoopsOf(frames)
        PROVE  /\ frames[j].symbol = s /\ frames[j].label \in DOMAIN Nodes
               /\ frames[j].label # START
    <3>1. j \in 1..Len(frames) /\ frames[j].kind = "loop"
      BY DEF LoopsOf
    <3>2. frames[j] \in LoopFrames /\ frames[j].symbol = s
      BY <3>1, FrameFacts DEF Structure
    <3> QED
      BY <3>2 DEF LoopFrames
  <2> QED
    BY <2>1
<1>4. LoopsRight(frames, depth, provisional)
  BY <1>1, LoopsRestated DEF Structure
<1>5. DOMAIN provisional = {<<frames[j].label, s>> : j \in LoopsOf(frames)}
  BY <1>3, <1>4 DEF LoopsRight
<1>6. UNREACHABLE \notin DOMAIN Nodes
  BY NodeFacts DEF Structure, UNREACHABLE
<1>7. \A l \in Labels(frames, Len(frames) + 1) : l \in DOMAIN Nodes /\ ~Sentinel(l)
  BY <1>2, <1>3, <1>6 DEF Sentinel
<1> QED
  BY <1>1, <1>2, <1>5, <1>7

(* The entry and unreachable code: a value is there only if declared.      *)
LEMMA SentinelFacts ==
    ASSUME Types, NEW s, NEW v, NEW n, Sentinel(n)
    PROVE  Feeds(unit, s, v, n) = {} /\ (Starts(unit, s, v, n) => v \in Declared[s])
<1>1. /\ UNREACHABLE \notin DOMAIN unit.nodes
      /\ unit.nodes[START].kind = "start"
  BY NodeFacts DEF UNREACHABLE, Nodes
<1>2. n \in DOMAIN unit.nodes => unit.nodes[n].kind = "start"
  BY <1>1 DEF Sentinel
<1> QED
  BY <1>2 DEF Feeds, Starts

(* What a cache answers covers what gets there.                            *)
LEMMA LookupSound ==
    ASSUME Structure, MemoSound, NEW s \in Symbols, NEW v \in Values, NEW n, Cached(n, s),
           frames = <<>> \/ s = answer.ref[1], ~Cov(flow_lookup_cached(n, s), v)
    PROVE  n \notin Inside(unit, s, frames, provisional, v, Len(frames) + 1)
<1> DEFINE L == Labels(frames, Len(frames) + 1)
           A == Held(unit, s, frames, provisional, v, Len(frames) + 1)
<1>1. /\ DOMAIN provisional = {<<l, s>> : l \in L}
      /\ \A l \in L : l \in DOMAIN Nodes /\ ~Sentinel(l)
  BY AllLabels
<1>2. A = {l \in L : Cov(provisional[<<l, s>>], v) /\ l \in Flows(unit, s, v)}
  BY DEF Held
<1> HIDE DEF L, A
<1>3. SUFFICES ASSUME n \in Gets(unit, s, v, L, A) PROVE FALSE
  BY DEF Inside, L, A
<1>4. Premise(unit, s, v, L, A, Gets(unit, s, v, L, A), n)
  BY <1>3, GetsBy
<1>5. CASE Sentinel(n)
  <2>1. n \notin L
    BY <1>1, <1>5
  <2>2. v \in Declared[s]
    BY <1>4, <1>5, <2>1, SentinelFacts DEF Premise, Structure
  <2>3. ~Cov(declared[s], v)
    BY <1>5 DEF flow_lookup_cached
  <2>4. declared[s] = Declared[s] \/ declared[s] = {AnyType}
    BY DEF Structure, Types
  <2> QED
    BY <2>2, <2>3, <2>4 DEF Cov
<1>6. CASE ~Sentinel(n) /\ <<n, s>> \in DOMAIN provisional
  <2>1. n \in L
    BY <1>1, <1>6
  <2>2. ~Cov(provisional[<<n, s>>], v)
    BY <1>6 DEF flow_lookup_cached
  <2> QED
    BY <1>2, <1>4, <2>1, <2>2 DEF Premise
<1>7. CASE ~Sentinel(n) /\ <<n, s>> \notin DOMAIN provisional
  <2>1. <<n, s>> \in DOMAIN memo /\ ~Cov(memo[<<n, s>>], v)
    BY <1>7 DEF Cached, flow_lookup_cached
  <2>2. n \notin Flows(unit, s, v)
    BY <2>1 DEF MemoSound
  <2>3. A \subseteq Flows(unit, s, v)
    BY <1>2
  <2> QED
    BY <1>3, <2>2, <2>3, GetsFlows
<1> QED
  BY <1>5, <1>6, <1>7

(* The labels held around the top frame.                                   *)
LEMMA WalkContext ==
    ASSUME Structure, Walking
    PROVE  /\ Labels(frames, Len(frames) + 1) = Labels(frames, Len(frames))
           /\ \A v : Inside(unit, Top.symbol, frames, provisional, v, Len(frames) + 1)
                      = Inside(unit, Top.symbol, frames, provisional, v, Len(frames))
<1>1. /\ Len(frames) \in Nat \ {0} /\ frames[Len(frames)].kind = "walk"
      /\ (Len(frames) + 1) - 1 = Len(frames)
  BY WalkTop DEF Walking
<1>2. \A k \in 1..Len(frames) : frames[k].kind = "loop" => k \in 1..(Len(frames) - 1)
  BY <1>1
<1>3. \A k \in 1..(Len(frames) - 1) : k \in 1..Len(frames)
  BY <1>1
<1>4. Labels(frames, Len(frames) + 1) = Labels(frames, Len(frames))
  BY <1>1, <1>2, <1>3 DEF Labels
<1> QED
  BY <1>4 DEF Inside, Held

LEMMA LoopContext ==
    ASSUME Structure, Looping
    PROVE  /\ Labels(frames, Len(frames) + 1) = Labels(frames, Len(frames)) \cup {Top.label}
           /\ \A v : Held(unit, Top.symbol, frames, provisional, v, Len(frames))
                      \subseteq Held(unit, Top.symbol, frames, provisional, v, Len(frames) + 1)
           /\ Top.label \notin Labels(frames, Len(frames))
<1>1. /\ Len(frames) \in Nat \ {0} /\ frames[Len(frames)].kind = "loop"
      /\ Top = frames[Len(frames)] /\ (Len(frames) + 1) - 1 = Len(frames)
      /\ Len(frames) \in 1..Len(frames) /\ frames \in Seq(Frames)
  BY LoopTop DEF Structure, Types
<1>2. \A k \in 1..Len(frames) : k \in 1..(Len(frames) - 1) \/ k = Len(frames)
  BY <1>1
<1>3. \A k \in 1..(Len(frames) - 1) : k \in 1..Len(frames) /\ k # Len(frames)
  BY <1>1
<1>4. Labels(frames, Len(frames) + 1) = Labels(frames, Len(frames)) \cup {Top.label}
  BY <1>1, <1>2, <1>3 DEF Labels
<1>5. Top.label \notin Labels(frames, Len(frames))
  <2>1. LoopsRight(frames, depth, provisional)
    BY <1>1, LoopsRestated DEF Structure
  <2> QED
    BY <1>1, <1>3, <2>1 DEF Labels, LoopsRight, LoopsOf
<1> QED
  BY <1>4, <1>5 DEF Held

(* A node that is being worked out is no label held, so a value there      *)
(* starts there or comes from an antecedent.                               *)
LEMMA VisitedBy ==
    ASSUME Structure, Walking, Top.stack # <<>>, ~Known(Node), NEW v,
           Node \in Inside(unit, Top.symbol, frames, provisional, v, Len(frames))
    PROVE  /\ ~Sentinel(Node)
           /\ \/ Starts(unit, Top.symbol, v, Node)
              \/ \E n \in Feeds(unit, Top.symbol, v, Node) :
                   n \in Inside(unit, Top.symbol, frames, provisional, v, Len(frames))
<1>1. ~Sentinel(Node) /\ <<Node, Top.symbol>> \notin DOMAIN provisional
  BY DEF Known, Cached
<1>2. Node \notin Labels(frames, Len(frames))
  BY <1>1, AllLabels, WalkTop, WalkContext
<1> DEFINE L == Labels(frames, Len(frames))
           A == Held(unit, Top.symbol, frames, provisional, v, Len(frames))
           G == Gets(unit, Top.symbol, v, L, A)
<1>3. Inside(unit, Top.symbol, frames, provisional, v, Len(frames)) = G
  BY DEF Inside
<1>4. Premise(unit, Top.symbol, v, L, A, G, Node)
  <2> HIDE DEF L, A
  <2> QED
    BY <1>3, GetsBy
<1>5. Node \notin L
  BY <1>2
<1> HIDE DEF L, A, G
<1> QED
  BY <1>1, <1>3, <1>4, <1>5 DEF Premise

(* What a walk knows covers what gets there.                               *)
LEMMA KnownSound ==
    ASSUME Structure, SoundInv, Walking, NEW n, Known(n), NEW v \in Values,
           ~Cov(scratch_or_cached(n), v)
    PROVE  n \notin Inside(unit, Top.symbol, frames, provisional, v, Len(frames))
<1>1. /\ Len(frames) \in 1..Len(frames) /\ Top = frames[Len(frames)] /\ Top.kind = "walk"
      /\ Top.symbol = answer.ref[1] /\ Top.symbol \in Symbols
  BY WalkTop DEF Walking
<1>2. CASE n \in DOMAIN Top.scratch
  <2>1. FrameSound(unit, answer.ref[1], frames, provisional, Len(frames))
    BY <1>1 DEF SoundInv, FramesSound
  <2>2. ~Cov(Top.scratch[n], v)
    BY <1>2 DEF scratch_or_cached
  <2> QED
    BY <1>1, <1>2, <2>1, <2>2 DEF FrameSound
<1>3. CASE n \notin DOMAIN Top.scratch
  <2>1. Cached(n, Top.symbol) /\ ~Cov(flow_lookup_cached(n, Top.symbol), v)
    BY <1>3 DEF Known, scratch_or_cached
  <2> QED
    BY <1>1, <2>1, LookupSound, WalkContext DEF SoundInv
<1> QED
  BY <1>2, <1>3

(* Frames below the top stay sound: their seeds do not change.             *)
LEMMA LowerSound ==
    ASSUME Structure, SoundInv, unit' = unit, answer'.ref = answer.ref,
           NEW m, Same(m), NEW i \in 1..Len(frames), i \in 1..m,
           \A l \in Labels(frames, i) :
             provisional'[<<l, answer.ref[1]>>] = provisional[<<l, answer.ref[1]>>],
           m \in Nat
    PROVE  FrameSound(unit', answer'.ref[1], frames', provisional', i)
<1>1. \A j \in 1..(i - 1) : j \in 1..m
  OBVIOUS
<1>2. \A j \in 1..(i - 1) : frames'[j] = frames[j]
  BY <1>1 DEF Same
<1>3. frames'[i] = frames[i]
  BY DEF Same
<1>4. FrameSound(unit, answer.ref[1], frames, provisional, i)
  BY DEF SoundInv, FramesSound
<1>5. FrameSound(unit, answer.ref[1], frames', provisional', i)
  BY <1>2, <1>3, <1>4, FrameKept
<1> QED
  BY <1>5

(* Outside every loop nothing is held.                                     *)
LEMMA InsideFree ==
    ASSUME NEW u, NEW s, NEW fs, NEW prov, NEW v, NEW i, Labels(fs, i) = {}
    PROVE  Inside(u, s, fs, prov, v, i) = Flows(u, s, v)
<1>1. Held(u, s, fs, prov, v, i) = {}
  BY DEF Held
<1> QED
  BY <1>1 DEF Inside, Flows

LEMMA FreeLabels ==
    ASSUME Structure, depth = 0, NEW i \in 1..(Len(frames) + 1)
    PROVE  Labels(frames, i) = {}
<1>1. LoopsRight(frames, depth, provisional) /\ Len(frames) \in Nat
  BY LoopsRestated, SeqFacts DEF Structure, Types
<1>2. LoopsOf(frames) = {}
  <2>1. IsFiniteSet(1..Len(frames)) /\ LoopsOf(frames) \subseteq 1..Len(frames)
    BY <1>1, FS_Interval DEF LoopsOf
  <2>2. IsFiniteSet(LoopsOf(frames)) /\ Cardinality(LoopsOf(frames)) = 0
    BY <1>1, <2>1, FS_Subset DEF LoopsRight
  <2> QED
    BY <2>2, FS_EmptySet
<1>3. \A j \in 1..(i - 1) : j \in 1..Len(frames)
  BY <1>1
<1> QED
  BY <1>2, <1>3 DEF Labels, LoopsOf

(* A memo entry that covers what flows to its node keeps the memo sound.   *)
LEMMA MemoKept ==
    ASSUME MemoSound, unit' = unit, NEW n, NEW s, NEW t,
           memo' = memo \/ memo' = Put(memo, <<n, s>>, t),
           memo' = memo \/ \A v \in Values : Cov(t, v) \/ n \notin Flows(unit, s, v)
    PROVE  MemoSound'
<1>1. CASE memo' = memo
  BY <1>1 DEF MemoSound
<1>2. CASE memo' # memo
  <2>1. /\ DOMAIN memo' = (DOMAIN memo) \cup {<<n, s>>} /\ memo'[<<n, s>>] = t
        /\ \A i \in (DOMAIN memo) \ {<<n, s>>} : memo'[i] = memo[i]
    BY <1>2 DEF Put
  <2>2. ASSUME NEW k \in DOMAIN memo', NEW v \in Values
        PROVE  Cov(memo'[k], v) \/ k[1] \notin Flows(unit, k[2], v)
    <3>1. CASE k = <<n, s>>
      <4>1. k[1] = n /\ k[2] = s /\ memo'[k] = t
        BY <2>1, <3>1
      <4> QED
        BY <1>2, <4>1
    <3>2. CASE k # <<n, s>>
      BY <2>1, <3>2 DEF MemoSound
    <3> QED
      BY <3>1, <3>2
  <2> QED
    BY <2>2 DEF MemoSound
<1> QED
  BY <1>1, <1>2

(* A step that only changes the top walk.                                  *)
LEMMA WalkSound ==
    ASSUME Structure, SoundInv, Walking, MemoSound', frames' # <<>>, Len(frames') = Len(frames),
           Same(Len(frames) - 1), UNCHANGED <<unit, provisional, answer>>,
           frames'[Len(frames)].kind = "walk",
           \A n \in DOMAIN frames'[Len(frames)].scratch : \A v \in Values :
             \/ Cov(frames'[Len(frames)].scratch[n], v)
             \/ n \notin Inside(unit, Top.symbol, frames, provisional, v, Len(frames))
    PROVE  SoundInv'
<1> DEFINE K == Len(frames)
           s == answer.ref[1]
<1>1. K \in Nat \ {0} /\ Top.symbol = s /\ K - 1 \in Nat
  BY WalkTop
<1>2. \A i \in 1..K : i = K \/ i \in 1..(K - 1)
  BY <1>1
<1>3. ASSUME NEW i \in 1..(K - 1)
      PROVE  FrameSound(unit', answer'.ref[1], frames', provisional', i)
  <2>1. i \in 1..K
    BY <1>1
  <2> QED
    BY <1>1, <2>1, LowerSound
<1>4. FrameSound(unit', answer'.ref[1], frames', provisional', K)
  <2>1. \A j \in 1..(K - 1) : frames'[j] = frames[j]
    BY DEF Same
  <2>2. /\ Labels(frames', K) = Labels(frames, K)
        /\ \A v : Held(unit, s, frames', provisional', v, K) = Held(unit, s, frames, provisional, v, K)
    BY <2>1, ContextKept
  <2>3. \A v : Inside(unit, s, frames', provisional', v, K) = Inside(unit, s, frames, provisional, v, K)
    BY <2>2 DEF Inside
  <2> QED
    BY <1>1, <2>3 DEF FrameSound
<1>5. FramesSound'
  BY <1>2, <1>3, <1>4 DEF FramesSound
<1> QED
  BY <1>5 DEF SoundInv, AnswerSound

LEMMA SetSound ==
    ASSUME Structure, SoundInv, Walking, Top.stack # <<>>, NEW t \in Type, flow_set(t),
           UNCHANGED <<unit, provisional, depth, answer>>,
           \A v \in Values : \/ Cov(t, v)
                            \/ Node \notin Inside(unit, Top.symbol, frames, provisional, v, Len(frames))
    PROVE  SoundInv'
<1> DEFINE K == Len(frames)
<1>1. /\ frames' # <<>> /\ Len(frames') = K /\ Same(K - 1)
      /\ frames'[K] = [Top EXCEPT !.stack = Popped, !.scratch = Put(Top.scratch, Node, t)]
  BY SetFrames
<1>2. frames'[K].kind = "walk" /\ frames'[K].scratch = Put(Top.scratch, Node, t)
  BY <1>1, WalkTop DEF WalkFrames
<1>3. FrameSound(unit, answer.ref[1], frames, provisional, K)
      /\ Top = frames[K] /\ Top.kind = "walk" /\ Top.symbol = answer.ref[1]
      /\ K \in Nat \ {0}
  BY WalkTop DEF SoundInv, FramesSound, Walking
<1>4. ASSUME NEW n \in DOMAIN frames'[K].scratch, NEW v \in Values
      PROVE  \/ Cov(frames'[K].scratch[n], v)
             \/ n \notin Inside(unit, Top.symbol, frames, provisional, v, K)
  <2>1. /\ DOMAIN frames'[K].scratch = (DOMAIN Top.scratch) \cup {Node}
        /\ frames'[K].scratch[Node] = t
        /\ \A i \in (DOMAIN Top.scratch) \ {Node} : frames'[K].scratch[i] = Top.scratch[i]
    BY <1>2 DEF Put
  <2>2. CASE n = Node
    BY <2>1, <2>2
  <2>3. CASE n # Node
    BY <1>3, <2>1, <2>3 DEF FrameSound
  <2> QED
    BY <2>2, <2>3
<1>5. MemoSound'
  <2>1. memo' = memo \/ (depth = 0 /\ memo' = Put(memo, <<Node, Top.symbol>>, t))
    BY DEF flow_set
  <2>2. ASSUME depth = 0, NEW v \in Values
        PROVE  Cov(t, v) \/ Node \notin Flows(unit, Top.symbol, v)
    <3>1. K \in 1..(Len(frames) + 1)
      BY <1>3
    <3>2. Labels(frames, K) = {}
      BY <2>2, <3>1, FreeLabels
    <3> QED
      BY <3>2, InsideFree
  <2> QED
    BY <2>1, <2>2, MemoKept DEF SoundInv
<1> QED
  BY <1>1, <1>2, <1>4, <1>5, WalkSound

LEMMA PushSound ==
    ASSUME Structure, SoundInv, Walking, Top.stack # <<>>, NEW n \in DOMAIN Nodes, Push(n),
           UNCHANGED <<unit, provisional, depth, answer>>
    PROVE  SoundInv'
<1> DEFINE K == Len(frames)
<1>1. /\ frames' # <<>> /\ Len(frames') = K /\ Same(K - 1)
      /\ frames'[K] = [Top EXCEPT !.stack = Append(Top.stack, n), !.scratch = Top.scratch]
  BY PushFrames
<1>2. frames'[K].kind = "walk" /\ frames'[K].scratch = Top.scratch
  BY <1>1, WalkTop DEF WalkFrames
<1>3. FrameSound(unit, answer.ref[1], frames, provisional, K)
      /\ Top = frames[K] /\ Top.kind = "walk" /\ Top.symbol = answer.ref[1]
  BY WalkTop DEF SoundInv, FramesSound, Walking
<1>4. ASSUME NEW m \in DOMAIN frames'[K].scratch, NEW v \in Values
      PROVE  \/ Cov(frames'[K].scratch[m], v)
             \/ m \notin Inside(unit, Top.symbol, frames, provisional, v, K)
  BY <1>2, <1>3 DEF FrameSound
<1>5. MemoSound'
  BY DEF Push, MemoSound, SoundInv
<1> QED
  BY <1>1, <1>2, <1>4, <1>5, WalkSound

LEMMA VisitAssignmentSound ==
    ASSUME Structure, SoundInv, VisitAssignment PROVE SoundInv'
<1> DEFINE node == Nodes[Node]
           s == Top.symbol
           In(n, v) == n \in Inside(unit, s, frames, provisional, v, Len(frames))
<1>1. Walking /\ Top.stack # <<>> /\ ~Known(Node) /\ node.kind = "assign"
      /\ UNCHANGED <<unit, declared, provisional, depth, answer>>
  BY DEF VisitAssignment, Visiting
<1>2. /\ node.from \in DOMAIN Nodes /\ node.assigned \in Type /\ declared[s] \in Type
      /\ Node \in DOMAIN Nodes /\ declared[s] \in {Declared[s], {AnyType}}
  BY <1>1, WalkTop, NodeFacts DEF Structure, Types, Type
<1>3. ASSUME NEW v, In(Node, v)
      PROVE  IF node.symbol = s THEN v \in (IF node.resets THEN Declared[s] ELSE node.assigned)
             ELSE In(node.from, v)
  <2>1. /\ ~Sentinel(Node)
        /\ Starts(unit, s, v, Node) \/ \E n \in Feeds(unit, s, v, Node) : In(n, v)
    BY <1>1, <1>3, VisitedBy
  <2>2. Starts(unit, s, v, Node) =>
          node.symbol = s /\ v \in (IF node.resets THEN Declared[s] ELSE node.assigned)
    BY <2>1 DEF Starts, Nodes
  <2>3. Feeds(unit, s, v, Node) = IF node.symbol = s THEN {} ELSE {node.from}
    BY <1>1, <1>2 DEF Feeds, Nodes
  <2> HIDE DEF In, node
  <2> QED
    BY <2>1, <2>2, <2>3
<1>4. CASE node.symbol = s
  <2> DEFINE t == IF node.resets THEN declared[s] ELSE node.assigned
  <2>1. flow_set(t) /\ t \in Type
    BY <1>2, <1>4 DEF VisitAssignment
  <2>2. ASSUME NEW v \in Values PROVE Cov(t, v) \/ ~In(Node, v)
    BY <1>2, <1>3, <1>4 DEF Cov
  <2> HIDE DEF t
  <2> QED
    BY <1>1, <2>1, <2>2, SetSound
<1>5. CASE node.symbol # s /\ Known(node.from)
  <2> DEFINE t == scratch_or_cached(node.from)
  <2>1. flow_set(t)
    BY <1>5 DEF VisitAssignment
  <2>2. t \in Type
    BY <1>1, <1>5, KnownType
  <2>3. ASSUME NEW v \in Values PROVE Cov(t, v) \/ ~In(Node, v)
    <3>1. Cov(t, v) \/ ~In(node.from, v)
      BY <1>1, <1>5, KnownSound
    <3> HIDE DEF t, In, node
    <3> QED
      BY <1>3, <1>5, <3>1
  <2> HIDE DEF t
  <2> QED
    BY <1>1, <2>1, <2>2, <2>3, SetSound
<1>6. CASE node.symbol # s /\ ~Known(node.from)
  <2>1. Push(node.from)
    BY <1>6 DEF VisitAssignment
  <2> QED
    BY <1>1, <1>2, <2>1, PushSound
<1> QED
  BY <1>4, <1>5, <1>6

LEMMA VisitConditionSound ==
    ASSUME Structure, SoundInv, VisitCondition PROVE SoundInv'
<1> DEFINE node == Nodes[Node]
           s == Top.symbol
           In(n, v) == n \in Inside(unit, s, frames, provisional, v, Len(frames))
           t == scratch_or_cached(node.from)
<1>1. Walking /\ Top.stack # <<>> /\ ~Known(Node) /\ node.kind = "cond"
      /\ UNCHANGED <<unit, declared, provisional, depth, answer>>
  BY DEF VisitCondition, Visiting
<1>2. node.from \in DOMAIN Nodes /\ Node \in DOMAIN Nodes
  BY <1>1, WalkTop, NodeFacts DEF Structure
<1>3. ASSUME NEW v, In(Node, v)
      PROVE  (node.symbol # s \/ v \in node.keep) /\ In(node.from, v)
  <2>1. /\ ~Sentinel(Node)
        /\ Starts(unit, s, v, Node) \/ \E n \in Feeds(unit, s, v, Node) : In(n, v)
    BY <1>1, <1>3, VisitedBy
  <2>2. ~Starts(unit, s, v, Node)
    BY <1>1, <2>1 DEF Starts, Nodes
  <2>3. Feeds(unit, s, v, Node) = IF node.symbol = s /\ v \notin node.keep THEN {} ELSE {node.from}
    BY <1>1, <1>2 DEF Feeds, Nodes
  <2> HIDE DEF In, node
  <2> QED
    BY <2>1, <2>2, <2>3
<1>4. CASE ~Known(node.from)
  <2>1. Push(node.from)
    BY <1>4 DEF VisitCondition
  <2> QED
    BY <1>1, <1>2, <2>1, PushSound
<1>5. ASSUME Known(node.from)
      PROVE  t \in Type /\ \A v \in Values : Cov(t, v) \/ ~In(node.from, v)
  BY <1>1, <1>5, KnownType, KnownSound
<1>6. CASE Known(node.from) /\ node.symbol # s
  <2>1. flow_set(t)
    BY <1>6 DEF VisitCondition
  <2>2. t \in Type /\ \A v \in Values : Cov(t, v) \/ ~In(Node, v)
    <3> HIDE DEF t, In, node
    <3> QED
      BY <1>3, <1>5, <1>6
  <2> HIDE DEF t
  <2> QED
    BY <1>1, <2>1, <2>2, SetSound
<1>7. CASE Known(node.from) /\ node.symbol = s
  <2>1. PICK o \in narrow_query(t, node) : flow_set(o.type)
    BY <1>7 DEF VisitCondition
  <2>2. o.type \in Type
    BY <1>5, <1>7, NarrowType
  <2>3. o.type = narrow(t, node) \/ o.type = t
    <3>1. \/ o = [type |-> narrow(t, node), exhausted |-> FALSE]
          \/ o = [type |-> t, exhausted |-> TRUE]
      BY DEF narrow_query
    <3> HIDE DEF t, node
    <3> QED
      BY <3>1
  <2>4. ASSUME NEW v \in Values PROVE Cov(o.type, v) \/ ~In(Node, v)
    <3> SUFFICES ASSUME In(Node, v) PROVE Cov(o.type, v)
      OBVIOUS
    <3>1. v \in node.keep /\ Cov(t, v)
      <4> HIDE DEF t, In, node
      <4> QED
        BY <1>3, <1>5, <1>7
    <3> HIDE DEF t, In, node
    <3> QED
      BY <2>3, <3>1 DEF Cov, narrow
  <2> QED
    BY <1>1, <2>1, <2>2, <2>4, SetSound
<1> QED
  BY <1>4, <1>6, <1>7

LEMMA VisitBranchSound ==
    ASSUME Structure, SoundInv, VisitBranch PROVE SoundInv'
<1> DEFINE node == Nodes[Node]
           s == Top.symbol
           In(n, v) == n \in Inside(unit, s, frames, provisional, v, Len(frames))
           types == {scratch_or_cached(n) : n \in node.from}
<1>1. Walking /\ Top.stack # <<>> /\ ~Known(Node) /\ node.kind = "branch"
      /\ UNCHANGED <<unit, declared, provisional, depth, answer>>
  BY DEF VisitBranch, Visiting
<1>2. node.from \subseteq DOMAIN Nodes /\ Node \in DOMAIN Nodes /\ DOMAIN Nodes \subseteq Nat
  BY <1>1, WalkTop, NodeFacts DEF Structure
<1>3. ASSUME NEW v, In(Node, v)
      PROVE  \E n \in node.from : In(n, v)
  <2>1. /\ ~Sentinel(Node)
        /\ Starts(unit, s, v, Node) \/ \E n \in Feeds(unit, s, v, Node) : In(n, v)
    BY <1>1, <1>3, VisitedBy
  <2>2. ~Starts(unit, s, v, Node)
    BY <1>1, <2>1 DEF Starts, Nodes
  <2>3. Feeds(unit, s, v, Node) = node.from
    BY <1>1, <1>2 DEF Feeds, Nodes
  <2> HIDE DEF In, node
  <2> QED
    BY <2>1, <2>2, <2>3
<1>4. CASE Missing(node) # {}
  <2>1. Push(Least(Missing(node)))
    BY <1>4 DEF VisitBranch
  <2>2. Least(Missing(node)) \in DOMAIN Nodes
    <3>1. Missing(node) \subseteq DOMAIN Nodes /\ Missing(node) \in SUBSET Nat
      BY <1>2 DEF Missing
    <3> HIDE DEF node
    <3> QED
      BY <1>4, <3>1, LeastMember
  <2> QED
    BY <1>1, <2>1, <2>2, PushSound
<1>5. CASE Missing(node) = {}
  <2>1. flow_set(union(types))
    BY <1>5 DEF VisitBranch
  <2>2. \A n \in node.from : Known(n)
    BY <1>5 DEF Missing
  <2>3. union(types) \in Type
    <3>1. types \in SUBSET Type
      BY <1>1, <2>2, KnownType
    <3> HIDE DEF types
    <3> QED
      BY <3>1, UnionType
  <2>4. ASSUME NEW v \in Values PROVE Cov(union(types), v) \/ ~In(Node, v)
    <3> SUFFICES ASSUME In(Node, v), ~Cov(union(types), v) PROVE FALSE
      OBVIOUS
    <3>1. PICK n \in node.from : In(n, v)
      BY <1>3
    <3>2. scratch_or_cached(n) \in types
      OBVIOUS
    <3>3. v # AnyType
      BY TypesAssumption
    <3>4. ~Cov(scratch_or_cached(n), v)
      <4> HIDE DEF types
      <4> QED
        BY <3>2, <3>3, UnionCov
    <3> QED
      BY <1>1, <2>2, <3>1, <3>4, KnownSound
  <2> HIDE DEF types
  <2> QED
    BY <1>1, <2>1, <2>3, <2>4, SetSound
<1> QED
  BY <1>4, <1>5

(* The labels held around a loop, and those held inside it.                *)
LEMMA LoopContextAt ==
    ASSUME Structure, NEW m \in 1..Len(frames), frames[m].kind = "loop", NEW s, NEW v
    PROVE  /\ Labels(frames, m + 1) = Labels(frames, m) \cup {frames[m].label}
           /\ Gets(unit, s, v, Labels(frames, m) \cup {frames[m].label},
                   Held(unit, s, frames, provisional, v, m))
                \subseteq Inside(unit, s, frames, provisional, v, m + 1)
<1>1. m \in Nat /\ (m + 1) - 1 = m
  OBVIOUS
<1>2. \A k \in 1..m : k \in 1..(m - 1) \/ k = m
  BY <1>1
<1>3. \A k \in 1..(m - 1) : k \in 1..m
  BY <1>1
<1>4. m \in 1..m
  BY <1>1
<1>5. Labels(frames, m + 1) = Labels(frames, m) \cup {frames[m].label}
  BY <1>1, <1>2, <1>3, <1>4 DEF Labels
<1>6. Held(unit, s, frames, provisional, v, m) \subseteq Held(unit, s, frames, provisional, v, m + 1)
  BY <1>5 DEF Held
<1>7. Gets(unit, s, v, Labels(frames, m + 1), Held(unit, s, frames, provisional, v, m))
        \subseteq Gets(unit, s, v, Labels(frames, m + 1), Held(unit, s, frames, provisional, v, m + 1))
  BY <1>6, GetsMonotone
<1> QED
  BY <1>5, <1>7, Zenon DEF Inside

LEMMA LabelsBelow ==
    ASSUME NEW k \in Nat, NEW i \in 1..k
    PROVE  Labels(frames, i) \subseteq Labels(frames, k)
<1>1. \A j \in 1..(i - 1) : j \in 1..(k - 1)
  OBVIOUS
<1> QED
  BY <1>1 DEF Labels

(* A step that drops or keeps the frames above m and changes frame m.      *)
LEMMA StackSound ==
    ASSUME Structure, SoundInv, unit' = unit, answer' = answer, frames' # <<>>, MemoSound',
           NEW m \in Nat \ {0}, m <= Len(frames) + 1, Len(frames') = m, Same(m - 1),
           \A l \in Labels(frames, m) :
             provisional'[<<l, answer.ref[1]>>] = provisional[<<l, answer.ref[1]>>],
           FrameSound(unit, answer.ref[1], frames', provisional', m)
    PROVE  SoundInv'
<1>1. Len(frames) \in Nat /\ m - 1 \in Nat
  BY SeqFacts DEF Structure, Types
<1>2. ASSUME NEW i \in 1..(m - 1)
      PROVE  FrameSound(unit', answer'.ref[1], frames', provisional', i)
  <2>1. i \in 1..Len(frames) /\ i \in 1..m
    BY <1>1
  <2>2. Labels(frames, i) \subseteq Labels(frames, m)
    BY <2>1, LabelsBelow
  <2>3. answer'.ref = answer.ref
    OBVIOUS
  <2> QED
    BY <1>1, <2>1, <2>2, <2>3, LowerSound
<1>3. \A i \in 1..m : i = m \/ i \in 1..(m - 1)
  BY <1>1
<1>4. FramesSound'
  BY <1>2, <1>3 DEF FramesSound
<1> QED
  BY <1>4 DEF SoundInv, AnswerSound

(* The context of frame m after such a step.                               *)
LEMMA StackContext ==
    ASSUME NEW m, Same(m - 1),
           \A l \in Labels(frames, m) :
             provisional'[<<l, answer.ref[1]>>] = provisional[<<l, answer.ref[1]>>]
    PROVE  /\ Labels(frames', m) = Labels(frames, m)
           /\ \A v : Held(unit, answer.ref[1], frames', provisional', v, m)
                      = Held(unit, answer.ref[1], frames, provisional, v, m)
<1>1. \A j \in 1..(m - 1) : frames'[j] = frames[j]
  BY DEF Same
<1> QED
  BY <1>1, ContextKept

LEMMA EnterLoopSound ==
    ASSUME Structure, SoundInv, EnterLoop PROVE SoundInv'
<1> DEFINE K == Len(frames)
           s == answer.ref[1]
<1>1. /\ Walking /\ Top.stack # <<>> /\ ~Known(Node) /\ UNCHANGED <<unit, memo, answer>>
      /\ provisional' = Put(provisional, <<Node, Top.symbol>>, declared[Top.symbol])
  BY DEF EnterLoop, Visiting
<1>2. /\ frames' # <<>> /\ Len(frames') = K + 1 /\ Same(K)
      /\ frames'[K + 1] = [kind |-> "loop", label |-> Node, symbol |-> Top.symbol,
                           pending |-> Nodes[Node].pre, parts |-> {}, seeded |-> FALSE]
  BY EnterLoopFrames
<1>3. /\ K \in Nat /\ K + 1 \in Nat \ {0} /\ K + 1 <= Len(frames) + 1 /\ (K + 1) - 1 = K
      /\ Top.symbol = s
  BY <1>1, WalkTop
<1>4. <<Node, s>> \notin DOMAIN provisional
  BY <1>1, <1>3 DEF Known, Cached
<1>5. \A l \in Labels(frames, K + 1) : provisional'[<<l, s>>] = provisional[<<l, s>>]
  <2>1. \A k \in DOMAIN provisional : k # <<Node, s>> => provisional'[k] = provisional[k]
    BY <1>1, <1>3 DEF Put
  <2>2. DOMAIN provisional = {<<l, s>> : l \in Labels(frames, K + 1)}
    BY AllLabels
  <2> QED
    BY <1>4, <2>1, <2>2
<1>6. FrameSound(unit, s, frames', provisional', K + 1)
  <2>1. /\ frames'[K + 1].kind = "loop" /\ frames'[K + 1].label = Node
        /\ frames'[K + 1].pending = Nodes[Node].pre /\ frames'[K + 1].seeded = FALSE
    BY <1>2
  <2>2. Done(unit, frames'[K + 1]) = {}
    BY <2>1 DEF Done, Nodes
  <2> QED
    BY <2>1, <2>2 DEF FrameSound
<1>7. MemoSound'
  BY <1>1 DEF SoundInv, MemoSound
<1>8. Same((K + 1) - 1)
  BY <1>2, <1>3
<1> QED
  BY <1>1, <1>2, <1>3, <1>5, <1>6, <1>7, <1>8, StackSound

LEMMA DonePart ==
    ASSUME NEW u, NEW f \in LoopFrames, f.pending # <<>>, NEW t \in Type
    PROVE  Done(u, Part(f, t)) \subseteq Done(u, f) \cup {Head(f.pending)}
<1>1. /\ Part(f, t).pending = Tail(f.pending) /\ Part(f, t).seeded = f.seeded
      /\ Part(f, t).label = f.label
  BY PartFacts
<1>2. Elements(f.pending) \subseteq Elements(Tail(f.pending)) \cup {Head(f.pending)}
  <2>1. f.pending \in Seq(DOMAIN Nodes)
    BY DEF LoopFrames
  <2>2. /\ Len(f.pending) \in Nat \ {0} /\ DOMAIN f.pending = 1..Len(f.pending)
        /\ Head(f.pending) = f.pending[1]
    BY <2>1, SeqFacts, HeadTailProperties
  <2>3. /\ DOMAIN Tail(f.pending) = 1..(Len(f.pending) - 1)
        /\ \A k \in 1..(Len(f.pending) - 1) : Tail(f.pending)[k] = f.pending[k + 1]
    <3>1. /\ Tail(f.pending) \in Seq(DOMAIN Nodes) /\ Len(Tail(f.pending)) = Len(f.pending) - 1
          /\ \A k \in 1..(Len(f.pending) - 1) : Tail(f.pending)[k] = f.pending[k + 1]
      BY <2>1, HeadTailProperties
    <3>2. DOMAIN Tail(f.pending) = 1..Len(Tail(f.pending))
      BY <3>1, SeqFacts
    <3> QED
      BY <3>1, <3>2
  <2>4. ASSUME NEW k \in 1..Len(f.pending), k # 1
        PROVE  f.pending[k] \in Elements(Tail(f.pending))
    <3>1. k - 1 \in 1..(Len(f.pending) - 1) /\ (k - 1) + 1 = k
      BY <2>2, <2>4
    <3>2. Tail(f.pending)[k - 1] = f.pending[k]
      BY <2>3, <3>1
    <3> QED
      BY <2>3, <3>1, <3>2 DEF Elements
  <2> QED
    BY <2>2, <2>4 DEF Elements
<1> QED
  BY <1>1, <1>2 DEF Done

(* One more antecedent of the loop at m is accounted for.                  *)
LEMMA PartSound ==
    ASSUME Structure, SoundInv, UNCHANGED <<unit, answer, provisional, memo>>, frames' # <<>>,
           NEW m \in 1..Len(frames), frames[m] \in LoopFrames, frames[m].pending # <<>>,
           NEW t \in Type, Len(frames') = m, Same(m - 1), frames'[m] = Part(frames[m], t),
           \A v \in Values :
             \/ Cov(t, v)
             \/ Head(frames[m].pending) \notin
                  Inside(unit, answer.ref[1], frames, provisional, v, m + 1)
    PROVE  SoundInv'
<1> DEFINE s == answer.ref[1]
           f == frames[m]
           n == Head(f.pending)
<1>1. m \in Nat \ {0} /\ m <= Len(frames) + 1 /\ frames[m].kind = "loop"
  BY SeqFacts DEF LoopFrames, Structure, Types
<1>2. /\ Labels(frames', m) = Labels(frames, m)
      /\ \A v : Held(unit, s, frames', provisional', v, m) = Held(unit, s, frames, provisional, v, m)
  BY StackContext
<1>3. FrameSound(unit, s, frames, provisional, m)
  BY DEF SoundInv, FramesSound
<1>4. /\ frames'[m].kind = "loop" /\ frames'[m].label = f.label
      /\ frames'[m].parts = f.parts \cup {t}
  BY PartFacts
<1>5. Done(unit, frames'[m]) \subseteq Done(unit, f) \cup {n}
  BY DonePart
<1> HIDE DEF n
<1>6. ASSUME NEW v \in Values, \A p \in frames'[m].parts : ~Cov(p, v)
      PROVE  Done(unit, frames'[m]) \cap Gets(unit, s, v, Labels(frames', m) \cup {frames'[m].label},
                                              Held(unit, s, frames', provisional', v, m)) = {}
  <2> DEFINE G == Gets(unit, s, v, Labels(frames, m) \cup {f.label},
                       Held(unit, s, frames, provisional, v, m))
  <2>1. Done(unit, f) \cap G = {}
    BY <1>1, <1>3, <1>4, <1>6 DEF FrameSound
  <2>2. n \notin G
    <3>1. G \subseteq Inside(unit, s, frames, provisional, v, m + 1)
      BY <1>1, LoopContextAt
    <3>2. ~Cov(t, v)
      BY <1>4, <1>6
    <3> QED
      BY <3>1, <3>2 DEF n
  <2> HIDE DEF G
  <2>3. Done(unit, frames'[m]) \cap G = {}
    BY <1>5, <2>1, <2>2
  <2> QED
    BY <1>2, <1>4, <2>3 DEF G
<1>7. FrameSound(unit, s, frames', provisional', m)
  BY <1>4, <1>6 DEF FrameSound
<1>8. MemoSound'
  BY DEF SoundInv, MemoSound
<1> QED
  BY <1>1, <1>7, <1>8, StackSound

LEMMA LoopPartSound ==
    ASSUME Structure, SoundInv, LoopPart PROVE SoundInv'
<1> DEFINE K == Len(frames)
           s == answer.ref[1]
           n == Head(Top.pending)
<1>1. /\ Looping /\ Top.pending # <<>>
      /\ UNCHANGED <<unit, declared, memo, provisional, depth, answer, exhausted>>
  BY DEF LoopPart
<1>2. /\ K \in Nat /\ K \in 1..K /\ Top = frames[K] /\ Top \in LoopFrames
      /\ Top.symbol = s /\ s \in Symbols
  BY <1>1, LoopTop
<1>3. CASE Cached(n, Top.symbol)
  <2> DEFINE t == flow_lookup_cached(n, Top.symbol)
  <2>1. t \in Type
    BY <1>2, <1>3, CachedType DEF Structure
  <2>2. frames' = Append(Below, Part(Top, t))
    BY <1>3 DEF LoopPart
  <2>3. \A v \in Values : Cov(t, v) \/ n \notin Inside(unit, s, frames, provisional, v, K + 1)
    BY <1>2, <1>3, LookupSound DEF SoundInv
  <2> HIDE DEF t
  <2>4. frames' # <<>> /\ Len(frames') = K /\ Same(K - 1) /\ frames'[K] = Part(Top, t)
    BY <1>1, <2>1, <2>2, PartFrames
  <2> QED
    BY <1>1, <1>2, <2>1, <2>3, <2>4, PartSound
<1>4. CASE ~Cached(n, Top.symbol)
  <2>1. frames' = Append(frames, Walk(n, Top.symbol))
    BY <1>4 DEF LoopPart
  <2>2. frames' # <<>> /\ Len(frames') = K + 1 /\ Same(K) /\ frames'[K + 1] = Walk(n, Top.symbol)
    BY <1>1, <2>1, CallFrames
  <2>3. n \in DOMAIN Nodes
    BY <1>1, LoopTop, HeadTailProperties
  <2>4. Walk(n, Top.symbol).kind = "walk" /\ DOMAIN Walk(n, Top.symbol).scratch = {}
    BY <1>2, <2>3, WalkFacts
  <2>5. FrameSound(unit, s, frames', provisional', K + 1)
    BY <2>2, <2>4 DEF FrameSound
  <2>6. MemoSound'
    BY <1>1 DEF SoundInv, MemoSound
  <2>7. K + 1 \in Nat \ {0} /\ K + 1 <= Len(frames) + 1 /\ (K + 1) - 1 = K /\ Same((K + 1) - 1)
    BY <1>2, <2>2
  <2> QED
    BY <1>1, <2>2, <2>5, <2>6, <2>7, StackSound
<1> QED
  BY <1>3, <1>4

LEMMA LoopSeedSound ==
    ASSUME Structure, SoundInv, LoopSeed PROVE SoundInv'
<1> DEFINE K == Len(frames)
           s == answer.ref[1]
           seed == union(Top.parts)
<1>1. /\ Looping /\ Top.pending = <<>> /\ ~Top.seeded /\ UNCHANGED <<unit, memo, answer>>
      /\ provisional' = Put(provisional, <<Top.label, Top.symbol>>, seed)
  BY DEF LoopSeed
<1>2. /\ K \in Nat \ {0} /\ K \in 1..K /\ K <= Len(frames) + 1
      /\ Top = frames[K] /\ Top \in LoopFrames /\ Top.kind = "loop" /\ Top.symbol = s
  BY <1>1, LoopTop
<1>3. /\ frames' # <<>> /\ Len(frames') = K /\ Same(K - 1)
      /\ frames'[K] = [Top EXCEPT !.pending = Nodes[Top.label].back, !.parts = {seed}, !.seeded = TRUE]
  BY LoopSeedFrames
<1>4. \A l \in Labels(frames, K) : provisional'[<<l, s>>] = provisional[<<l, s>>]
  <2>1. \A k \in DOMAIN provisional : k # <<Top.label, s>> => provisional'[k] = provisional[k]
    BY <1>1, <1>2 DEF Put
  <2>2. DOMAIN provisional = {<<l, s>> : l \in Labels(frames, K + 1)}
    BY AllLabels
  <2>3. \A l \in Labels(frames, K) : l \in Labels(frames, K + 1) /\ l # Top.label
    BY <1>1, LoopContext
  <2> QED
    BY <2>1, <2>2, <2>3
<1>5. /\ Labels(frames', K) = Labels(frames, K)
      /\ \A v : Held(unit, s, frames', provisional', v, K) = Held(unit, s, frames, provisional, v, K)
  BY <1>3, <1>4, StackContext
<1>6. /\ frames'[K].kind = "loop" /\ frames'[K].label = Top.label /\ frames'[K].parts = {seed}
      /\ frames'[K].pending = Nodes[Top.label].back /\ frames'[K].seeded = TRUE
  <2> HIDE DEF seed
  <2> QED
    BY <1>2, <1>3 DEF LoopFrames
<1>7. Done(unit, frames'[K]) \subseteq Done(unit, Top)
  <2>1. Elements(Top.pending) = {}
    BY <1>1, ScratchEmpty DEF Elements
  <2> QED
    BY <1>1, <1>6, <2>1 DEF Done, Nodes
<1>8. FrameSound(unit, s, frames, provisional, K)
  BY <1>2 DEF SoundInv, FramesSound
<1>9. ASSUME NEW v \in Values, ~Cov(seed, v)
      PROVE  Done(unit, frames'[K]) \cap Gets(unit, s, v, Labels(frames', K) \cup {frames'[K].label},
                                              Held(unit, s, frames', provisional', v, K)) = {}
  <2>1. v # AnyType
    BY TypesAssumption
  <2>2. \A p \in Top.parts : ~Cov(p, v)
    BY <1>9, <2>1, UnionCov
  <2>3. Done(unit, Top) \cap Gets(unit, s, v, Labels(frames, K) \cup {Top.label},
                                  Held(unit, s, frames, provisional, v, K)) = {}
    BY <1>2, <1>8, <2>2 DEF FrameSound
  <2> QED
    BY <1>5, <1>6, <1>7, <2>3
<1> HIDE DEF seed
<1>10. FrameSound(unit, s, frames', provisional', K)
  BY <1>6, <1>9 DEF FrameSound
<1>11. MemoSound'
  BY <1>1 DEF SoundInv, MemoSound
<1> QED
  BY <1>1, <1>2, <1>3, <1>4, <1>10, <1>11, StackSound

(* A resolved label.  What its parts do not cover reaches it from no       *)
(* antecedent, and so not around the loop either.                          *)
LEMMA LabelSound ==
    ASSUME Structure, SoundInv, Looping, Top.pending = <<>>, Top.seeded, NEW v \in Values,
           ~Cov(union(Top.parts), v)
    PROVE  Top.label \notin Inside(unit, Top.symbol, frames, provisional, v, Len(frames))
<1> DEFINE K == Len(frames)
           s == Top.symbol
           L == Labels(frames, K)
           A == Held(unit, s, frames, provisional, v, K)
           l == Top.label
<1>1. /\ K \in 1..K /\ Top = frames[K] /\ Top.kind = "loop" /\ l \in DOMAIN Nodes /\ l # START
      /\ Nodes[l].kind = "loop" /\ s = answer.ref[1] /\ l \notin L
  BY LoopTop, LoopContext
<1>2. FrameSound(unit, s, frames, provisional, K)
  BY <1>1 DEF SoundInv, FramesSound
<1>3. \A p \in Top.parts : ~Cov(p, v)
  <2>1. v # AnyType
    BY TypesAssumption
  <2> QED
    BY <2>1, UnionCov
<1>4. Done(unit, Top) \cap Gets(unit, s, v, L \cup {l}, A) = {}
  BY <1>1, <1>2, <1>3 DEF FrameSound
<1>5. Done(unit, Top) = Feeds(unit, s, v, l)
  <2>1. Elements(Top.pending) = {}
    BY ScratchEmpty DEF Elements
  <2>2. Done(unit, Top) = Elements(unit.nodes[l].pre) \cup Elements(unit.nodes[l].back)
    BY <2>1 DEF Done
  <2>3. Feeds(unit, s, v, l) = Elements(unit.nodes[l].pre) \cup Elements(unit.nodes[l].back)
    BY <1>1 DEF Feeds, Elements, Nodes
  <2> QED
    BY <2>2, <2>3
<1>6. ~Starts(unit, s, v, l)
  <2>1. l # UNREACHABLE
    BY <1>1, NodeFacts DEF Structure, UNREACHABLE
  <2> QED
    BY <1>1, <2>1 DEF Starts, Sentinel, Nodes
<1>7. A \subseteq L
  BY DEF Held
<1>8. l \notin Gets(unit, s, v, L, A)
  <2> HIDE DEF L, A
  <2> QED
    BY <1>1, <1>4, <1>5, <1>6, <1>7, LoopClosed
<1> QED
  BY <1>8 DEF Inside

LEMMA LoopDoneSound ==
    ASSUME Structure, SoundInv, LoopDone PROVE SoundInv'
<1> DEFINE K == Len(frames)
           s == answer.ref[1]
           caller == frames[K - 1]
           result == union(Top.parts)
<1>1. /\ Looping /\ Top.pending = <<>> /\ Top.seeded /\ UNCHANGED <<unit, answer>>
      /\ provisional' = Drop(provisional, <<Top.label, Top.symbol>>)
      /\ memo' = memo \/ (depth = 1 /\ memo' = Put(memo, <<Top.label, Top.symbol>>, result))
  BY DEF LoopDone
<1>2. /\ K \in Nat /\ K >= 2 /\ K \in 1..K /\ K - 1 \in 1..K /\ Top = frames[K]
      /\ Top.symbol = s /\ Top.kind = "loop" /\ caller \in WalkFrames
  BY <1>1, LoopTop
<1>3. /\ frames' # <<>> /\ Len(frames') = K - 1 /\ Same(K - 2)
      /\ frames'[K - 1] \in WalkFrames
      /\ frames'[K - 1].scratch = Put(caller.scratch, Top.label, result)
  BY LoopDoneFrames
<1>4. \A v \in Values : \/ Cov(result, v)
                       \/ Top.label \notin Inside(unit, s, frames, provisional, v, K)
  BY <1>1, <1>2, LabelSound
<1>5. Labels(frames, K) = Labels(frames, K - 1)
  <2>1. \A k \in 1..(K - 1) : frames[k].kind = "loop" => k \in 1..((K - 1) - 1)
    <3>1. \A k \in 1..(K - 1) : k = K - 1 \/ k \in 1..((K - 1) - 1)
      BY <1>2
    <3>2. frames[K - 1].kind = "walk"
      BY <1>2 DEF WalkFrames
    <3> QED
      BY <3>1, <3>2
  <2>2. \A k \in 1..((K - 1) - 1) : k \in 1..(K - 1)
    BY <1>2
  <2> QED
    BY <2>1, <2>2 DEF Labels
<1>6. \A v : Inside(unit, s, frames, provisional, v, K) = Inside(unit, s, frames, provisional, v, K - 1)
  BY <1>5 DEF Inside, Held
<1>7. \A l \in Labels(frames, K - 1) : provisional'[<<l, s>>] = provisional[<<l, s>>]
  <2>1. \A k \in DOMAIN provisional : k # <<Top.label, s>> => provisional'[k] = provisional[k]
    BY <1>1, <1>2 DEF Drop
  <2>2. DOMAIN provisional = {<<l, s>> : l \in Labels(frames, K + 1)}
    BY AllLabels
  <2>3. \A l \in Labels(frames, K) : l \in Labels(frames, K + 1) /\ l # Top.label
    BY <1>1, LoopContext
  <2> QED
    BY <1>5, <2>1, <2>2, <2>3
<1>8. Same((K - 1) - 1) /\ K - 1 \in Nat \ {0} /\ K - 1 <= Len(frames) + 1
  <2>1. (K - 1) - 1 = K - 2 /\ K - 1 \in Nat \ {0} /\ K - 1 <= Len(frames) + 1
    BY <1>2
  <2> QED
    BY <1>3, <2>1
<1>9. /\ Labels(frames', K - 1) = Labels(frames, K - 1)
      /\ \A v : Held(unit, s, frames', provisional', v, K - 1) = Held(unit, s, frames, provisional, v, K - 1)
  BY <1>7, <1>8, StackContext
<1>10. \A v : Inside(unit, s, frames', provisional', v, K - 1) = Inside(unit, s, frames, provisional, v, K - 1)
  BY <1>9 DEF Inside
<1>11. FrameSound(unit, s, frames, provisional, K - 1)
  BY <1>2 DEF SoundInv, FramesSound
<1>12. frames'[K - 1].kind = "walk" /\ caller.kind = "walk"
  BY <1>2, <1>3 DEF WalkFrames
<1> HIDE DEF result
<1>13. ASSUME NEW v \in Values, NEW n \in DOMAIN frames'[K - 1].scratch
       PROVE  \/ Cov(frames'[K - 1].scratch[n], v)
              \/ n \notin Inside(unit, s, frames', provisional', v, K - 1)
  <2>1. /\ DOMAIN frames'[K - 1].scratch = (DOMAIN caller.scratch) \cup {Top.label}
        /\ frames'[K - 1].scratch[Top.label] = result
        /\ \A i \in (DOMAIN caller.scratch) \ {Top.label} : frames'[K - 1].scratch[i] = caller.scratch[i]
    BY <1>3 DEF Put
  <2>2. CASE n = Top.label
    BY <1>4, <1>6, <1>10, <2>1, <2>2
  <2>3. CASE n # Top.label
    <3>1. n \in DOMAIN caller.scratch /\ frames'[K - 1].scratch[n] = caller.scratch[n]
      BY <2>1, <2>3
    <3>2. Cov(caller.scratch[n], v) \/ n \notin Inside(unit, s, frames, provisional, v, K - 1)
      BY <1>11, <1>12, <3>1 DEF FrameSound
    <3> QED
      BY <1>10, <3>1, <3>2
  <2> QED
    BY <2>2, <2>3
<1>14. FrameSound(unit, s, frames', provisional', K - 1)
  BY <1>12, <1>13 DEF FrameSound
<1>15. MemoSound'
  <2>1. ASSUME depth = 1, NEW v \in Values
        PROVE  Cov(result, v) \/ Top.label \notin Flows(unit, s, v)
    <3>1. LoopsRight(frames, depth, provisional)
      BY LoopsRestated DEF Structure, Types
    <3>2. IsFiniteSet(LoopsOf(frames)) /\ K \in LoopsOf(frames)
      <4>1. IsFiniteSet(1..K) /\ LoopsOf(frames) \subseteq 1..K
        BY <1>2, FS_Interval DEF LoopsOf
      <4> QED
        BY <1>2, <4>1, FS_Subset DEF LoopsOf
    <3>3. Cardinality(LoopsOf(frames)) = 1
      BY <2>1, <3>1 DEF LoopsRight
    <3>4. \E x : LoopsOf(frames) = {x}
      BY <3>2, <3>3, FS_Singleton
    <3>5. LoopsOf(frames) = {K}
      BY <3>2, <3>4
    <3>6. Labels(frames, K) = {}
      <4>1. \A k \in 1..(K - 1) : k \in 1..K /\ k # K
        BY <1>2
      <4> QED
        BY <3>5, <4>1 DEF Labels, LoopsOf
    <3> QED
      BY <1>4, <3>6, InsideFree
  <2> QED
    BY <1>1, <1>2, <2>1, MemoKept DEF SoundInv
<1> QED
  BY <1>1, <1>3, <1>7, <1>8, <1>14, <1>15, StackSound

LEMMA ReturnSound ==
    ASSUME Structure, SoundInv, Return PROVE SoundInv'
<1> DEFINE K == Len(frames)
           s == answer.ref[1]
           t == Top.scratch[Top.flow]
<1>1. /\ Walking /\ Top.flow \in DOMAIN Top.scratch /\ t \in Type
      /\ UNCHANGED <<unit, declared, memo, provisional, depth>>
  BY ReturnFacts DEF Return
<1>2. /\ K \in Nat \ {0} /\ K \in 1..K /\ Top = frames[K] /\ Top.kind = "walk"
  BY <1>1, WalkTop DEF Walking
<1>3. \A v \in Values : Cov(t, v) \/ Top.flow \notin Inside(unit, s, frames, provisional, v, K)
  <2>1. FrameSound(unit, s, frames, provisional, K)
    BY <1>2 DEF SoundInv, FramesSound
  <2> QED
    BY <1>1, <1>2, <2>1 DEF FrameSound
<1>4. MemoSound'
  BY <1>1 DEF SoundInv, MemoSound
<1> HIDE DEF t
<1>5. CASE K = 1
  <2>1. /\ Top.flow = unit.refs[answer.ref] /\ frames' = <<>>
        /\ answer' = [answer EXCEPT !.type = t]
    BY <1>5, ReturnFacts DEF t
  <2>2. answer'.ref = answer.ref /\ answer'.type = t
    <3>1. answer \in [ref : Refs \cup {<<>>}, type : Type]
      BY DEF Structure, Types
    <3> QED
      BY <2>1, <3>1
  <2>3. Labels(frames, K) = {}
    BY <1>5 DEF Labels
  <2>4. \A v \in Values : Cov(t, v) \/ unit.refs[answer.ref] \notin Flows(unit, s, v)
    BY <1>3, <2>1, <2>3, InsideFree
  <2>5. AnswerSound'
    BY <1>1, <2>2, <2>4 DEF AnswerSound
  <2>6. Len(frames') = 0
    BY <2>1
  <2>7. FramesSound'
    BY <2>6 DEF FramesSound
  <2> QED
    BY <1>4, <2>5, <2>7 DEF SoundInv
<1>6. CASE K # 1
  <2> DEFINE loop == frames[K - 1]
  <2>1. /\ K >= 2 /\ loop \in LoopFrames /\ loop.pending # <<>>
        /\ Top.flow = Head(loop.pending) /\ answer' = answer
    BY <1>6, ReturnFacts
  <2>2. /\ frames' # <<>> /\ Len(frames') = K - 1 /\ Same(K - 2) /\ frames'[K - 1] = Part(loop, t)
    BY <1>6, ReturnFrames DEF t
  <2>3. K - 1 \in 1..Len(frames) /\ (K - 1) - 1 = K - 2 /\ (K - 1) + 1 = K
    BY <1>2, <2>1
  <2>4. \A v \in Values : Cov(t, v) \/ Head(loop.pending) \notin
                                       Inside(unit, s, frames, provisional, v, (K - 1) + 1)
    BY <1>3, <2>1, <2>3
  <2>5. UNCHANGED <<unit, answer, provisional, memo>> /\ Same((K - 1) - 1)
    BY <1>1, <2>1, <2>2, <2>3
  <2> QED
    BY <1>1, <2>1, <2>2, <2>3, <2>4, <2>5, PartSound
<1> QED
  BY <1>5, <1>6

LEMMA ResolveSound ==
    ASSUME Structure, SoundInv, NEW r \in Refs, Resolve(r) PROVE SoundInv'
<1> DEFINE n == unit.refs[r]
           s == r[1]
<1>1. frames = <<>> /\ UNCHANGED <<unit, declared, memo, provisional, depth, exhausted>>
  BY DEF Resolve
<1>2. s \in Symbols /\ n \in (DOMAIN Nodes) \cup {UNREACHABLE}
  BY NodeFacts DEF Structure
<1>3. MemoSound'
  BY <1>1 DEF SoundInv, MemoSound
<1>4. CASE Cached(n, s)
  <2> DEFINE t == flow_lookup_cached(n, s)
  <2>1. answer' = [ref |-> r, type |-> t] /\ frames' = frames
    BY <1>4 DEF Resolve
  <2>2. Len(frames) = 0
    BY <1>1
  <2>3. Labels(frames, Len(frames) + 1) = {}
    BY <2>2 DEF Labels
  <2>4. \A v \in Values : Cov(t, v) \/ n \notin Flows(unit, s, v)
    BY <1>1, <1>2, <1>4, <2>3, LookupSound, InsideFree DEF SoundInv
  <2> HIDE DEF t
  <2>5. answer'.ref = r /\ answer'.type = t
    BY <2>1
  <2>6. AnswerSound'
    BY <1>1, <2>4, <2>5 DEF AnswerSound
  <2>7. FramesSound'
    BY <2>1, <2>2 DEF FramesSound
  <2> QED
    BY <1>3, <2>6, <2>7 DEF SoundInv
<1>5. CASE ~Cached(n, s)
  <2>1. frames' = <<Walk(n, s)>>
    BY <1>5 DEF Resolve
  <2>2. n \in DOMAIN Nodes
    BY <1>2, <1>5 DEF Cached, Sentinel
  <2>3. Walk(n, s).kind = "walk" /\ DOMAIN Walk(n, s).scratch = {}
    BY <1>2, <2>2, WalkFacts
  <2> HIDE DEF n, s
  <2>4. frames' # <<>> /\ Len(frames') = 1 /\ frames'[1] = Walk(n, s)
    <3>1. ASSUME NEW w PROVE <<w>> # <<>> /\ Len(<<w>>) = 1 /\ <<w>>[1] = w
      OBVIOUS
    <3> QED
      BY <2>1, <3>1, Zenon
  <2>5. FrameSound(unit', answer'.ref[1], frames', provisional', 1)
    BY <2>3, <2>4 DEF FrameSound
  <2>6. FramesSound'
    <3>1. \A i \in 1..1 : i = 1
      OBVIOUS
    <3> QED
      BY <2>4, <2>5, <3>1 DEF FramesSound
  <2> QED
    BY <1>3, <2>4, <2>6 DEF SoundInv, AnswerSound
<1> QED
  BY <1>4, <1>5

LEMMA PublishSound ==
    ASSUME Structure, SoundInv, NEW s \in Symbols, Publish(s) PROVE SoundInv'
<1>1. /\ frames = <<>> /\ frames' = frames /\ answer' = NoAnswer /\ unit' = unit
      /\ memo' = [k \in {k \in DOMAIN memo : k[2] # s} |-> memo[k]]
  BY DEF Publish
<1>2. \A k \in DOMAIN memo' : k \in DOMAIN memo /\ memo'[k] = memo[k]
  BY <1>1
<1>3. MemoSound'
  BY <1>1, <1>2 DEF SoundInv, MemoSound
<1>4. AnswerSound' /\ FramesSound'
  BY <1>1 DEF AnswerSound, FramesSound, NoAnswer
<1> QED
  BY <1>3, <1>4 DEF SoundInv

LEMMA SoundInit == Init => SoundInv
<1> SUFFICES ASSUME Init PROVE SoundInv
  OBVIOUS
<1>1. DOMAIN memo = {} /\ frames = <<>> /\ answer = NoAnswer /\ Len(frames) = 0
  BY ScratchEmpty DEF Init
<1> QED
  BY <1>1 DEF SoundInv, MemoSound, AnswerSound, FramesSound

LEMMA SoundStep == Structure /\ SoundInv /\ [Next]_vars => SoundInv'
<1> SUFFICES ASSUME Structure, SoundInv, [Next]_vars PROVE SoundInv'
  OBVIOUS
<1>1. CASE UNCHANGED vars
  BY <1>1 DEF vars, SoundInv, MemoSound, AnswerSound, FramesSound, NoAnswer
<1>2. CASE Next
  BY <1>2, ResolveSound, PublishSound, VisitAssignmentSound, VisitConditionSound,
     VisitBranchSound, EnterLoopSound, LoopPartSound, LoopSeedSound, LoopDoneSound,
     ReturnSound DEF Next, Walks
<1> QED
  BY <1>1, <1>2

LEMMA UnitLocations ==
    ASSUME Types PROVE IsFiniteSet(Locations(unit))
<1>1. IsFiniteSet(DOMAIN unit.nodes)
  BY NodeFacts DEF Nodes
<1>2. IsFiniteSet({UNREACHABLE})
  BY FS_Singleton
<1> QED
  BY <1>1, <1>2, FS_Union DEF Locations

(* A value the program can have at a reference flows there.                *)
LEMMA RunFlows ==
    ASSUME Types, GraphCovers(unit), NEW r \in Refs, NEW v \in unit.run[r]
    PROVE  v \in Values /\ unit.refs[r] \in Flows(unit, r[1], v)
<1>1. r[1] \in Symbols /\ v \in Values
  BY NodeFacts
<1>2. unit.refs[r] \in Arrives(unit, r[1], v)
  BY <1>1 DEF GraphCovers, Refs
<1>3. IsFiniteSet(Locations(unit))
  BY UnitLocations
<1> QED
  BY <1>1, <1>2, <1>3, ArrivesFlows

LEMMA SoundHolds ==
    ASSUME \A u \in Units : GraphCovers(u), Structure, SoundInv
    PROVE  Sound
<1>1. GraphCovers(unit) /\ Types
  BY DEF Structure, Types
<1>2. ASSUME NEW t, NEW r \in Refs,
             \A v \in Values : Cov(t, v) \/ unit.refs[r] \notin Flows(unit, r[1], v)
      PROVE  Covers(t, unit.run[r])
  <2>1. \A v \in unit.run[r] : Cov(t, v)
    BY <1>1, <1>2, RunFlows
  <2> QED
    BY <2>1 DEF Cov, Covers
<1>3. ASSUME frames = <<>>, answer # NoAnswer
      PROVE  Covers(answer.type, unit.run[answer.ref])
  <2>1. answer.ref \in Refs
    BY <1>1, <1>3 DEF Types
  <2>2. \A v \in Values : Cov(answer.type, v) \/ unit.refs[answer.ref] \notin Flows(unit, answer.ref[1], v)
    BY <1>3 DEF SoundInv, AnswerSound
  <2> QED
    BY <1>2, <2>1, <2>2
<1>4. ASSUME NEW r \in Refs, <<unit.refs[r], r[1]>> \in DOMAIN memo
      PROVE  Covers(memo[<<unit.refs[r], r[1]>>], unit.run[r])
  <2>1. \A v \in Values : \/ Cov(memo[<<unit.refs[r], r[1]>>], v)
                         \/ unit.refs[r] \notin Flows(unit, r[1], v)
    BY <1>4 DEF SoundInv, MemoSound
  <2> QED
    BY <1>2, <2>1
<1> QED
  BY <1>3, <1>4 DEF Sound

(* Narrowing is safe on every graph that shows what the program does: the  *)
(* type given to a reference, and every memoised type, contains every      *)
(* value the variable can have there, in whatever order references are     *)
(* resolved and declarations publish, and however loops nest.  The seeds   *)
(* of resolve_loop_label never make a type too small, and the memo, which  *)
(* is suspended inside loops, never keeps a type that depends on a seed.   *)
THEOREM SoundAlways ==
    ASSUME \A u \in Units : GraphCovers(u)
    PROVE  Spec => []Sound
<1>1. Structure /\ SoundInv => Sound
  BY SoundHolds
<1> QED
  BY <1>1, StructureAlways, SoundInit, SoundStep, PTL DEF Spec

(***************************************************************************)
(* Precision.  What lies behind the entry of a loop is closed under        *)
(* antecedents: the recursion of Behind has a solution, the ends of the    *)
(* paths that lead back from the entry, and it ends in a fixed point.      *)
(***************************************************************************)
Pre(u, l) == {u.nodes[l].pre[i] : i \in DOMAIN u.nodes[l].pre}

Trail(u, l, p) ==
    /\ p # <<>> /\ p[1] \in Pre(u, l)
    /\ \A i \in 1..(Len(p) - 1) : p[i + 1] \in Antecedents(u, p[i])

Tails(u, l, k) ==
    {n \in DOMAIN u.nodes : \E p \in Seq(DOMAIN u.nodes) :
       Trail(u, l, p) /\ Len(p) <= k + 1 /\ p[Len(p)] = n}

Back(u, X) == X \cup UNION {Antecedents(u, n) : n \in X}

Farther(u, l, w) ==
    /\ w[0] = Pre(u, l) /\ Behind(u, l) = w[Cardinality(DOMAIN u.nodes)]
    /\ \A k \in Nat : w[k + 1] = Back(u, w[k])

LEMMA AntecedentsFacts ==
    ASSUME NEW u, WellFormed(u), NEW n \in DOMAIN u.nodes
    PROVE  /\ Antecedents(u, n) \subseteq DOMAIN u.nodes
           /\ \A s, v : Feeds(u, s, v, n) \subseteq Antecedents(u, n)
<1> DEFINE node == u.nodes[n]
<1>1. CASE node.kind = "assign"
  BY <1>1 DEF WellFormed, Antecedents, Feeds
<1>2. CASE node.kind = "cond"
  BY <1>2 DEF WellFormed, Antecedents, Feeds
<1>3. CASE node.kind = "branch"
  BY <1>3 DEF WellFormed, Antecedents, Feeds
<1>4. CASE node.kind = "loop"
  <2>1. node.pre \in Seq(DOMAIN u.nodes) /\ node.back \in Seq(DOMAIN u.nodes)
    BY <1>4 DEF WellFormed
  <2>2. /\ \A i \in DOMAIN node.pre : node.pre[i] \in DOMAIN u.nodes
        /\ \A i \in DOMAIN node.back : node.back[i] \in DOMAIN u.nodes
    BY <2>1, SeqFacts
  <2>3. Antecedents(u, n) = {node.pre[i] : i \in DOMAIN node.pre}
                              \cup {node.back[i] : i \in DOMAIN node.back}
    BY <1>4 DEF Antecedents
  <2>4. \A s, v : Feeds(u, s, v, n) = {node.pre[i] : i \in DOMAIN node.pre}
                              \cup {node.back[i] : i \in DOMAIN node.back}
    BY <1>4 DEF Feeds
  <2> QED
    BY <2>2, <2>3, <2>4
<1>5. CASE node.kind = "start"
  BY <1>5 DEF WellFormed, Antecedents, Feeds
<1> QED
  BY <1>1, <1>2, <1>3, <1>4, <1>5 DEF WellFormed

LEMMA PreFacts ==
    ASSUME NEW u, WellFormed(u), NEW l \in DOMAIN u.nodes, u.nodes[l].kind = "loop"
    PROVE  Pre(u, l) \subseteq DOMAIN u.nodes
<1>1. u.nodes[l].pre \in Seq(DOMAIN u.nodes)
  BY DEF WellFormed
<1> QED
  BY <1>1, SeqFacts DEF Pre

LEMMA Singleton ==
    ASSUME NEW S, NEW x \in S
    PROVE  <<x>> \in Seq(S) /\ <<x>> # <<>> /\ Len(<<x>>) = 1 /\ <<x>>[1] = x
OBVIOUS

LEMMA TailsFirst ==
    ASSUME NEW u, WellFormed(u), NEW l \in DOMAIN u.nodes, u.nodes[l].kind = "loop"
    PROVE  Tails(u, l, 0) = Pre(u, l)
<1>1. ASSUME NEW n \in Tails(u, l, 0) PROVE n \in Pre(u, l)
  <2>1. PICK p \in Seq(DOMAIN u.nodes) : Trail(u, l, p) /\ Len(p) <= 0 + 1 /\ p[Len(p)] = n
    BY DEF Tails
  <2>2. Len(p) = 1
    <3>1. Len(p) \in Nat /\ Len(p) # 0
      BY <2>1, SeqFacts DEF Trail
    <3>2. \A a \in Nat : a <= 0 + 1 /\ a # 0 => a = 1
      OBVIOUS
    <3> QED
      BY <2>1, <3>1, <3>2, Zenon
  <2> QED
    BY <2>1, <2>2 DEF Trail
<1>2. ASSUME NEW n \in Pre(u, l) PROVE n \in Tails(u, l, 0)
  <2>1. n \in DOMAIN u.nodes
    BY PreFacts
  <2> DEFINE p == <<n>>
  <2>2. p \in Seq(DOMAIN u.nodes) /\ Len(p) = 1 /\ p[1] = n /\ p # <<>>
    BY <2>1, Singleton, Zenon
  <2> HIDE DEF p
  <2>3. Trail(u, l, p)
    BY <2>2 DEF Trail
  <2>4. Len(p) <= 0 + 1 /\ p[Len(p)] = n
    BY <2>2
  <2> QED
    BY <2>1, <2>2, <2>3, <2>4 DEF Tails
<1> QED
  BY <1>1, <1>2

LEMMA TailsStep ==
    ASSUME NEW u, WellFormed(u), NEW l \in DOMAIN u.nodes, u.nodes[l].kind = "loop", NEW k \in Nat
    PROVE  Tails(u, l, k + 1) = Back(u, Tails(u, l, k))
<1>1. ASSUME NEW n \in Tails(u, l, k + 1), n \notin Tails(u, l, k)
      PROVE  \E m \in Tails(u, l, k) : n \in Antecedents(u, m)
  <2>1. PICK p \in Seq(DOMAIN u.nodes) :
          Trail(u, l, p) /\ Len(p) <= (k + 1) + 1 /\ p[Len(p)] = n
    BY DEF Tails
  <2>2. p # <<>> /\ n \in DOMAIN u.nodes
    BY <2>1 DEF Trail, Tails
  <2> DEFINE q == SubSeq(p, 1, Len(p) - 1)
  <2>3. /\ q \in Seq(DOMAIN u.nodes) /\ Len(q) = Len(p) - 1 /\ Len(p) \in Nat \ {0}
        /\ \A i \in 1..(Len(p) - 1) : q[i] = p[i]
    BY <2>2, PopProperties
  <2> HIDE DEF q
  <2>4. ~(Len(p) <= k + 1)
    BY <1>1, <2>1, <2>2 DEF Tails
  <2>5. /\ Len(q) \in 1..(Len(p) - 1) /\ 1 \in 1..(Len(p) - 1) /\ Len(q) <= k + 1
        /\ Len(q) + 1 = Len(p) /\ Len(q) # 0
    BY <2>1, <2>3, <2>4
  <2>6. \A i \in 1..(Len(q) - 1) : i \in 1..(Len(p) - 1) /\ i + 1 \in 1..(Len(p) - 1)
    BY <2>3, <2>5
  <2>7. \A i \in 1..(Len(q) - 1) : q[i] = p[i] /\ q[i + 1] = p[i + 1]
    BY <2>3, <2>6
  <2>8. q # <<>> /\ q[1] = p[1] /\ q[Len(q)] = p[Len(q)]
    BY <2>3, <2>5, SeqFacts
  <2>9. Trail(u, l, q)
    BY <2>1, <2>6, <2>7, <2>8 DEF Trail
  <2>10. n \in Antecedents(u, q[Len(q)])
    BY <2>1, <2>5, <2>8 DEF Trail
  <2>11. q[Len(q)] \in DOMAIN u.nodes
    BY <2>3, <2>8, SeqFacts, <2>5
  <2> QED
    BY <2>3, <2>5, <2>9, <2>10, <2>11 DEF Tails
<1>2. ASSUME NEW n \in Tails(u, l, k) PROVE n \in Tails(u, l, k + 1)
  <2>1. PICK p \in Seq(DOMAIN u.nodes) : Trail(u, l, p) /\ Len(p) <= k + 1 /\ p[Len(p)] = n
    BY DEF Tails
  <2>2. Len(p) <= (k + 1) + 1
    BY <2>1, SeqFacts
  <2> QED
    BY <2>1, <2>2 DEF Tails
<1>3. ASSUME NEW m \in Tails(u, l, k), NEW n \in Antecedents(u, m)
      PROVE  n \in Tails(u, l, k + 1)
  <2>1. PICK p \in Seq(DOMAIN u.nodes) : Trail(u, l, p) /\ Len(p) <= k + 1 /\ p[Len(p)] = m
    BY DEF Tails
  <2>2. n \in DOMAIN u.nodes
    BY AntecedentsFacts DEF Tails
  <2> DEFINE q == Append(p, n)
  <2>3. /\ q \in Seq(DOMAIN u.nodes) /\ q # <<>> /\ Len(q) = Len(p) + 1
        /\ \A i \in 1..Len(p) : q[i] = p[i]
        /\ q[Len(p) + 1] = n
    BY <2>2, PushProperties
  <2> HIDE DEF q
  <2>4. p # <<>> /\ Len(p) \in Nat /\ Len(p) # 0
    BY <2>1, SeqFacts DEF Trail
  <2>5. ASSUME NEW i \in 1..(Len(q) - 1) PROVE q[i + 1] \in Antecedents(u, q[i])
    <3>1. CASE i = Len(p)
      <4>1. q[i] = m /\ q[i + 1] = n
        BY <2>1, <2>3, <2>4, <3>1
      <4> QED
        BY <4>1
    <3>2. CASE i # Len(p)
      <4>1. i \in 1..(Len(p) - 1) /\ i \in 1..Len(p) /\ i + 1 \in 1..Len(p)
        BY <2>3, <2>4, <3>2
      <4>2. q[i] = p[i] /\ q[i + 1] = p[i + 1]
        BY <2>3, <4>1
      <4> QED
        BY <2>1, <4>1, <4>2 DEF Trail
    <3> QED
      BY <3>1, <3>2
  <2>6. q[1] = p[1]
    BY <2>3, <2>4
  <2>7. Trail(u, l, q)
    BY <2>1, <2>3, <2>5, <2>6 DEF Trail
  <2>8. Len(q) <= (k + 1) + 1 /\ q[Len(q)] = n
    BY <2>1, <2>3, <2>4
  <2> QED
    BY <2>2, <2>3, <2>7, <2>8 DEF Tails
<1> QED
  BY <1>1, <1>2, <1>3 DEF Back

LEMMA BehindBy ==
    ASSUME NEW u, WellFormed(u), NEW l \in DOMAIN u.nodes, u.nodes[l].kind = "loop"
    PROVE  \E w : Farther(u, l, w)
<1> DEFINE Solves(f) == f = [k \in Nat |-> IF k = 0 THEN Pre(u, l) ELSE Back(u, f[k - 1])]
           g == [k \in Nat |-> Tails(u, l, k)]
           within == CHOOSE f : Solves(f)
<1>1. Solves(g)
  <2>1. ASSUME NEW k \in Nat
        PROVE  g[k] = IF k = 0 THEN Pre(u, l) ELSE Back(u, g[k - 1])
    <3>1. CASE k = 0
      BY <3>1, TailsFirst
    <3>2. CASE k # 0
      <4>1. k - 1 \in Nat /\ k = (k - 1) + 1
        BY <3>2
      <4>2. g[k] = Tails(u, l, k) /\ g[k - 1] = Tails(u, l, k - 1)
        BY <4>1
      <4>3. \A j \in Nat : Tails(u, l, j + 1) = Back(u, Tails(u, l, j))
        BY TailsStep
      <4>4. Tails(u, l, k) = Back(u, Tails(u, l, k - 1))
        BY <4>1, <4>3
      <4> QED
        BY <3>2, <4>2, <4>4
    <3> QED
      BY <3>1, <3>2
  <2> QED
    BY <2>1
<1>2. Behind(u, l) = within[Cardinality(DOMAIN u.nodes)]
  BY DEF Behind, Pre, Back
<1> HIDE DEF Solves, g
<1>3. Solves(within)
  BY <1>1
<1> HIDE DEF within
<1>4. /\ within[0] = Pre(u, l)
      /\ \A k \in Nat \ {0} : within[k] = Back(u, within[k - 1])
  BY <1>3 DEF Solves
<1>5. \A k \in Nat : k + 1 \in Nat \ {0} /\ (k + 1) - 1 = k
  OBVIOUS
<1>6. \A k \in Nat : within[k + 1] = Back(u, within[k])
  BY <1>4, <1>5
<1>7. Farther(u, l, within)
  BY <1>2, <1>4, <1>6 DEF Farther
<1> QED
  BY <1>7

(* Behind the entry of a loop.                                             *)
LEMMA BehindClosed ==
    ASSUME NEW u, WellFormed(u), NEW l \in DOMAIN u.nodes, u.nodes[l].kind = "loop"
    PROVE  /\ Pre(u, l) \subseteq Behind(u, l) /\ Behind(u, l) \subseteq DOMAIN u.nodes
           /\ \A n \in Behind(u, l) : Antecedents(u, n) \subseteq Behind(u, l)
<1>0. PICK w : Farther(u, l, w)
  BY BehindBy
<1> DEFINE S == DOMAIN u.nodes
           F == [X \in SUBSET S |-> Back(u, X)]
           B == Behind(u, l)
<1>1. /\ w[0] = Pre(u, l) /\ B = w[Cardinality(S)]
      /\ \A k \in Nat : w[k + 1] = Back(u, w[k])
  BY <1>0, Zenon DEF Farther
<1>2. IsFiniteSet(S) /\ Pre(u, l) \in SUBSET S
  BY PreFacts DEF WellFormed
<1>3. \A X \in SUBSET S : Back(u, X) \in SUBSET S /\ X \subseteq Back(u, X)
  <2>1. \A n \in S : Antecedents(u, n) \subseteq S
    BY AntecedentsFacts
  <2> QED
    BY <2>1 DEF Back
<1>4. \A X, Y \in SUBSET S : X \subseteq Y => Back(u, X) \subseteq Back(u, Y)
  BY DEF Back
<1>5. Cardinality(S) \in Nat
  BY <1>2, FS_CardinalityType
<1> HIDE DEF B
<1>6. F \in [SUBSET S -> SUBSET S] /\ \A X \in SUBSET S : F[X] = Back(u, X)
  BY <1>3
<1> HIDE DEF S, F
<1>7. \A k \in Nat : w[k] \in SUBSET S
  <2> DEFINE Wrong == {k \in Nat : ~(w[k] \in SUBSET S)}
             Before == {ss \in Nat \X Nat : ss[1] < ss[2]}
  <2> SUFFICES ASSUME Wrong # {} PROVE FALSE
    OBVIOUS
  <2>1. IsWellFoundedOn(Before, Nat)
    BY NatLessThanWellFounded, Zenon DEF OpToRel
  <2>2. \A x, y \in Nat : <<y, x>> \in Before <=> y < x
    OBVIOUS
  <2> HIDE DEF Before
  <2>3. PICK k \in Wrong : \A j \in Wrong : ~(<<j, k>> \in Before)
    <3>1. Wrong \subseteq Nat
      OBVIOUS
    <3> HIDE DEF Wrong
    <3> QED
      BY <2>1, <3>1, WFMin
  <2>4. k \in Nat \ {0} /\ ~(w[k] \in SUBSET S)
    BY <1>1, <1>2, <2>3
  <2>5. k - 1 \in Nat /\ k - 1 < k /\ (k - 1) + 1 = k
    BY <2>4
  <2>6. w[k - 1] \in SUBSET S
    BY <2>2, <2>3, <2>4, <2>5
  <2>7. w[k] = Back(u, w[k - 1])
    BY <1>1, <2>5
  <2> QED
    BY <1>3, <2>4, <2>6, <2>7
<1>8. \A k \in Nat : w[k + 1] = F[w[k]]
  BY <1>1, <1>6, <1>7
<1>9. /\ \A X, Y \in SUBSET S : X \subseteq Y => F[X] \subseteq F[Y]
      /\ w[0] \in SUBSET S /\ w[0] \subseteq F[w[0]]
  BY <1>1, <1>2, <1>3, <1>4, <1>6
<1>10. /\ F[w[Cardinality(S)]] = w[Cardinality(S)]
       /\ \A k \in Nat : w[k] \subseteq w[k + 1]
  <2>1. IsFiniteSet(S) /\ F \in [SUBSET S -> SUBSET S]
    BY <1>2, <1>6
  <2>2. F[w[Cardinality(S)]] = w[Cardinality(S)]
    BY <2>1, <1>8, <1>9, Saturation
  <2>3. \A k \in Nat : w[k] \subseteq w[k + 1]
    BY <1>1, <1>3, <1>7
  <2> QED
    BY <2>2, <2>3
<1>11. B \in SUBSET S /\ Back(u, B) = B
  BY <1>1, <1>5, <1>6, <1>7, <1>10
<1>12. \A k \in Nat : Pre(u, l) \subseteq w[k]
  <2> DEFINE Wrong == {k \in Nat : ~(Pre(u, l) \subseteq w[k])}
             Before == {ss \in Nat \X Nat : ss[1] < ss[2]}
  <2> SUFFICES ASSUME Wrong # {} PROVE FALSE
    OBVIOUS
  <2>1. IsWellFoundedOn(Before, Nat)
    BY NatLessThanWellFounded, Zenon DEF OpToRel
  <2>2. \A x, y \in Nat : <<y, x>> \in Before <=> y < x
    OBVIOUS
  <2> HIDE DEF Before
  <2>3. PICK k \in Wrong : \A j \in Wrong : ~(<<j, k>> \in Before)
    <3>1. Wrong \subseteq Nat
      OBVIOUS
    <3> HIDE DEF Wrong
    <3> QED
      BY <2>1, <3>1, WFMin
  <2>4. k \in Nat \ {0} /\ ~(Pre(u, l) \subseteq w[k])
    BY <1>1, <2>3
  <2>5. k - 1 \in Nat /\ k - 1 < k /\ (k - 1) + 1 = k
    BY <2>4
  <2>6. Pre(u, l) \subseteq w[k - 1]
    BY <2>2, <2>3, <2>4, <2>5
  <2>7. w[k - 1] \subseteq w[k]
    BY <1>10, <2>5
  <2> QED
    BY <2>4, <2>6, <2>7
<1>13. Pre(u, l) \subseteq B
  BY <1>1, <1>5, <1>12
<1>14. \A n \in B : Antecedents(u, n) \subseteq B
  BY <1>11 DEF Back
<1> QED
  BY <1>11, <1>13, <1>14 DEF B, S

(***************************************************************************)
(* Precision of the walk.  Where no loop lies behind its own entry, the    *)
(* declared type that guards a label while its entry is walked is never    *)
(* read, so whatever is worked out holds only values that flow.            *)
(***************************************************************************)
(* A type holds only values that flow to its node.                         *)
Only(u, d, s, n, t) ==
    d[s] = Declared[s] => \A v \in t : v \in Values /\ n \in Flows(u, s, v)

(* The labels of the loops below position i whose entries are walked.      *)
Open(fs, i) ==
    {fs[j].label : j \in {k \in 1..(i - 1) : fs[k].kind = "loop" /\ ~fs[k].seeded}}

(* What a frame has still to visit.                                        *)
Todo(f) == IF f.kind = "walk" THEN Elements(f.stack) ELSE Elements(f.pending)

(* A frame visits only what lies behind the loops that are open, and has   *)
(* worked out nothing that does not flow.                                  *)
FrameExact(u, d, s, fs, prov, i) ==
    /\ \A l \in Open(fs, i) : Todo(fs[i]) \subseteq Behind(u, l)
    /\ fs[i].kind = "walk" =>
         \A n \in DOMAIN fs[i].scratch : Only(u, d, s, n, fs[i].scratch[n])
    /\ fs[i].kind = "loop" =>
         /\ \A t \in fs[i].parts : Only(u, d, s, fs[i].label, t)
         /\ Todo(fs[i]) \subseteq Antecedents(u, fs[i].label)
         /\ IF fs[i].seeded THEN Only(u, d, s, fs[i].label, prov[<<fs[i].label, s>>])
            ELSE Todo(fs[i]) \subseteq Behind(u, fs[i].label)

MemoExact == \A k \in DOMAIN memo : Only(unit, declared, k[2], k[1], memo[k])

AnswerExact ==
    frames = <<>> /\ answer # NoAnswer =>
      Only(unit, declared, answer.ref[1], unit.refs[answer.ref], answer.type)

FramesExact ==
    \A i \in 1..Len(frames) : FrameExact(unit, declared, answer.ref[1], frames, provisional, i)

Precise == MemoExact /\ AnswerExact /\ FramesExact

ExactInv == exhausted \/ unit.nested \/ Precise

(* No loop lies behind its own entry.                                      *)
Straight(u) == \A l \in DOMAIN u.nodes : u.nodes[l].kind = "loop" => l \notin Behind(u, l)

-----------------------------------------------------------------------------

LEMMA FlowsStart ==
    ASSUME NEW u, NEW s, NEW v, NEW n \in Locations(u), Starts(u, s, v, n)
    PROVE  n \in Flows(u, s, v)
BY GetsClosed, Zenon DEF Flows, Closed, Premise

LEMMA FlowsOn ==
    ASSUME NEW u, NEW s, NEW v, NEW n \in Locations(u),
           NEW m \in Feeds(u, s, v, n), m \in Flows(u, s, v)
    PROVE  n \in Flows(u, s, v)
<1>1. Feeds(u, s, v, n) \cap Flows(u, s, v) # {}
  OBVIOUS
<1> QED
  BY <1>1, GetsClosed, Zenon DEF Flows, Closed, Premise

LEMMA OnlyUnion ==
    ASSUME NEW u, NEW d, NEW s, NEW n, NEW T, \A t \in T : Only(u, d, s, n, t)
    PROVE  Only(u, d, s, n, union(T))
<1> SUFFICES ASSUME d[s] = Declared[s], NEW v \in union(T)
             PROVE  v \in Values /\ n \in Flows(u, s, v)
  BY DEF Only
<1>1. \A t \in T : AnyType \notin t
  BY TypesAssumption DEF Only
<1>2. PICK t \in T : v \in t
  BY <1>1 DEF union
<1> QED
  BY <1>2 DEF Only

(* What is known of an antecedent that feeds the node, whatever the value. *)
LEMMA OnlyFed ==
    ASSUME NEW u, NEW d, NEW s, NEW n \in Locations(u), NEW m, NEW t, Only(u, d, s, m, t),
           \A v \in t : v \in Values => m \in Feeds(u, s, v, n)
    PROVE  Only(u, d, s, n, t)
BY FlowsOn DEF Only

LEMMA OpenKept ==
    ASSUME NEW fs, NEW gs, NEW i, \A j \in 1..(i - 1) : gs[j] = fs[j]
    PROVE  Open(gs, i) = Open(fs, i)
BY DEF Open

LEMMA OpenNext ==
    ASSUME NEW fs, NEW i \in Nat \ {0}
    PROVE  /\ fs[i].kind # "loop" \/ fs[i].seeded => Open(fs, i + 1) = Open(fs, i)
           /\ Open(fs, i + 1) \subseteq Open(fs, i) \cup {fs[i].label}
<1>1. /\ (i + 1) - 1 = i /\ \A k \in 1..i : k \in 1..(i - 1) \/ k = i
      /\ \A k \in 1..(i - 1) : k \in 1..i
  OBVIOUS
<1> QED
  BY <1>1 DEF Open

(* The labels of open loops are loop nodes, and below their own stack.     *)
LEMMA OpenLabels ==
    ASSUME Structure, NEW i \in 1..(Len(frames) + 1), NEW l \in Open(frames, i)
    PROVE  /\ l \in DOMAIN unit.nodes /\ unit.nodes[l].kind = "loop"
           /\ WellFormed(unit)
<1>1. WellFormed(unit) /\ Len(frames) \in Nat
  BY UnitsAssumption, SeqFacts DEF Structure, Types
<1>2. PICK j \in 1..(i - 1) : frames[j].kind = "loop" /\ frames[j].label = l
  BY DEF Open
<1>3. j \in 1..Len(frames)
  BY <1>1
<1>4. frames[j] \in LoopFrames
  BY <1>2, <1>3, FrameFacts DEF Structure
<1>5. ShapeAt(unit, answer.ref, frames, j)
  BY <1>3 DEF Structure, Shape
<1> QED
  BY <1>1, <1>2, <1>4, <1>5 DEF ShapeAt, LoopFrames, Nodes

(* What a cache answers about a node behind every open loop.               *)
LEMMA LookupExact ==
    ASSUME Structure, MemoExact, FramesExact, Straight(unit), NEW s \in Symbols, NEW n, Cached(n, s),
           frames = <<>> \/ s = answer.ref[1],
           \A l \in Open(frames, Len(frames) + 1) : n \in Behind(unit, l)
    PROVE  Only(unit, declared, s, n, flow_lookup_cached(n, s))
<1>1. CASE Sentinel(n)
  <2>1. n \in Locations(unit)
    BY <1>1, NodeFacts DEF Sentinel, Locations, Structure, Nodes
  <2>2. ASSUME declared[s] = Declared[s], NEW v \in declared[s]
        PROVE  v \in Values /\ n \in Flows(unit, s, v)
    <3>1. v \in Values
      BY <2>2, TypesAssumption
    <3>2. Starts(unit, s, v, n)
      BY <1>1, <2>2 DEF Starts
    <3> QED
      BY <2>1, <3>1, <3>2, FlowsStart
  <2> QED
    BY <1>1, <2>2 DEF Only, flow_lookup_cached
<1>2. CASE ~Sentinel(n) /\ <<n, s>> \in DOMAIN provisional
  <2>1. n \in Labels(frames, Len(frames) + 1) /\ Len(frames) \in Nat
    <3>1. /\ DOMAIN provisional = {<<l, s>> : l \in Labels(frames, Len(frames) + 1)}
          /\ Len(frames) \in Nat
      BY AllLabels
    <3> QED
      BY <1>2, <3>1
  <2>2. PICK j \in 1..((Len(frames) + 1) - 1) : frames[j].kind = "loop" /\ frames[j].label = n
    BY <2>1 DEF Labels
  <2>3. j \in 1..Len(frames) /\ frames # <<>>
    BY <2>1, <2>2
  <2>4. FrameExact(unit, declared, s, frames, provisional, j)
    BY <2>3 DEF FramesExact
  <2>5. frames[j].seeded
    <3> SUFFICES ASSUME ~frames[j].seeded PROVE FALSE
      OBVIOUS
    <3>1. n \in Open(frames, Len(frames) + 1)
      BY <2>2 DEF Open
    <3>2. Len(frames) + 1 \in 1..(Len(frames) + 1)
      BY <2>1
    <3> QED
      BY <3>1, <3>2, OpenLabels DEF Straight
  <2> QED
    BY <1>2, <2>2, <2>4, <2>5 DEF FrameExact, flow_lookup_cached
<1>3. CASE ~Sentinel(n) /\ <<n, s>> \notin DOMAIN provisional
  <2>1. <<n, s>> \in DOMAIN memo /\ flow_lookup_cached(n, s) = memo[<<n, s>>]
    BY <1>3 DEF Cached, flow_lookup_cached
  <2> QED
    BY <2>1 DEF MemoExact
<1> QED
  BY <1>1, <1>2, <1>3

(* What the walk on top has to visit, and the antecedents of its node, lie *)
(* behind every open loop.                                                 *)
LEMMA NodeBehind ==
    ASSUME Structure, FramesExact, Walking, Top.stack # <<>>,
           NEW l \in Open(frames, Len(frames) + 1)
    PROVE  /\ l \in Open(frames, Len(frames))
           /\ Node \in Behind(unit, l) /\ Antecedents(unit, Node) \subseteq Behind(unit, l)
           /\ Elements(Top.stack) \subseteq Behind(unit, l)
<1>1. /\ Len(frames) \in Nat \ {0} /\ Len(frames) \in 1..Len(frames) /\ Top = frames[Len(frames)]
      /\ Top.kind = "walk" /\ Top.stack \in Seq(DOMAIN Nodes)
  BY WalkTop DEF Walking
<1>2. l \in Open(frames, Len(frames))
  BY <1>1, OpenNext
<1>3. FrameExact(unit, declared, answer.ref[1], frames, provisional, Len(frames))
  BY <1>1 DEF FramesExact
<1>4. Elements(Top.stack) \subseteq Behind(unit, l)
  BY <1>1, <1>2, <1>3 DEF FrameExact, Todo
<1>5. Node \in Elements(Top.stack)
  <2>1. Len(Top.stack) \in DOMAIN Top.stack
    BY <1>1, SeqFacts
  <2> QED
    BY <2>1 DEF Node, Elements
<1>6. Len(frames) \in 1..(Len(frames) + 1)
  BY <1>1
<1>7. /\ l \in DOMAIN unit.nodes /\ unit.nodes[l].kind = "loop" /\ WellFormed(unit)
  BY <1>2, <1>6, OpenLabels
<1> QED
  BY <1>2, <1>4, <1>5, <1>7, BehindClosed

LEMMA KnownExact ==
    ASSUME Structure, Precise, Straight(unit), Walking, Top.stack # <<>>,
           NEW n \in Antecedents(unit, Node), Known(n)
    PROVE  Only(unit, declared, Top.symbol, n, scratch_or_cached(n))
<1>1. /\ Len(frames) \in 1..Len(frames) /\ Top = frames[Len(frames)] /\ Top.kind = "walk"
      /\ Top.symbol = answer.ref[1] /\ Top.symbol \in Symbols
  BY WalkTop DEF Walking
<1>2. CASE n \in DOMAIN Top.scratch
  <2>1. FrameExact(unit, declared, answer.ref[1], frames, provisional, Len(frames))
    BY <1>1 DEF Precise, FramesExact
  <2> QED
    BY <1>1, <1>2, <2>1 DEF FrameExact, scratch_or_cached
<1>3. CASE n \notin DOMAIN Top.scratch
  <2>1. Cached(n, Top.symbol) /\ scratch_or_cached(n) = flow_lookup_cached(n, Top.symbol)
    BY <1>3 DEF Known, scratch_or_cached
  <2>2. \A l \in Open(frames, Len(frames) + 1) : n \in Behind(unit, l)
    BY NodeBehind DEF Precise
  <2>3. Only(unit, declared, Top.symbol, n, flow_lookup_cached(n, Top.symbol))
    BY <1>1, <2>1, <2>2, LookupExact DEF Precise
  <2> QED
    BY <2>1, <2>3
<1> QED
  BY <1>2, <1>3

(* A step that drops or keeps the frames above m and changes frame m.      *)
LEMMA StackExact ==
    ASSUME Structure, Precise, UNCHANGED <<unit, declared, answer>>, frames' # <<>>, MemoExact',
           NEW m \in Nat \ {0}, m <= Len(frames) + 1, Len(frames') = m, Same(m - 1),
           \A l \in Labels(frames, m) :
             provisional'[<<l, answer.ref[1]>>] = provisional[<<l, answer.ref[1]>>],
           FrameExact(unit, declared, answer.ref[1], frames', provisional', m)
    PROVE  Precise'
<1>1. Len(frames) \in Nat /\ m - 1 \in Nat
  BY SeqFacts DEF Structure, Types
<1>2. ASSUME NEW i \in 1..(m - 1)
      PROVE  FrameExact(unit, declared, answer.ref[1], frames', provisional', i)
  <2>1. i \in 1..Len(frames) /\ frames'[i] = frames[i] /\ \A j \in 1..(i - 1) : j \in 1..(m - 1)
    BY <1>1 DEF Same
  <2>2. Open(frames', i) = Open(frames, i)
    BY <2>1, OpenKept DEF Same
  <2>3. FrameExact(unit, declared, answer.ref[1], frames, provisional, i)
    BY <2>1 DEF Precise, FramesExact
  <2>4. frames[i].kind = "loop" =>
          provisional'[<<frames[i].label, answer.ref[1]>>] = provisional[<<frames[i].label, answer.ref[1]>>]
    BY <2>1 DEF Labels
  <2> QED
    BY <2>1, <2>2, <2>3, <2>4 DEF FrameExact
<1>3. \A i \in 1..m : i = m \/ i \in 1..(m - 1)
  BY <1>1
<1>4. FramesExact'
  BY <1>2, <1>3 DEF FramesExact
<1> QED
  BY <1>4 DEF Precise, AnswerExact

(* A memo entry that holds only what flows to its node.                    *)
LEMMA MemoExactKept ==
    ASSUME MemoExact, UNCHANGED <<unit, declared>>, NEW n, NEW s, NEW t,
           memo' = memo \/ memo' = Put(memo, <<n, s>>, t),
           Only(unit, declared, s, n, t)
    PROVE  MemoExact'
<1>1. CASE memo' = memo
  BY <1>1 DEF MemoExact
<1>2. CASE memo' # memo
  <2>1. /\ DOMAIN memo' = (DOMAIN memo) \cup {<<n, s>>} /\ memo'[<<n, s>>] = t
        /\ \A i \in (DOMAIN memo) \ {<<n, s>>} : memo'[i] = memo[i]
    BY <1>2 DEF Put
  <2>2. ASSUME NEW k \in DOMAIN memo'
        PROVE  Only(unit, declared, k[2], k[1], memo'[k])
    <3>1. CASE k = <<n, s>>
      <4>1. k[1] = n /\ k[2] = s /\ memo'[k] = t
        BY <2>1, <3>1
      <4> QED
        BY <4>1
    <3>2. CASE k # <<n, s>>
      BY <2>1, <3>2 DEF MemoExact
    <3> QED
      BY <3>1, <3>2
  <2> QED
    BY <2>2 DEF MemoExact
<1> QED
  BY <1>1, <1>2

LEMMA ElementsPopped ==
    ASSUME NEW S, NEW p \in Seq(S), p # <<>>
    PROVE  Elements(SubSeq(p, 1, Len(p) - 1)) \subseteq Elements(p)
<1> DEFINE q == SubSeq(p, 1, Len(p) - 1)
<1>1. /\ q \in Seq(S) /\ Len(q) = Len(p) - 1 /\ Len(p) \in Nat \ {0}
      /\ \A i \in 1..(Len(p) - 1) : q[i] = p[i]
  BY PopProperties
<1> HIDE DEF q
<1>2. DOMAIN q = 1..(Len(p) - 1) /\ DOMAIN p = 1..Len(p)
  BY <1>1, SeqFacts
<1>3. \A i \in 1..(Len(p) - 1) : i \in 1..Len(p)
  BY <1>1
<1>4. Elements(q) \subseteq Elements(p)
  BY <1>1, <1>2, <1>3 DEF Elements
<1> QED
  BY <1>4 DEF q

LEMMA ElementsPushed ==
    ASSUME NEW S, NEW p \in Seq(S), NEW x \in S
    PROVE  Elements(Append(p, x)) \subseteq Elements(p) \cup {x}
<1> DEFINE q == Append(p, x)
<1>1. /\ DOMAIN q = 1..(Len(p) + 1) /\ \A i \in 1..Len(p) : q[i] = p[i]
      /\ q[Len(p) + 1] = x
  BY PushProperties
<1> HIDE DEF q
<1>2. DOMAIN p = 1..Len(p) /\ Len(p) \in Nat
  BY SeqFacts
<1>3. \A i \in 1..(Len(p) + 1) : i \in 1..Len(p) \/ i = Len(p) + 1
  BY <1>2
<1>4. Elements(q) \subseteq Elements(p) \cup {x}
  BY <1>1, <1>2, <1>3 DEF Elements
<1> QED
  BY <1>4 DEF q

LEMMA ElementsTail ==
    ASSUME NEW S, NEW p \in Seq(S), p # <<>>
    PROVE  Elements(Tail(p)) \subseteq Elements(p) /\ Head(p) \in Elements(p)
<1>1. /\ Len(p) \in Nat \ {0} /\ DOMAIN p = 1..Len(p) /\ Head(p) = p[1]
  BY SeqFacts, HeadTailProperties
<1>2. /\ Tail(p) \in Seq(S) /\ Len(Tail(p)) = Len(p) - 1
      /\ \A k \in 1..(Len(p) - 1) : Tail(p)[k] = p[k + 1]
  BY HeadTailProperties
<1>3. DOMAIN Tail(p) = 1..(Len(p) - 1)
  BY <1>2, SeqFacts
<1>4. 1 \in 1..Len(p) /\ \A k \in 1..(Len(p) - 1) : k + 1 \in 1..Len(p)
  BY <1>1
<1> QED
  BY <1>1, <1>2, <1>3, <1>4 DEF Elements

(* The walk on top works out its node, or puts an antecedent first.        *)
LEMMA WalkExact ==
    ASSUME Structure, Precise, Walking, Top.stack # <<>>, MemoExact', frames' # <<>>,
           Len(frames') = Len(frames), Same(Len(frames) - 1),
           UNCHANGED <<unit, declared, provisional, answer>>,
           frames'[Len(frames)].kind = "walk",
           Elements(frames'[Len(frames)].stack) \subseteq
             Elements(Top.stack) \cup Antecedents(unit, Node),
           \A n \in DOMAIN frames'[Len(frames)].scratch :
             Only(unit, declared, Top.symbol, n, frames'[Len(frames)].scratch[n])
    PROVE  Precise'
<1> DEFINE K == Len(frames)
<1>1. K \in Nat \ {0} /\ Top.symbol = answer.ref[1] /\ K <= Len(frames) + 1
      /\ frames[K].kind = "walk" /\ Top = frames[K]
  BY WalkTop DEF Walking
<1>2. Open(frames', K) = Open(frames, K) /\ Open(frames, K) = Open(frames, K + 1)
  BY <1>1, OpenKept, OpenNext DEF Same
<1>3. \A l \in Open(frames', K) : Elements(frames'[K].stack) \subseteq Behind(unit, l)
  BY <1>2, NodeBehind DEF Precise
<1>4. FrameExact(unit, declared, answer.ref[1], frames', provisional', K)
  BY <1>1, <1>3 DEF FrameExact, Todo
<1> QED
  BY <1>1, <1>4, StackExact

LEMMA SetExact ==
    ASSUME Structure, Precise, Walking, Top.stack # <<>>, NEW t \in Type, flow_set(t),
           UNCHANGED <<unit, declared, provisional, depth, answer>>,
           Only(unit, declared, Top.symbol, Node, t)
    PROVE  Precise'
<1> DEFINE K == Len(frames)
<1>1. /\ frames' # <<>> /\ Len(frames') = K /\ Same(K - 1)
      /\ frames'[K] = [Top EXCEPT !.stack = Popped, !.scratch = Put(Top.scratch, Node, t)]
  BY SetFrames
<1>2. /\ frames'[K].kind = "walk" /\ frames'[K].scratch = Put(Top.scratch, Node, t)
      /\ frames'[K].stack = Popped
  BY <1>1, WalkTop DEF WalkFrames
<1>3. /\ FrameExact(unit, declared, answer.ref[1], frames, provisional, K)
      /\ Top = frames[K] /\ Top.kind = "walk" /\ Top.symbol = answer.ref[1]
      /\ Top.stack \in Seq(DOMAIN Nodes)
  BY WalkTop DEF Precise, FramesExact, Walking
<1>4. ASSUME NEW n \in DOMAIN frames'[K].scratch
      PROVE  Only(unit, declared, Top.symbol, n, frames'[K].scratch[n])
  <2>1. /\ DOMAIN frames'[K].scratch = (DOMAIN Top.scratch) \cup {Node}
        /\ frames'[K].scratch[Node] = t
        /\ \A i \in (DOMAIN Top.scratch) \ {Node} : frames'[K].scratch[i] = Top.scratch[i]
    BY <1>2 DEF Put
  <2>2. CASE n = Node
    BY <2>1, <2>2
  <2>3. CASE n # Node
    BY <1>3, <2>1, <2>3 DEF FrameExact
  <2> QED
    BY <2>2, <2>3
<1>5. MemoExact'
  <2>1. memo' = memo \/ memo' = Put(memo, <<Node, Top.symbol>>, t)
    BY DEF flow_set
  <2> QED
    BY <2>1, MemoExactKept DEF Precise
<1>6. Elements(frames'[K].stack) \subseteq Elements(Top.stack)
  BY <1>2, <1>3, ElementsPopped DEF Popped
<1> QED
  BY <1>1, <1>2, <1>4, <1>5, <1>6, WalkExact

LEMMA PushExact ==
    ASSUME Structure, Precise, Walking, Top.stack # <<>>,
           NEW n \in DOMAIN Nodes, n \in Antecedents(unit, Node), Push(n),
           UNCHANGED <<unit, declared, provisional, depth, answer>>
    PROVE  Precise'
<1> DEFINE K == Len(frames)
<1>1. /\ frames' # <<>> /\ Len(frames') = K /\ Same(K - 1)
      /\ frames'[K] = [Top EXCEPT !.stack = Append(Top.stack, n), !.scratch = Top.scratch]
  BY PushFrames
<1>2. /\ frames'[K].kind = "walk" /\ frames'[K].scratch = Top.scratch
      /\ frames'[K].stack = Append(Top.stack, n)
  BY <1>1, WalkTop DEF WalkFrames
<1>3. /\ FrameExact(unit, declared, answer.ref[1], frames, provisional, K)
      /\ Top = frames[K] /\ Top.kind = "walk" /\ Top.symbol = answer.ref[1]
      /\ Top.stack \in Seq(DOMAIN Nodes)
  BY WalkTop DEF Precise, FramesExact, Walking
<1>4. \A m \in DOMAIN frames'[K].scratch : Only(unit, declared, Top.symbol, m, frames'[K].scratch[m])
  BY <1>2, <1>3 DEF FrameExact
<1>5. MemoExact'
  BY DEF Push, MemoExact, Precise
<1>6. Elements(frames'[K].stack) \subseteq Elements(Top.stack) \cup {n}
  BY <1>2, <1>3, ElementsPushed
<1> QED
  BY <1>1, <1>2, <1>4, <1>5, <1>6, WalkExact

LEMMA VisitAssignmentExact ==
    ASSUME Structure, Precise, Straight(unit), VisitAssignment PROVE Precise'
<1> DEFINE node == Nodes[Node]
           s == Top.symbol
<1>1. Walking /\ Top.stack # <<>> /\ node.kind = "assign"
      /\ UNCHANGED <<unit, declared, provisional, depth, answer>>
  BY DEF VisitAssignment, Visiting
<1>2. /\ node.from \in DOMAIN Nodes /\ node.assigned \subseteq Values /\ node.assigned \in Type
      /\ declared[s] \in Type /\ Node \in DOMAIN Nodes /\ s \in Symbols
  BY <1>1, WalkTop, NodeFacts DEF Structure, Types, Type
<1>3. Antecedents(unit, Node) = {node.from} /\ Node \in Locations(unit)
  BY <1>1, <1>2 DEF Antecedents, Locations, Nodes
<1>4. CASE node.symbol = s
  <2> DEFINE t == IF node.resets THEN declared[s] ELSE node.assigned
  <2>1. flow_set(t) /\ t \in Type
    BY <1>2, <1>4 DEF VisitAssignment
  <2>2. ASSUME declared[s] = Declared[s], NEW v \in t
        PROVE  v \in Values /\ Node \in Flows(unit, s, v)
    <3>1. v \in Values
      BY <1>2, <2>2, TypesAssumption
    <3>2. Starts(unit, s, v, Node)
      BY <1>1, <1>2, <1>4, <2>2 DEF Starts, Nodes
    <3> QED
      BY <1>3, <3>1, <3>2, FlowsStart
  <2>3. Only(unit, declared, s, Node, t)
    BY <2>2 DEF Only
  <2> HIDE DEF t
  <2> QED
    BY <1>1, <2>1, <2>3, SetExact
<1>5. CASE node.symbol # s /\ Known(node.from)
  <2> DEFINE t == scratch_or_cached(node.from)
  <2>1. flow_set(t)
    BY <1>5 DEF VisitAssignment
  <2>2. t \in Type
    BY <1>1, <1>5, KnownType
  <2>3. Only(unit, declared, s, node.from, t)
    BY <1>1, <1>3, <1>5, KnownExact
  <2>4. \A v : node.from \in Feeds(unit, s, v, Node)
    BY <1>1, <1>2, <1>5 DEF Feeds, Nodes
  <2> HIDE DEF t, node
  <2>5. Only(unit, declared, s, Node, t)
    BY <1>3, <2>3, <2>4, OnlyFed
  <2> QED
    BY <1>1, <2>1, <2>2, <2>5, SetExact
<1>6. CASE node.symbol # s /\ ~Known(node.from)
  <2>1. Push(node.from)
    BY <1>6 DEF VisitAssignment
  <2> QED
    BY <1>1, <1>2, <1>3, <2>1, PushExact
<1> QED
  BY <1>4, <1>5, <1>6

LEMMA VisitConditionExact ==
    ASSUME Structure, Precise, Straight(unit), VisitCondition, ~exhausted' PROVE Precise'
<1> DEFINE node == Nodes[Node]
           s == Top.symbol
           t == scratch_or_cached(node.from)
<1>1. Walking /\ Top.stack # <<>> /\ node.kind = "cond"
      /\ UNCHANGED <<unit, declared, provisional, depth, answer>>
  BY DEF VisitCondition, Visiting
<1>2. node.from \in DOMAIN Nodes /\ Node \in DOMAIN Nodes
  BY <1>1, WalkTop, NodeFacts DEF Structure
<1>3. Antecedents(unit, Node) = {node.from} /\ Node \in Locations(unit)
  BY <1>1, <1>2 DEF Antecedents, Locations, Nodes
<1>4. CASE ~Known(node.from)
  <2>1. Push(node.from)
    BY <1>4 DEF VisitCondition
  <2> QED
    BY <1>1, <1>2, <1>3, <2>1, PushExact
<1>5. ASSUME Known(node.from)
      PROVE  t \in Type /\ Only(unit, declared, s, node.from, t)
  BY <1>1, <1>3, <1>5, KnownType, KnownExact
<1>6. \A v : node.from \in Feeds(unit, s, v, Node) <=> (node.symbol # s \/ v \in node.keep)
  BY <1>1, <1>2 DEF Feeds, Nodes
<1>7. CASE Known(node.from) /\ node.symbol # s
  <2>1. flow_set(t)
    BY <1>7 DEF VisitCondition
  <2> HIDE DEF t, node
  <2>2. t \in Type /\ Only(unit, declared, s, Node, t)
    BY <1>3, <1>5, <1>6, <1>7, OnlyFed
  <2> QED
    BY <1>1, <2>1, <2>2, SetExact
<1>8. CASE Known(node.from) /\ node.symbol = s
  <2>1. PICK o \in narrow_query(t, node) : flow_set(o.type) /\ exhausted' = (exhausted \/ o.exhausted)
    BY <1>8 DEF VisitCondition
  <2>2. o.type \in Type
    BY <1>5, <1>8, NarrowType
  <2>3. o.type = narrow(t, node)
    <3>1. \/ o = [type |-> narrow(t, node), exhausted |-> FALSE]
          \/ o = [type |-> t, exhausted |-> TRUE]
      BY DEF narrow_query
    <3>2. ~o.exhausted
      BY <2>1
    <3> HIDE DEF t, node
    <3> QED
      BY <3>1, <3>2
  <2> HIDE DEF t, node
  <2>4. ASSUME declared[s] = Declared[s], NEW v \in o.type
        PROVE  v \in Values /\ Node \in Flows(unit, s, v)
    <3>1. AnyType \notin t
      BY <1>5, <1>8, <2>4, TypesAssumption DEF Only
    <3>2. v \in t /\ v \in node.keep
      BY <2>3, <2>4, <3>1 DEF narrow
    <3>3. v \in Values /\ node.from \in Flows(unit, s, v)
      BY <1>5, <1>8, <2>4, <3>2 DEF Only
    <3> QED
      BY <1>3, <1>6, <3>2, <3>3, FlowsOn
  <2>5. Only(unit, declared, s, Node, o.type)
    BY <2>4 DEF Only
  <2> QED
    BY <1>1, <2>1, <2>2, <2>5, SetExact
<1> QED
  BY <1>4, <1>7, <1>8

LEMMA VisitBranchExact ==
    ASSUME Structure, Precise, Straight(unit), VisitBranch PROVE Precise'
<1> DEFINE node == Nodes[Node]
           s == Top.symbol
           types == {scratch_or_cached(n) : n \in node.from}
<1>1. Walking /\ Top.stack # <<>> /\ node.kind = "branch"
      /\ UNCHANGED <<unit, declared, provisional, depth, answer>>
  BY DEF VisitBranch, Visiting
<1>2. node.from \subseteq DOMAIN Nodes /\ Node \in DOMAIN Nodes /\ DOMAIN Nodes \subseteq Nat
  BY <1>1, WalkTop, NodeFacts DEF Structure
<1>3. Antecedents(unit, Node) = node.from /\ Node \in Locations(unit)
  BY <1>1, <1>2 DEF Antecedents, Locations, Nodes
<1>4. CASE Missing(node) # {}
  <2>1. Push(Least(Missing(node)))
    BY <1>4 DEF VisitBranch
  <2>2. Least(Missing(node)) \in node.from
    <3>1. Missing(node) \subseteq node.from /\ Missing(node) \in SUBSET Nat
      BY <1>2 DEF Missing
    <3> HIDE DEF node
    <3> QED
      BY <1>4, <3>1, LeastMember
  <2> QED
    BY <1>1, <1>2, <1>3, <2>1, <2>2, PushExact
<1>5. CASE Missing(node) = {}
  <2>1. flow_set(union(types))
    BY <1>5 DEF VisitBranch
  <2>2. \A n \in node.from : Known(n)
    BY <1>5 DEF Missing
  <2>3. union(types) \in Type
    <3>1. types \in SUBSET Type
      BY <1>1, <2>2, KnownType
    <3> HIDE DEF types
    <3> QED
      BY <3>1, UnionType
  <2>4. ASSUME NEW n \in node.from
        PROVE  Only(unit, declared, s, Node, scratch_or_cached(n))
    <3>1. Only(unit, declared, s, n, scratch_or_cached(n))
      BY <1>1, <1>3, <2>2, KnownExact
    <3>2. \A v : n \in Feeds(unit, s, v, Node)
      BY <1>1, <1>2 DEF Feeds, Nodes
    <3> QED
      BY <1>3, <3>1, <3>2, OnlyFed
  <2>5. \A t \in types : Only(unit, declared, s, Node, t)
    BY <2>4
  <2> HIDE DEF types
  <2>6. Only(unit, declared, s, Node, union(types))
    BY <2>5, OnlyUnion
  <2> QED
    BY <1>1, <2>1, <2>3, <2>6, SetExact
<1> QED
  BY <1>4, <1>5

LEMMA EnterLoopExact ==
    ASSUME Structure, Precise, EnterLoop PROVE Precise'
<1> DEFINE K == Len(frames)
           s == answer.ref[1]
<1>1. /\ Walking /\ Top.stack # <<>> /\ ~Known(Node) /\ Nodes[Node].kind = "loop"
      /\ UNCHANGED <<unit, declared, memo, answer>>
      /\ provisional' = Put(provisional, <<Node, Top.symbol>>, declared[Top.symbol])
  BY DEF EnterLoop, Visiting
<1>2. /\ frames' # <<>> /\ Len(frames') = K + 1 /\ Same(K)
      /\ frames'[K + 1] = [kind |-> "loop", label |-> Node, symbol |-> Top.symbol,
                           pending |-> Nodes[Node].pre, parts |-> {}, seeded |-> FALSE]
  BY EnterLoopFrames
<1>3. /\ K \in Nat /\ K + 1 \in Nat \ {0} /\ K + 1 <= Len(frames) + 1 /\ (K + 1) - 1 = K
      /\ Top.symbol = s /\ Node \in DOMAIN unit.nodes
  BY <1>1, WalkTop DEF Nodes
<1>4. <<Node, s>> \notin DOMAIN provisional
  BY <1>1, <1>3 DEF Known, Cached
<1>5. \A l \in Labels(frames, K + 1) : provisional'[<<l, s>>] = provisional[<<l, s>>]
  <2>1. \A k \in DOMAIN provisional : k # <<Node, s>> => provisional'[k] = provisional[k]
    BY <1>1, <1>3 DEF Put
  <2>2. DOMAIN provisional = {<<l, s>> : l \in Labels(frames, K + 1)}
    BY AllLabels
  <2> QED
    BY <1>4, <2>1, <2>2
<1>6. FrameExact(unit, declared, s, frames', provisional', K + 1)
  <2>1. /\ frames'[K + 1].kind = "loop" /\ frames'[K + 1].label = Node
        /\ frames'[K + 1].pending = Nodes[Node].pre /\ frames'[K + 1].seeded = FALSE
        /\ frames'[K + 1].parts = {}
    BY <1>2
  <2>2. Todo(frames'[K + 1]) = Pre(unit, Node)
    BY <2>1 DEF Todo, Elements, Pre, Nodes
  <2>3. WellFormed(unit)
    BY UnitsAssumption DEF Structure, Types
  <2>4. Pre(unit, Node) \subseteq Behind(unit, Node)
    BY <1>1, <1>3, <2>3, BehindClosed DEF Nodes
  <2>5. Pre(unit, Node) \subseteq Antecedents(unit, Node)
    BY <1>1 DEF Antecedents, Pre, Nodes
  <2>6. Open(frames', K + 1) = Open(frames, K + 1)
    BY <1>2, <1>3, OpenKept DEF Same
  <2>7. \A l \in Open(frames', K + 1) : Antecedents(unit, Node) \subseteq Behind(unit, l)
    BY <1>1, <2>6, NodeBehind DEF Precise
  <2> QED
    BY <2>1, <2>2, <2>4, <2>5, <2>7 DEF FrameExact
<1>7. MemoExact'
  BY <1>1 DEF Precise, MemoExact
<1>8. Same((K + 1) - 1)
  BY <1>2, <1>3
<1> QED
  BY <1>1, <1>2, <1>3, <1>5, <1>6, <1>7, <1>8, StackExact

(* One more antecedent of the loop at m is accounted for.                  *)
LEMMA PartExact ==
    ASSUME Structure, Precise, UNCHANGED <<unit, declared, answer, provisional, memo>>, frames' # <<>>,
           NEW m \in 1..Len(frames), frames[m] \in LoopFrames, frames[m].pending # <<>>,
           NEW t \in Type, Len(frames') = m, Same(m - 1), frames'[m] = Part(frames[m], t),
           Only(unit, declared, answer.ref[1], Head(frames[m].pending), t)
    PROVE  Precise'
<1> DEFINE s == answer.ref[1]
           f == frames[m]
           n == Head(f.pending)
<1>1. /\ m \in Nat \ {0} /\ m <= Len(frames) + 1 /\ f.kind = "loop" /\ f.label \in DOMAIN unit.nodes
      /\ f.pending \in Seq(DOMAIN Nodes)
  BY SeqFacts DEF LoopFrames, Structure, Types, Nodes
<1>2. FrameExact(unit, declared, s, frames, provisional, m)
  BY DEF Precise, FramesExact
<1>3. /\ frames'[m].kind = "loop" /\ frames'[m].label = f.label
      /\ frames'[m].parts = f.parts \cup {t} /\ frames'[m].pending = Tail(f.pending)
      /\ frames'[m].seeded = f.seeded
  BY PartFacts
<1>4. /\ Todo(frames'[m]) \subseteq Todo(f) /\ n \in Todo(f)
  <2>1. Elements(Tail(f.pending)) \subseteq Elements(f.pending) /\ n \in Elements(f.pending)
    BY <1>1, ElementsTail
  <2> QED
    BY <1>1, <1>3, <2>1 DEF Todo
<1>5. unit.nodes[f.label].kind = "loop"
  <2>1. ShapeAt(unit, answer.ref, frames, m)
    BY DEF Structure, Shape
  <2> QED
    BY <1>1, <2>1 DEF ShapeAt
<1>6. \A v : Feeds(unit, s, v, f.label) = Antecedents(unit, f.label)
  BY <1>1, <1>5 DEF Feeds, Antecedents
<1>7. Only(unit, declared, s, f.label, t)
  <2>1. n \in Antecedents(unit, f.label)
    BY <1>1, <1>2, <1>4 DEF FrameExact
  <2>2. f.label \in Locations(unit)
    BY <1>1 DEF Locations
  <2> QED
    BY <1>6, <2>1, <2>2, OnlyFed
<1>8. Open(frames', m) = Open(frames, m)
  BY OpenKept DEF Same
<1> HIDE DEF n
<1>9. FrameExact(unit, declared, s, frames', provisional', m)
  BY <1>1, <1>2, <1>3, <1>4, <1>7, <1>8 DEF FrameExact
<1>10. MemoExact'
  BY DEF Precise, MemoExact
<1> QED
  BY <1>1, <1>9, <1>10, StackExact

(* What the loop on top asks for next lies behind every open loop.         *)
LEMMA HeadBehind ==
    ASSUME Structure, FramesExact, Looping, Top.pending # <<>>,
           NEW l \in Open(frames, Len(frames) + 1)
    PROVE  Head(Top.pending) \in Behind(unit, l)
<1> DEFINE K == Len(frames)
<1>1. /\ K \in Nat \ {0} /\ K \in 1..K /\ Top = frames[K] /\ Top.kind = "loop"
      /\ Top.pending \in Seq(DOMAIN Nodes)
  BY LoopTop
<1>2. FrameExact(unit, declared, answer.ref[1], frames, provisional, K)
  BY <1>1 DEF FramesExact
<1>3. Head(Top.pending) \in Todo(Top)
  BY <1>1, ElementsTail DEF Todo
<1>4. CASE Top.seeded
  <2>1. l \in Open(frames, K)
    BY <1>1, <1>4, OpenNext
  <2> QED
    BY <1>1, <1>2, <1>3, <2>1 DEF FrameExact
<1>5. CASE ~Top.seeded
  <2>1. l \in Open(frames, K) \/ l = Top.label
    BY <1>1, OpenNext
  <2> QED
    BY <1>1, <1>2, <1>3, <1>5, <2>1 DEF FrameExact
<1> QED
  BY <1>4, <1>5

LEMMA WalkElements ==
    ASSUME NEW n, NEW s
    PROVE  Elements(Walk(n, s).stack) = {n}
<1>1. Walk(n, s).stack = <<n>>
  BY DEF Walk
<1>2. DOMAIN <<n>> = {1} /\ <<n>>[1] = n
  OBVIOUS
<1> QED
  BY <1>1, <1>2 DEF Elements

LEMMA LoopPartExact ==
    ASSUME Structure, Precise, Straight(unit), LoopPart PROVE Precise'
<1> DEFINE K == Len(frames)
           s == answer.ref[1]
           n == Head(Top.pending)
<1>1. /\ Looping /\ Top.pending # <<>>
      /\ UNCHANGED <<unit, declared, memo, provisional, depth, answer, exhausted>>
  BY DEF LoopPart
<1>2. /\ K \in Nat /\ K \in 1..K /\ Top = frames[K] /\ Top \in LoopFrames
      /\ Top.symbol = s /\ s \in Symbols
  BY <1>1, LoopTop
<1>3. \A l \in Open(frames, K + 1) : n \in Behind(unit, l)
  BY <1>1, HeadBehind DEF Precise
<1>4. CASE Cached(n, Top.symbol)
  <2> DEFINE t == flow_lookup_cached(n, Top.symbol)
  <2>1. t \in Type
    BY <1>2, <1>4, CachedType DEF Structure
  <2>2. frames' = Append(Below, Part(Top, t))
    BY <1>4 DEF LoopPart
  <2>3. Only(unit, declared, s, n, t)
    BY <1>2, <1>3, <1>4, LookupExact DEF Precise
  <2> HIDE DEF t
  <2>4. frames' # <<>> /\ Len(frames') = K /\ Same(K - 1) /\ frames'[K] = Part(Top, t)
    BY <1>1, <2>1, <2>2, PartFrames
  <2> QED
    BY <1>1, <1>2, <2>1, <2>3, <2>4, PartExact
<1>5. CASE ~Cached(n, Top.symbol)
  <2>1. frames' = Append(frames, Walk(n, Top.symbol))
    BY <1>5 DEF LoopPart
  <2>2. frames' # <<>> /\ Len(frames') = K + 1 /\ Same(K) /\ frames'[K + 1] = Walk(n, Top.symbol)
    BY <1>1, <2>1, CallFrames
  <2>3. n \in DOMAIN Nodes
    BY <1>1, LoopTop, HeadTailProperties
  <2>4. /\ Walk(n, Top.symbol).kind = "walk" /\ DOMAIN Walk(n, Top.symbol).scratch = {}
        /\ Elements(Walk(n, Top.symbol).stack) = {n}
    <3>1. Walk(n, Top.symbol).kind = "walk" /\ DOMAIN Walk(n, Top.symbol).scratch = {}
      BY <1>2, <2>3, WalkFacts
    <3>2. Elements(Walk(n, Top.symbol).stack) = {n}
      BY WalkElements
    <3> QED
      BY <3>1, <3>2
  <2>5. K + 1 \in Nat \ {0} /\ K + 1 <= Len(frames) + 1 /\ (K + 1) - 1 = K /\ Same((K + 1) - 1)
    BY <1>2, <2>2
  <2>6. Open(frames', K + 1) = Open(frames, K + 1)
    BY <2>5, OpenKept DEF Same
  <2> HIDE DEF n
  <2>7. FrameExact(unit, declared, s, frames', provisional', K + 1)
    BY <1>3, <2>2, <2>4, <2>6 DEF FrameExact, Todo
  <2>8. MemoExact'
    BY <1>1 DEF Precise, MemoExact
  <2> QED
    BY <1>1, <2>2, <2>5, <2>7, <2>8, StackExact
<1> QED
  BY <1>4, <1>5

(* The label of the loop on top lies behind the loops open below it.       *)
LEMMA LabelBehind ==
    ASSUME Structure, FramesExact, Looping, NEW l \in Open(frames, Len(frames))
    PROVE  /\ l \in Open(frames, Len(frames) - 1)
           /\ Antecedents(unit, Top.label) \subseteq Behind(unit, l)
<1> DEFINE K == Len(frames)
           caller == frames[K - 1]
<1>1. /\ K \in Nat /\ K >= 2 /\ K - 1 \in 1..K /\ Top = frames[K] /\ Top.kind = "loop"
      /\ caller \in WalkFrames /\ caller.stack # <<>>
      /\ caller.stack[Len(caller.stack)] = Top.label
  BY LoopTop
<1>2. caller.kind = "walk" /\ caller.stack \in Seq(DOMAIN Nodes)
  BY <1>1 DEF WalkFrames
<1>3. K - 1 \in Nat \ {0} /\ (K - 1) + 1 = K /\ K - 1 \in 1..(Len(frames) + 1)
  BY <1>1
<1>4. l \in Open(frames, K - 1)
  BY <1>2, <1>3, OpenNext
<1>5. FrameExact(unit, declared, answer.ref[1], frames, provisional, K - 1)
  BY <1>1 DEF FramesExact
<1>6. Top.label \in Todo(caller)
  <2>1. Len(caller.stack) \in DOMAIN caller.stack
    BY <1>1, <1>2, SeqFacts
  <2> QED
    BY <1>1, <1>2, <2>1 DEF Todo, Elements
<1>7. Top.label \in Behind(unit, l)
  BY <1>4, <1>5, <1>6 DEF FrameExact
<1>8. l \in DOMAIN unit.nodes /\ unit.nodes[l].kind = "loop" /\ WellFormed(unit)
  BY <1>3, <1>4, OpenLabels
<1> QED
  BY <1>4, <1>7, <1>8, BehindClosed

LEMMA LoopSeedExact ==
    ASSUME Structure, Precise, LoopSeed PROVE Precise'
<1> DEFINE K == Len(frames)
           s == answer.ref[1]
           seed == union(Top.parts)
<1>1. /\ Looping /\ UNCHANGED <<unit, declared, memo, answer>>
      /\ provisional' = Put(provisional, <<Top.label, Top.symbol>>, seed)
  BY DEF LoopSeed
<1>2. /\ K \in Nat \ {0} /\ K \in 1..K /\ K <= Len(frames) + 1
      /\ Top = frames[K] /\ Top \in LoopFrames /\ Top.kind = "loop" /\ Top.symbol = s
      /\ Nodes[Top.label].kind = "loop"
  BY <1>1, LoopTop
<1>3. /\ frames' # <<>> /\ Len(frames') = K /\ Same(K - 1)
      /\ frames'[K] = [Top EXCEPT !.pending = Nodes[Top.label].back, !.parts = {seed}, !.seeded = TRUE]
  BY LoopSeedFrames
<1>4. \A l \in Labels(frames, K) : provisional'[<<l, s>>] = provisional[<<l, s>>]
  <2>1. \A k \in DOMAIN provisional : k # <<Top.label, s>> => provisional'[k] = provisional[k]
    BY <1>1, <1>2 DEF Put
  <2>2. DOMAIN provisional = {<<l, s>> : l \in Labels(frames, K + 1)}
    BY AllLabels
  <2>3. \A l \in Labels(frames, K) : l \in Labels(frames, K + 1) /\ l # Top.label
    BY <1>1, LoopContext
  <2> QED
    BY <2>1, <2>2, <2>3
<1>5. /\ frames'[K].kind = "loop" /\ frames'[K].label = Top.label /\ frames'[K].parts = {seed}
      /\ frames'[K].pending = Nodes[Top.label].back /\ frames'[K].seeded = TRUE
  <2> HIDE DEF seed
  <2> QED
    BY <1>2, <1>3 DEF LoopFrames
<1>6. FrameExact(unit, declared, s, frames, provisional, K)
  BY <1>2 DEF Precise, FramesExact
<1>7. Only(unit, declared, s, Top.label, seed)
  BY <1>2, <1>6, OnlyUnion DEF FrameExact
<1> HIDE DEF seed
<1>8. provisional'[<<Top.label, s>>] = seed
  BY <1>1, <1>2 DEF Put
<1>9. Todo(frames'[K]) \subseteq Antecedents(unit, Top.label)
  BY <1>2, <1>5 DEF Todo, Elements, Antecedents, Nodes
<1>10. Open(frames', K) = Open(frames, K)
  BY <1>3, OpenKept DEF Same
<1>11. \A l \in Open(frames', K) : Antecedents(unit, Top.label) \subseteq Behind(unit, l)
  BY <1>1, <1>10, LabelBehind DEF Precise
<1>12. FrameExact(unit, declared, s, frames', provisional', K)
  BY <1>5, <1>7, <1>8, <1>9, <1>11 DEF FrameExact
<1>13. MemoExact'
  BY <1>1 DEF Precise, MemoExact
<1> QED
  BY <1>1, <1>2, <1>3, <1>4, <1>12, <1>13, StackExact

LEMMA LoopDoneExact ==
    ASSUME Structure, Precise, LoopDone PROVE Precise'
<1> DEFINE K == Len(frames)
           s == answer.ref[1]
           caller == frames[K - 1]
           result == union(Top.parts)
<1>1. /\ Looping /\ UNCHANGED <<unit, declared, answer>>
      /\ provisional' = Drop(provisional, <<Top.label, Top.symbol>>)
      /\ memo' = memo \/ memo' = Put(memo, <<Top.label, Top.symbol>>, result)
  BY DEF LoopDone
<1>2. /\ K \in Nat /\ K >= 2 /\ K \in 1..K /\ K - 1 \in 1..K /\ Top = frames[K]
      /\ Top.symbol = s /\ Top.kind = "loop" /\ caller \in WalkFrames /\ caller.stack # <<>>
  BY <1>1, LoopTop
<1>3. /\ frames' # <<>> /\ Len(frames') = K - 1 /\ Same(K - 2)
      /\ frames'[K - 1] \in WalkFrames
      /\ frames'[K - 1].scratch = Put(caller.scratch, Top.label, result)
      /\ frames'[K - 1].stack = SubSeq(caller.stack, 1, Len(caller.stack) - 1)
  BY LoopDoneFrames
<1>4. Only(unit, declared, s, Top.label, result)
  <2>1. FrameExact(unit, declared, s, frames, provisional, K)
    BY <1>2 DEF Precise, FramesExact
  <2> QED
    BY <1>2, <2>1, OnlyUnion DEF FrameExact
<1>5. \A l \in Labels(frames, K - 1) : provisional'[<<l, s>>] = provisional[<<l, s>>]
  <2>1. \A k \in DOMAIN provisional : k # <<Top.label, s>> => provisional'[k] = provisional[k]
    BY <1>1, <1>2 DEF Drop
  <2>2. DOMAIN provisional = {<<l, s>> : l \in Labels(frames, K + 1)}
    BY AllLabels
  <2>3. \A l \in Labels(frames, K) : l \in Labels(frames, K + 1) /\ l # Top.label
    BY <1>1, LoopContext
  <2>4. K - 1 \in 1..K
    BY <1>2
  <2>5. Labels(frames, K - 1) \subseteq Labels(frames, K)
    BY <1>2, <2>4, LabelsBelow
  <2> QED
    BY <2>1, <2>2, <2>3, <2>5
<1>6. Same((K - 1) - 1) /\ K - 1 \in Nat \ {0} /\ K - 1 <= Len(frames) + 1
  <2>1. (K - 1) - 1 = K - 2 /\ K - 1 \in Nat \ {0} /\ K - 1 <= Len(frames) + 1
    BY <1>2
  <2> QED
    BY <1>3, <2>1
<1>7. FrameExact(unit, declared, s, frames, provisional, K - 1)
  BY <1>2 DEF Precise, FramesExact
<1>8. frames'[K - 1].kind = "walk" /\ caller.kind = "walk" /\ caller.stack \in Seq(DOMAIN Nodes)
  BY <1>2, <1>3 DEF WalkFrames
<1>9. Todo(frames'[K - 1]) \subseteq Todo(caller)
  BY <1>2, <1>3, <1>8, ElementsPopped DEF Todo
<1>10. Open(frames', K - 1) = Open(frames, K - 1)
  BY <1>6, OpenKept DEF Same
<1> HIDE DEF result
<1>11. ASSUME NEW n \in DOMAIN frames'[K - 1].scratch
       PROVE  Only(unit, declared, s, n, frames'[K - 1].scratch[n])
  <2>1. /\ DOMAIN frames'[K - 1].scratch = (DOMAIN caller.scratch) \cup {Top.label}
        /\ frames'[K - 1].scratch[Top.label] = result
        /\ \A i \in (DOMAIN caller.scratch) \ {Top.label} : frames'[K - 1].scratch[i] = caller.scratch[i]
    BY <1>3 DEF Put
  <2>2. CASE n = Top.label
    BY <1>4, <2>1, <2>2
  <2>3. CASE n # Top.label
    BY <1>7, <1>8, <2>1, <2>3 DEF FrameExact
  <2> QED
    BY <2>2, <2>3
<1>12. FrameExact(unit, declared, s, frames', provisional', K - 1)
  BY <1>7, <1>8, <1>9, <1>10, <1>11 DEF FrameExact
<1>13. MemoExact'
  BY <1>1, <1>2, <1>4, MemoExactKept DEF Precise
<1> QED
  BY <1>1, <1>3, <1>5, <1>6, <1>12, <1>13, StackExact

LEMMA ReturnExact ==
    ASSUME Structure, Precise, Return PROVE Precise'
<1> DEFINE K == Len(frames)
           s == answer.ref[1]
           t == Top.scratch[Top.flow]
<1>1. /\ Walking /\ Top.flow \in DOMAIN Top.scratch /\ t \in Type
      /\ UNCHANGED <<unit, declared, memo, provisional, depth>>
  BY ReturnFacts DEF Return
<1>2. /\ K \in Nat \ {0} /\ K \in 1..K /\ Top = frames[K] /\ Top.kind = "walk"
  BY <1>1, WalkTop DEF Walking
<1>3. Only(unit, declared, s, Top.flow, t)
  <2>1. FrameExact(unit, declared, s, frames, provisional, K)
    BY <1>2 DEF Precise, FramesExact
  <2> QED
    BY <1>1, <1>2, <2>1 DEF FrameExact
<1>4. MemoExact'
  BY <1>1 DEF Precise, MemoExact
<1> HIDE DEF t
<1>5. CASE K = 1
  <2>1. /\ Top.flow = unit.refs[answer.ref] /\ frames' = <<>>
        /\ answer' = [answer EXCEPT !.type = t]
    BY <1>5, ReturnFacts DEF t
  <2>2. answer'.ref = answer.ref /\ answer'.type = t
    <3>1. answer \in [ref : Refs \cup {<<>>}, type : Type]
      BY DEF Structure, Types
    <3> QED
      BY <2>1, <3>1
  <2>3. AnswerExact'
    BY <1>1, <1>3, <2>1, <2>2 DEF AnswerExact
  <2>4. Len(frames') = 0
    BY <2>1
  <2>5. FramesExact'
    BY <2>4 DEF FramesExact
  <2> QED
    BY <1>4, <2>3, <2>5 DEF Precise
<1>6. CASE K # 1
  <2> DEFINE loop == frames[K - 1]
  <2>1. /\ K >= 2 /\ loop \in LoopFrames /\ loop.pending # <<>>
        /\ Top.flow = Head(loop.pending) /\ answer' = answer
    BY <1>6, ReturnFacts
  <2>2. /\ frames' # <<>> /\ Len(frames') = K - 1 /\ Same(K - 2) /\ frames'[K - 1] = Part(loop, t)
    BY <1>6, ReturnFrames DEF t
  <2>3. K - 1 \in 1..Len(frames) /\ (K - 1) - 1 = K - 2
    BY <1>2, <2>1
  <2>4. Only(unit, declared, s, Head(loop.pending), t)
    BY <1>3, <2>1
  <2>5. UNCHANGED <<unit, declared, answer, provisional, memo>> /\ Same((K - 1) - 1)
    BY <1>1, <2>1, <2>2, <2>3
  <2> QED
    BY <1>1, <2>1, <2>2, <2>3, <2>4, <2>5, PartExact
<1> QED
  BY <1>5, <1>6

LEMMA ResolveExact ==
    ASSUME Structure, Precise, Straight(unit), NEW r \in Refs, Resolve(r) PROVE Precise'
<1> DEFINE n == unit.refs[r]
           s == r[1]
<1>1. frames = <<>> /\ UNCHANGED <<unit, declared, memo, provisional, depth, exhausted>>
  BY DEF Resolve
<1>2. s \in Symbols /\ n \in (DOMAIN Nodes) \cup {UNREACHABLE}
  BY NodeFacts DEF Structure
<1>3. MemoExact'
  BY <1>1 DEF Precise, MemoExact
<1>4. CASE Cached(n, s)
  <2> DEFINE t == flow_lookup_cached(n, s)
  <2>1. answer' = [ref |-> r, type |-> t] /\ frames' = frames
    BY <1>4 DEF Resolve
  <2>2. Len(frames) = 0
    BY <1>1
  <2>3. Open(frames, Len(frames) + 1) = {}
    BY <2>2 DEF Open
  <2>4. Only(unit, declared, s, n, t)
    BY <1>1, <1>2, <1>4, <2>3, LookupExact DEF Precise
  <2> HIDE DEF t
  <2>5. answer'.ref = r /\ answer'.type = t
    BY <2>1
  <2>6. AnswerExact'
    BY <1>1, <2>4, <2>5 DEF AnswerExact
  <2>7. FramesExact'
    BY <2>1, <2>2 DEF FramesExact
  <2> QED
    BY <1>3, <2>6, <2>7 DEF Precise
<1>5. CASE ~Cached(n, s)
  <2>1. frames' = <<Walk(n, s)>>
    BY <1>5 DEF Resolve
  <2>2. n \in DOMAIN Nodes
    BY <1>2, <1>5 DEF Cached, Sentinel
  <2>3. Walk(n, s).kind = "walk" /\ DOMAIN Walk(n, s).scratch = {}
    BY <1>2, <2>2, WalkFacts
  <2> HIDE DEF n, s
  <2>4. frames' # <<>> /\ Len(frames') = 1 /\ frames'[1] = Walk(n, s)
    <3>1. ASSUME NEW w PROVE <<w>> # <<>> /\ Len(<<w>>) = 1 /\ <<w>>[1] = w
      OBVIOUS
    <3> QED
      BY <2>1, <3>1, Zenon
  <2>5. Open(frames', 1) = {}
    BY DEF Open
  <2>6. FrameExact(unit', declared', answer'.ref[1], frames', provisional', 1)
    BY <2>3, <2>4, <2>5 DEF FrameExact
  <2>7. FramesExact'
    <3>1. \A i \in 1..1 : i = 1
      OBVIOUS
    <3> QED
      BY <2>4, <2>6, <3>1 DEF FramesExact
  <2> QED
    BY <1>3, <2>4, <2>7 DEF Precise, AnswerExact
<1> QED
  BY <1>4, <1>5

(* The declaration of s publishes: what was worked out for s is gone, and  *)
(* the others keep their declarations.                                     *)
LEMMA PublishExact ==
    ASSUME Structure, Precise, NEW s \in Symbols, Publish(s) PROVE Precise'
<1>1. /\ frames = <<>> /\ frames' = frames /\ answer' = NoAnswer /\ unit' = unit
      /\ memo' = [k \in {k \in DOMAIN memo : k[2] # s} |-> memo[k]]
      /\ declared' = [declared EXCEPT ![s] = Declared[s]]
  BY DEF Publish
<1>2. \A k \in DOMAIN memo' : k \in DOMAIN memo /\ memo'[k] = memo[k] /\ k[2] # s
  BY <1>1
<1>3. \A k \in DOMAIN memo' : declared'[k[2]] = declared[k[2]]
  <2>1. \A k \in DOMAIN memo : k[2] \in Symbols
    BY DEF Structure, Types, Typed
  <2>2. declared \in [Symbols -> Type]
    BY DEF Structure, Types
  <2> QED
    BY <1>1, <1>2, <2>1, <2>2
<1>4. MemoExact'
  BY <1>1, <1>2, <1>3 DEF Precise, MemoExact, Only
<1>5. AnswerExact' /\ FramesExact'
  BY <1>1 DEF AnswerExact, FramesExact, NoAnswer
<1> QED
  BY <1>4, <1>5 DEF Precise

LEMMA ExactInit == Init => ExactInv
<1> SUFFICES ASSUME Init PROVE Precise
  BY DEF ExactInv
<1>1. DOMAIN memo = {} /\ frames = <<>> /\ answer = NoAnswer /\ Len(frames) = 0
  BY ScratchEmpty DEF Init
<1> QED
  BY <1>1 DEF Precise, MemoExact, AnswerExact, FramesExact

(* No step changes the unit, or forgets that a query exhausted.            *)
LEMMA ExhaustedKept ==
    ASSUME Structure, [Next]_vars
    PROVE  unit' = unit /\ (exhausted => exhausted')
<1>1. CASE UNCHANGED vars
  BY <1>1 DEF vars
<1>2. CASE VisitCondition
  <2>1. unit' = unit
    BY <1>2 DEF VisitCondition
  <2>2. ASSUME exhausted PROVE exhausted'
    <3>1. exhausted' = exhausted \/ \E o : exhausted' = (exhausted \/ o.exhausted)
      BY <1>2 DEF VisitCondition
    <3>2. CASE exhausted' = exhausted
      BY <2>2, <3>2
    <3>3. CASE \E o : exhausted' = (exhausted \/ o.exhausted)
      <4>1. PICK o : exhausted' = (exhausted \/ o.exhausted)
        BY <3>3
      <4>2. exhausted \/ o.exhausted
        BY <2>2
      <4> QED
        BY <4>1, <4>2, Zenon
    <3> QED
      BY <3>1, <3>2, <3>3
  <2> QED
    BY <2>1, <2>2
<1>3. CASE \E r \in Refs : Resolve(r)
  BY <1>3 DEF Resolve
<1>4. CASE \E s \in Symbols : Publish(s)
  BY <1>4 DEF Publish
<1>5. CASE VisitAssignment \/ VisitBranch
  BY <1>5 DEF VisitAssignment, VisitBranch
<1>6. CASE EnterLoop \/ LoopPart \/ LoopSeed \/ LoopDone
  BY <1>6 DEF EnterLoop, LoopPart, LoopSeed, LoopDone
<1>7. CASE Return
  BY <1>7 DEF Return
<1> QED
  BY <1>1, <1>2, <1>3, <1>4, <1>5, <1>6, <1>7, Zenon DEF Next, Walks

LEMMA ExactStep ==
    ASSUME \A u \in Units : u.nested \/ GraphExact(u), Structure, ExactInv, [Next]_vars
    PROVE  ExactInv'
<1>1. unit' = unit /\ (exhausted => exhausted')
  BY ExhaustedKept
<1> SUFFICES ASSUME ~exhausted', ~unit.nested PROVE Precise'
  BY <1>1 DEF ExactInv
<1>2. Precise
  BY <1>1 DEF ExactInv
<1>3. Straight(unit)
  BY DEF Structure, Types, GraphExact, Straight
<1>4. CASE UNCHANGED vars
  BY <1>2, <1>4 DEF vars, Precise, MemoExact, AnswerExact, FramesExact, NoAnswer
<1>5. CASE Next
  BY <1>2, <1>3, <1>5, ResolveExact, PublishExact, VisitAssignmentExact, VisitConditionExact,
     VisitBranchExact, EnterLoopExact, LoopPartExact, LoopSeedExact, LoopDoneExact,
     ReturnExact DEF Next, Walks
<1> QED
  BY <1>4, <1>5

(* The declared type and what flows make the answer exact.                 *)
LEMMA ExactHolds ==
    ASSUME \A u \in Units : u.nested \/ GraphExact(u), Structure, SoundInv, ExactInv
    PROVE  Exact
<1> DEFINE r == answer.ref
           s == r[1]
           t == answer.type
<1> SUFFICES ASSUME frames = <<>>, r \in DOMAIN unit.types, ~exhausted, ~unit.nested,
                    declared[s] = Declared[s]
             PROVE  t = unit.types[r]
  BY DEF Exact
<1>1. Types /\ GraphExact(unit)
  BY DEF Structure, Types
<1>2. /\ r \in Refs /\ r # <<>>
      /\ \A v \in Values : v \in unit.types[r] <=> unit.refs[r] \in Arrives(unit, s, v)
      /\ unit.types[r] \subseteq Values
  <2>1. r \in Refs /\ r # <<>>
    BY <1>1 DEF GraphExact, Refs
  <2>2. s \in Symbols
    BY <1>1, <2>1, NodeFacts
  <2>3. unit.types[r] =
          {v \in Values : unit.refs[r] \in [q \in Symbols |-> [w \in Values |-> Arrives(unit, q, w)]][r[1]][v]}
    BY <1>1 DEF GraphExact
  <2>4. \A v \in Values :
          [q \in Symbols |-> [w \in Values |-> Arrives(unit, q, w)]][r[1]][v] = Arrives(unit, s, v)
    BY <2>2
  <2> QED
    BY <2>1, <2>3, <2>4
<1>3. answer # NoAnswer
  BY <1>2 DEF NoAnswer
<1>4. Only(unit, declared, s, unit.refs[r], t)
  BY <1>3 DEF ExactInv, Precise, AnswerExact
<1>5. \A v \in Values : Cov(t, v) \/ unit.refs[r] \notin Flows(unit, s, v)
  BY <1>3 DEF SoundInv, AnswerSound
<1>6. \A v : Arrives(unit, s, v) = Flows(unit, s, v)
  BY <1>1, UnitLocations, ArrivesFlows
<1>7. t \subseteq Values /\ AnyType \notin t /\ \A v \in t : unit.refs[r] \in Flows(unit, s, v)
  BY <1>4, TypesAssumption DEF Only
<1>8. \A v \in Values : unit.refs[r] \in Flows(unit, s, v) => v \in t
  BY <1>5, <1>7 DEF Cov
<1> HIDE DEF r, s, t
<1> QED
  BY <1>2, <1>6, <1>7, <1>8

(* Narrowing is precise on every graph where no loop lies behind its own   *)
(* entry: once the declaration has published and while no query exhausted, *)
(* a reference gets exactly the values that flow to it, in whatever order  *)
(* references are resolved and declarations publish.  The declared type    *)
(* that guards a label while resolve_loop_label walks its entry is never   *)
(* read there.                                                             *)
THEOREM ExactAlways ==
    ASSUME \A u \in Units : u.nested \/ GraphExact(u)
    PROVE  Spec => []Exact
<1>1. Structure /\ SoundInv /\ ExactInv => Exact
  BY ExactHolds
<1>2. Structure /\ ExactInv /\ [Next]_vars => ExactInv'
  BY ExactStep
<1> QED
  BY <1>1, <1>2, StructureAlways, SoundInit, SoundStep, ExactInit, PTL DEF Spec
=============================================================================
