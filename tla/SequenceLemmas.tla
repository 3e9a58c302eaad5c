---------------------------- MODULE SequenceLemmas ----------------------------
(***************************************************************************)
(* Facts about stacks kept as sequences, innermost element last: the query *)
(* stack and the frames of the relation engine, the journal, the marks and *)
(* the cache layers of the query state.                                    *)
(***************************************************************************)
EXTENDS Integers, Sequences, SequenceTheorems, WellFoundedInduction, TLAPS

(* Popping the last element.                                               *)
LEMMA PopProperties ==
    ASSUME NEW S, NEW s \in Seq(S), s # <<>>
    PROVE  /\ SubSeq(s, 1, Len(s) - 1) \in Seq(S)
           /\ Len(SubSeq(s, 1, Len(s) - 1)) = Len(s) - 1
           /\ \A i \in 1..(Len(s) - 1) : SubSeq(s, 1, Len(s) - 1)[i] = s[i]
           /\ Len(s) \in Nat \ {0}
           /\ s[Len(s)] \in S
  <1>1. Len(s) \in Nat \ {0} /\ \A i \in 1..Len(s) : s[i] \in S
    BY EmptySeq, LenProperties
  <1>2. \A i \in 1..(Len(s) - 1) : s[i] \in S
    BY <1>1
  <1>3. /\ SubSeq(s, 1, Len(s) - 1) \in Seq(S)
        /\ Len(SubSeq(s, 1, Len(s) - 1)) = IF 1 <= Len(s) - 1 THEN (Len(s) - 1) - 1 + 1 ELSE 0
        /\ \A i \in 1..((Len(s) - 1) - 1 + 1) : SubSeq(s, 1, Len(s) - 1)[i] = s[1 + i - 1]
    BY <1>1, <1>2, SubSeqProperties
  <1>4. Len(SubSeq(s, 1, Len(s) - 1)) = Len(s) - 1
    <2>1. Len(SubSeq(s, 1, Len(s) - 1)) = IF 1 <= Len(s) - 1 THEN (Len(s) - 1) - 1 + 1 ELSE 0
      BY <1>3
    <2>2. Len(s) \in Nat \ {0}
      BY <1>1
    <2>3. \A m \in Nat \ {0} : (IF 1 <= m - 1 THEN (m - 1) - 1 + 1 ELSE 0) = m - 1
      OBVIOUS
    <2> QED
      BY <2>1, <2>2, <2>3
  <1>5. ASSUME NEW i \in 1..(Len(s) - 1) PROVE SubSeq(s, 1, Len(s) - 1)[i] = s[i]
    <2>1. i \in 1..((Len(s) - 1) - 1 + 1) /\ 1 + i - 1 = i
      BY <1>1
    <2> QED
      BY <1>3, <2>1
  <1> QED
    BY <1>1, <1>3, <1>4, <1>5

(* Positions of a stack of height m.                                       *)
LEMMA Positions ==
    \A m \in Nat : /\ m # 0 => 1 \in 1..m /\ m \in 1..m
                   /\ \A i \in 1..m : /\ i # m <=> i < m
                                      /\ i < m => i + 1 \in 1..m /\ i \in 1..(m - 1)
  OBVIOUS

(* Pushing an element.                                                     *)
LEMMA PushProperties ==
    ASSUME NEW S, NEW s \in Seq(S), NEW x \in S
    PROVE  /\ Append(s, x) \in Seq(S) /\ Append(s, x) # <<>>
           /\ Len(Append(s, x)) = Len(s) + 1
           /\ DOMAIN Append(s, x) = 1..(Len(s) + 1)
           /\ \A i \in 1..Len(s) : Append(s, x)[i] = s[i]
           /\ Append(s, x)[Len(s) + 1] = x
  BY AppendProperties, LenProperties, EmptySeq

(* What is true of every sequence.                                         *)
LEMMA SeqFacts ==
    ASSUME NEW S, NEW s \in Seq(S)
    PROVE  /\ Len(s) \in Nat /\ DOMAIN s = 1..Len(s)
           /\ s = <<>> <=> Len(s) = 0
           /\ \A i \in 1..Len(s) : s[i] \in S
  BY EmptySeq, LenProperties

(* A set of positions has a last one.                                      *)
LEMMA LastPosition ==
    ASSUME NEW n \in Nat, NEW H \in SUBSET (1..n), H # {}
    PROVE  \E i \in H : \A j \in H : j <= i
  <1> DEFINE T == {n - i : i \in H}
             R == {ss \in Nat \X Nat : ss[1] < ss[2]}
  <1>1. IsWellFoundedOn(R, Nat)
    BY NatLessThanWellFounded, Zenon DEF OpToRel
  <1>2. T \subseteq Nat /\ T # {}
    <2>1. \A i \in H : n - i \in Nat
      OBVIOUS
    <2>2. T \subseteq Nat
      BY <2>1, Zenon
    <2>3. PICK h \in H : TRUE
      OBVIOUS
    <2>4. n - h \in T
      BY Zenon
    <2> QED
      BY <2>2, <2>4, Zenon
  <1> HIDE DEF T
  <1>3. PICK x \in T : \A y \in T : ~(<<y, x>> \in R)
    BY <1>1, <1>2, WFMin
  <1>4. \A y \in T : ~(y < x)
    BY <1>2, <1>3
  <1>5. PICK i \in H : x = n - i
    BY DEF T
  <1>6. ASSUME NEW j \in H PROVE j <= i
    <2>1. n - j \in T
      BY DEF T
    <2>2. ~(n - j < n - i)
      BY <1>4, <1>5, <2>1
    <2> QED
      BY <2>2
  <1> QED
    BY <1>6
=============================================================================
