-------------------------- MODULE ArgumentWalkProofs --------------------------
(***************************************************************************)
(* The frames, the batches and the declaration log of argument walks, for  *)
(* any program, relation, inference, substitution and budgets.             *)
(***************************************************************************)
EXTENDS ArgumentWalk, SequenceLemmas, FiniteSetTheorems

-----------------------------------------------------------------------------
(* Sequences whose elements are of any kind.                               *)

IsSequence(s) == s \in Seq(Range(s))

LEMMA SequenceOf ==
    ASSUME NEW S, NEW s \in Seq(S)
    PROVE  IsSequence(s)
  BY SeqOfRange DEF IsSequence

LEMMA SequenceFacts ==
    ASSUME NEW s, IsSequence(s)
    PROVE  /\ Len(s) \in Nat /\ DOMAIN s = 1..Len(s)
           /\ s = <<>> <=> Len(s) = 0
           /\ \A i \in 1..Len(s) : s[i] \in Range(s)
  BY SeqFacts DEF IsSequence

LEMMA EmptySequence == IsSequence(<<>>) /\ Len(<<>>) = 0
  <1>1. <<>> \in Seq({}) /\ Len(<<>>) = 0
    BY EmptySeq
  <1> QED
    BY <1>1, SequenceOf

LEMMA AppendSequence ==
    ASSUME NEW s, IsSequence(s), NEW x
    PROVE  /\ IsSequence(Append(s, x)) /\ Append(s, x) # <<>>
           /\ Len(Append(s, x)) = Len(s) + 1
           /\ DOMAIN Append(s, x) = 1..(Len(s) + 1)
           /\ \A i \in 1..Len(s) : Append(s, x)[i] = s[i]
           /\ Append(s, x)[Len(s) + 1] = x
           /\ Last(Append(s, x)) = x
  <1> DEFINE S == Range(s) \cup {x}
  <1>1. Range(s) \subseteq S /\ x \in S
    OBVIOUS
  <1> HIDE DEF S
  <1>2. s \in Seq(S)
    BY <1>1, SeqMonotonic DEF IsSequence
  <1>3. /\ Append(s, x) \in Seq(S) /\ Append(s, x) # <<>>
        /\ Len(Append(s, x)) = Len(s) + 1
        /\ DOMAIN Append(s, x) = 1..(Len(s) + 1)
        /\ \A i \in 1..Len(s) : Append(s, x)[i] = s[i]
        /\ Append(s, x)[Len(s) + 1] = x
    BY <1>1, <1>2, PushProperties
  <1> QED
    BY <1>3, SequenceOf DEF Last

LEMMA ConcatSequence ==
    ASSUME NEW s, IsSequence(s), NEW t, IsSequence(t)
    PROVE  /\ IsSequence(s \o t)
           /\ Len(s \o t) = Len(s) + Len(t)
           /\ \A i \in 1..Len(s) : (s \o t)[i] = s[i]
           /\ \A i \in 1..Len(t) : (s \o t)[Len(s) + i] = t[i]
           /\ s \o <<>> = s
  <1> DEFINE S == Range(s) \cup Range(t)
  <1>1. Range(s) \subseteq S /\ Range(t) \subseteq S
    OBVIOUS
  <1> HIDE DEF S
  <1>2. s \in Seq(S) /\ t \in Seq(S)
    BY <1>1, SeqMonotonic DEF IsSequence
  <1>3. /\ s \o t \in Seq(S)
        /\ Len(s \o t) = Len(s) + Len(t)
        /\ \A i \in 1..(Len(s) + Len(t)) :
             (s \o t)[i] = IF i <= Len(s) THEN s[i] ELSE t[i - Len(s)]
    BY <1>2, ConcatProperties
  <1>4. Len(s) \in Nat /\ Len(t) \in Nat
    BY SequenceFacts
  <1>5. ASSUME NEW i \in 1..Len(s) PROVE (s \o t)[i] = s[i]
    <2>1. i \in 1..(Len(s) + Len(t)) /\ i <= Len(s)
      BY <1>4
    <2> QED
      BY <1>3, <2>1
  <1>6. ASSUME NEW i \in 1..Len(t) PROVE (s \o t)[Len(s) + i] = t[i]
    <2>1. /\ Len(s) + i \in 1..(Len(s) + Len(t))
          /\ ~(Len(s) + i <= Len(s)) /\ (Len(s) + i) - Len(s) = i
      BY <1>4
    <2> QED
      BY <1>3, <2>1
  <1>7. s \o <<>> = s
    BY <1>2, ConcatEmptySeq
  <1> QED
    BY <1>3, <1>5, <1>6, <1>7, SequenceOf

LEMMA ConcatIsAssociative ==
    ASSUME NEW s, IsSequence(s), NEW t, IsSequence(t), NEW u, IsSequence(u)
    PROVE  (s \o t) \o u = s \o (t \o u)
  <1> DEFINE S == Range(s) \cup Range(t) \cup Range(u)
  <1>1. Range(s) \subseteq S /\ Range(t) \subseteq S /\ Range(u) \subseteq S
    OBVIOUS
  <1> HIDE DEF S
  <1>2. s \in Seq(S) /\ t \in Seq(S) /\ u \in Seq(S)
    BY <1>1, SeqMonotonic DEF IsSequence
  <1> QED
    BY <1>2, ConcatAssociative

LEMMA AppendAsConcat ==
    ASSUME NEW s, IsSequence(s), NEW x
    PROVE  Append(s, x) = s \o <<x>>
  <1> DEFINE S == Range(s) \cup {x}
  <1>1. Range(s) \subseteq S /\ x \in S
    OBVIOUS
  <1> HIDE DEF S
  <1>2. s \in Seq(S)
    BY <1>1, SeqMonotonic DEF IsSequence
  <1> QED
    BY <1>1, <1>2, AppendIsConcat

LEMMA FrontSequence ==
    ASSUME NEW s, IsSequence(s), s # <<>>
    PROVE  /\ IsSequence(Front(s))
           /\ Len(Front(s)) = Len(s) - 1
           /\ \A i \in 1..(Len(s) - 1) : Front(s)[i] = s[i]
           /\ Len(s) \in Nat \ {0}
  BY PopProperties, SequenceOf DEF IsSequence, Front

LEMMA SuffixSequence ==
    ASSUME NEW s, IsSequence(s), NEW m \in 0..Len(s)
    PROVE  /\ IsSequence(SubSeq(s, m + 1, Len(s)))
           /\ Len(SubSeq(s, m + 1, Len(s))) = Len(s) - m
           /\ \A i \in 1..(Len(s) - m) : SubSeq(s, m + 1, Len(s))[i] = s[m + i]
  <1>1. Len(s) \in Nat /\ \A i \in 1..Len(s) : s[i] \in Range(s)
    BY SequenceFacts
  <1>2. m + 1 \in 1..(Len(s) + 1) /\ \A i \in (m + 1)..Len(s) : s[i] \in Range(s)
    BY <1>1
  <1>3. /\ SubSeq(s, m + 1, Len(s)) \in Seq(Range(s))
        /\ Len(SubSeq(s, m + 1, Len(s))) =
             IF m + 1 <= Len(s) THEN Len(s) - (m + 1) + 1 ELSE 0
        /\ \A i \in 1..(Len(s) - (m + 1) + 1) :
             SubSeq(s, m + 1, Len(s))[i] = s[(m + 1) + i - 1]
    BY <1>1, <1>2, SubSeqProperties DEF IsSequence
  <1>4. /\ (IF m + 1 <= Len(s) THEN Len(s) - (m + 1) + 1 ELSE 0) = Len(s) - m
        /\ Len(s) - (m + 1) + 1 = Len(s) - m
        /\ \A i \in 1..(Len(s) - m) : (m + 1) + i - 1 = m + i
    BY <1>1
  <1> HIDE DEF IsSequence
  <1> QED
    BY <1>3, <1>4, SequenceOf

LEMMA ExceptSequence ==
    ASSUME NEW s, IsSequence(s), NEW k, NEW x
    PROVE  /\ IsSequence([s EXCEPT ![k] = x])
           /\ Len([s EXCEPT ![k] = x]) = Len(s)
  <1> DEFINE S == Range(s) \cup {x}
             t == [s EXCEPT ![k] = x]
  <1>1. Range(s) \subseteq S /\ x \in S
    OBVIOUS
  <1>2. Len(s) \in Nat /\ DOMAIN s = 1..Len(s) /\ \A i \in 1..Len(s) : s[i] \in S
    BY SequenceFacts
  <1>3. t \in [1..Len(s) -> S]
    BY <1>1, <1>2
  <1>4. t \in Seq(S)
    BY <1>2, <1>3, SeqDef
  <1>5. IsSequence(t)
    BY <1>4, SequenceOf
  <1>6. DOMAIN t = 1..Len(s) /\ DOMAIN t = 1..Len(t) /\ Len(t) \in Nat
    BY <1>2, <1>5, SequenceFacts
  <1>7. Len(t) = Len(s)
    BY <1>2, <1>6
  <1> QED
    BY <1>5, <1>7

(* The first and the last position of a set.                               *)
LEMMA FirstPosition ==
    ASSUME NEW n \in Nat, NEW H \in SUBSET (1..n), H # {}
    PROVE  Min(H) \in H /\ \A j \in H : Min(H) <= j
  <1> DEFINE T == {(n + 1) - i : i \in H}
  <1>1. T \in SUBSET (1..n) /\ T # {}
    <2>1. \A i \in H : (n + 1) - i \in 1..n
      OBVIOUS
    <2>2. T \subseteq 1..n
      BY <2>1, Zenon
    <2>3. PICK h \in H : TRUE
      OBVIOUS
    <2>4. (n + 1) - h \in T
      BY Zenon
    <2> QED
      BY <2>2, <2>4, Zenon
  <1>2. PICK t \in T : \A u \in T : u <= t
    BY <1>1, LastPosition
  <1>3. PICK h \in H : t = (n + 1) - h
    BY <1>2
  <1>4. ASSUME NEW j \in H PROVE h <= j
    <2>1. (n + 1) - j \in T
      OBVIOUS
    <2>2. (n + 1) - j <= (n + 1) - h
      BY <1>2, <1>3, <2>1
    <2> QED
      BY <2>2
  <1>5. \E x \in H : \A y \in H : x <= y
    BY <1>4
  <1> QED
    BY <1>5 DEF Min

LEMMA FinalPosition ==
    ASSUME NEW n \in Nat, NEW H \in SUBSET (1..n), H # {}
    PROVE  Max(H) \in H /\ \A j \in H : j <= Max(H)
  <1>1. PICK h \in H : \A j \in H : j <= h
    BY LastPosition
  <1>2. \A j \in H : h >= j
    BY <1>1
  <1>3. \E x \in H : \A y \in H : x >= y
    BY <1>2
  <1>4. Max(H) \in H /\ \A y \in H : Max(H) >= y
    BY <1>3 DEF Max
  <1> QED
    BY <1>4

(* A finite set as a sequence.                                             *)
LEMMA SetAsSequence ==
    ASSUME NEW S, IsFiniteSet(S)
    PROVE  /\ IsSequence(SetToSeq(S))
           /\ \A i \in DOMAIN SetToSeq(S) : SetToSeq(S)[i] \in S
           /\ \A x \in S : \E i \in DOMAIN SetToSeq(S) : SetToSeq(S)[i] = x
           /\ \A i, j \in DOMAIN SetToSeq(S) : SetToSeq(S)[i] = SetToSeq(S)[j] => i = j
  <1> DEFINE n == Cardinality(S)
             q == SetToSeq(S)
  <1>1. n \in Nat /\ ExistsBijection(1..n, S)
    BY FS_CardinalityType
  <1>2. PICK g \in [1..n -> S] : IsInjective(g)
    BY <1>1 DEF ExistsBijection, Bijection, Injection, Surjection
  <1>3. q \in [1..n -> S] /\ IsInjective(q)
    BY <1>2 DEF SetToSeq
  <1> HIDE DEF q
  <1>4. q \in Seq(S)
    BY <1>1, <1>3, SeqDef
  <1>5. q \in Injection(1..n, S)
    BY <1>3 DEF Injection
  <1>6. IsFiniteSet(1..n) /\ Cardinality(1..n) = n
    <2>1. 1 \in Int /\ n \in Int
      BY <1>1
    <2>2. IsFiniteSet(1..n) /\ Cardinality(1..n) = IF 1 > n THEN 0 ELSE n - 1 + 1
      BY <2>1, FS_Interval
    <2>3. (IF 1 > n THEN 0 ELSE n - 1 + 1) = n
      BY <1>1
    <2> QED
      BY <2>2, <2>3
  <1>7. q \in Surjection(1..n, S)
    BY <1>5, <1>6, FS_Injection
  <1>8. \A x \in S : \E i \in 1..n : q[i] = x
    BY <1>7 DEF Surjection
  <1>9. DOMAIN q = 1..n
    BY <1>3
  <1>10. IsSequence(q)
    BY <1>4, SequenceOf
  <1>11. \A i, j \in DOMAIN q : q[i] = q[j] => i = j
    BY <1>3 DEF IsInjective
  <1>12. \A i \in DOMAIN q : q[i] \in S
    BY <1>3, <1>9
  <1> QED
    BY <1>8, <1>9, <1>10, <1>11, <1>12 DEF q

(* The values of a function with a finite domain.                          *)
LEMMA FiniteRange ==
    ASSUME NEW S, IsFiniteSet(S), NEW f, f = [x \in S |-> f[x]]
    PROVE  IsFiniteSet(Range(f))
  <1>1. f \in [S -> Range(f)] /\ \A t \in Range(f) : \E x \in S : f[x] = t
    BY DEF Range
  <1>2. f \in Surjection(S, Range(f))
    BY <1>1 DEF Surjection
  <1> QED
    BY <1>2, FS_Surjection
-----------------------------------------------------------------------------
(* What a stretch of the log says about the declarations around it.        *)

WriteOf(e, s) == e.slot = s /\ e.write
ReadOf(e, s)  == e.slot = s /\ ~e.write

(* The events ev take slot s from its type in a to its type in b: without  *)
(* a write they agree, the first write starts from a's and the last ends   *)
(* in b's, and a read before any other event of the slot saw a's.          *)
Moves(s, a, ev, b) ==
    /\ (\A i \in DOMAIN ev : ~WriteOf(ev[i], s)) => a[s] = b[s]
    /\ \A i \in DOMAIN ev :
         (WriteOf(ev[i], s) /\ \A j \in DOMAIN ev : j < i => ~WriteOf(ev[j], s))
           => ev[i].before = a[s]
    /\ \A i \in DOMAIN ev :
         (WriteOf(ev[i], s) /\ \A j \in DOMAIN ev : i < j => ~WriteOf(ev[j], s))
           => ev[i].after = b[s]
    /\ \A i \in DOMAIN ev :
         (ReadOf(ev[i], s) /\ \A j \in DOMAIN ev : j < i => ev[j].slot # s)
           => ev[i].after = a[s]

Traces(a, ev, b) == \A s \in Slots : Moves(s, a, ev, b)

LEMMA TracesNothing == \A a : Traces(a, <<>>, a)
  BY EmptySequence, SequenceFacts DEF Traces, Moves

(* Two stretches, one after the other.                                     *)
LEMMA TracesConcat ==
    ASSUME NEW a, NEW b, NEW c, NEW u, NEW v, IsSequence(u), IsSequence(v),
           Traces(a, u, b), Traces(b, v, c)
    PROVE  Traces(a, u \o v, c)
  <1> DEFINE w == u \o v
             m == Len(u)
             n == Len(v)
  <1>1. m \in Nat /\ n \in Nat /\ DOMAIN u = 1..m /\ DOMAIN v = 1..n
    BY SequenceFacts
  <1>2. DOMAIN w = 1..(m + n) /\ (\A i \in 1..m : w[i] = u[i]) /\ (\A i \in 1..n : w[m + i] = v[i])
    BY ConcatSequence, SequenceFacts
  <1> HIDE DEF w, m, n
  <1>3. /\ \A i \in 1..m : i \in 1..(m + n)
        /\ \A i \in 1..n : m + i \in 1..(m + n)
        /\ \A i \in 1..(m + n) : i \in 1..m \/ (i - m \in 1..n /\ m + (i - m) = i)
        /\ \A i \in 1..m : \A j \in 1..n : i < m + j
        /\ \A i, j \in 1..n : m + i < m + j <=> i < j
    BY <1>1
  <1> SUFFICES ASSUME NEW s \in Slots PROVE Moves(s, a, w, c)
    BY DEF Traces, w
  <1>4. Moves(s, a, u, b) /\ Moves(s, b, v, c)
    BY DEF Traces
  <1>5. ASSUME \A i \in DOMAIN w : ~WriteOf(w[i], s) PROVE a[s] = c[s]
    <2>1. \A i \in 1..m : ~WriteOf(u[i], s)
      BY <1>2, <1>3, <1>5
    <2>2. \A i \in 1..n : ~WriteOf(v[i], s)
      BY <1>2, <1>3, <1>5
    <2> QED
      BY <1>1, <1>4, <2>1, <2>2 DEF Moves
  <1>6. ASSUME NEW i \in DOMAIN w, WriteOf(w[i], s),
               \A j \in DOMAIN w : j < i => ~WriteOf(w[j], s)
        PROVE  w[i].before = a[s]
    <2>1. CASE i \in 1..m
      <3>1. w[i] = u[i] /\ WriteOf(u[i], s)
        BY <1>2, <1>6, <2>1
      <3>2. \A j \in 1..m : j < i => ~WriteOf(u[j], s)
        BY <1>2, <1>3, <1>6
      <3> QED
        BY <1>1, <1>4, <2>1, <3>1, <3>2 DEF Moves
    <2>2. CASE i \notin 1..m
      <3> DEFINE k == i - m
      <3>1. k \in 1..n /\ m + k = i
        BY <1>2, <1>3, <2>2
      <3> HIDE DEF k
      <3>2. w[i] = v[k] /\ WriteOf(v[k], s)
        BY <1>2, <1>6, <3>1
      <3>3. \A j \in 1..m : ~WriteOf(u[j], s)
        BY <1>2, <1>3, <1>6, <3>1
      <3>4. \A j \in 1..n : j < k => ~WriteOf(v[j], s)
        BY <1>2, <1>3, <1>6, <3>1
      <3>5. a[s] = b[s]
        BY <1>1, <1>4, <3>3 DEF Moves
      <3>6. v[k].before = b[s]
        BY <1>1, <1>4, <3>1, <3>2, <3>4 DEF Moves
      <3> QED
        BY <3>2, <3>5, <3>6
    <2> QED
      BY <2>1, <2>2
  <1>7. ASSUME NEW i \in DOMAIN w, WriteOf(w[i], s),
               \A j \in DOMAIN w : i < j => ~WriteOf(w[j], s)
        PROVE  w[i].after = c[s]
    <2>1. CASE i \in 1..m
      <3>1. w[i] = u[i] /\ WriteOf(u[i], s)
        BY <1>2, <1>7, <2>1
      <3>2. \A j \in 1..m : i < j => ~WriteOf(u[j], s)
        BY <1>2, <1>3, <1>7
      <3>3. \A j \in 1..n : ~WriteOf(v[j], s)
        BY <1>2, <1>3, <1>7, <2>1
      <3>4. u[i].after = b[s]
        BY <1>1, <1>4, <2>1, <3>1, <3>2 DEF Moves
      <3>5. b[s] = c[s]
        BY <1>1, <1>4, <3>3 DEF Moves
      <3> QED
        BY <3>1, <3>4, <3>5
    <2>2. CASE i \notin 1..m
      <3> DEFINE k == i - m
      <3>1. k \in 1..n /\ m + k = i
        BY <1>2, <1>3, <2>2
      <3> HIDE DEF k
      <3>2. w[i] = v[k] /\ WriteOf(v[k], s)
        BY <1>2, <1>7, <3>1
      <3>3. \A j \in 1..n : k < j => ~WriteOf(v[j], s)
        BY <1>2, <1>3, <1>7, <3>1
      <3> QED
        BY <1>1, <1>4, <3>1, <3>2, <3>3 DEF Moves
    <2> QED
      BY <2>1, <2>2
  <1>8. ASSUME NEW i \in DOMAIN w, ReadOf(w[i], s),
               \A j \in DOMAIN w : j < i => w[j].slot # s
        PROVE  w[i].after = a[s]
    <2>1. CASE i \in 1..m
      <3>1. w[i] = u[i]
        BY <1>2, <2>1
      <3>2. \A j \in 1..m : j < i => u[j].slot # s
        BY <1>2, <1>3, <1>8
      <3> QED
        BY <1>1, <1>4, <1>8, <2>1, <3>1, <3>2 DEF Moves
    <2>2. CASE i \notin 1..m
      <3> DEFINE k == i - m
      <3>1. k \in 1..n /\ m + k = i
        BY <1>2, <1>3, <2>2
      <3> HIDE DEF k
      <3>2. w[i] = v[k]
        BY <1>2, <3>1
      <3>3. \A j \in 1..m : u[j].slot # s
        BY <1>2, <1>3, <1>8, <3>1
      <3>4. \A j \in 1..n : j < k => v[j].slot # s
        BY <1>2, <1>3, <1>8, <3>1
      <3>5. a[s] = b[s]
        BY <1>1, <1>4, <3>3 DEF Moves, WriteOf, ReadOf
      <3>6. v[k].after = b[s]
        BY <1>1, <1>4, <1>8, <3>1, <3>2, <3>4 DEF Moves
      <3> QED
        BY <3>2, <3>5, <3>6
    <2> QED
      BY <2>1, <2>2
  <1> QED
    BY <1>5, <1>6, <1>7, <1>8, Zenon DEF Moves

(* Reads of what the declarations hold, in any order.                      *)
LEMMA TracesReads ==
    ASSUME NEW a, NEW R, IsFiniteSet(R),
           \A e \in R : ~e.write /\ (e.slot \in Slots => e.after = a[e.slot])
    PROVE  Traces(a, SetToSeq(R), a)
  <1> DEFINE q == SetToSeq(R)
  <1>1. \A i \in DOMAIN q : q[i] \in R
    BY SetAsSequence
  <1> HIDE DEF q
  <1>2. \A i \in DOMAIN q : ~q[i].write /\ (q[i].slot \in Slots => q[i].after = a[q[i].slot])
    BY <1>1
  <1>3. ASSUME NEW s \in Slots PROVE Moves(s, a, q, a)
    BY <1>2 DEF Moves, WriteOf, ReadOf
  <1> QED
    BY <1>3 DEF Traces, q

(* Writes that start from what the declarations hold, one to a slot.       *)
LEMMA TracesWrites ==
    ASSUME NEW a, NEW b, NEW W, IsFiniteSet(W),
           \A e \in W : e.write,
           \A d, e \in W : d.slot = e.slot => d = e,
           \A e \in W : e.slot \in Slots => e.before = a[e.slot] /\ e.after = b[e.slot],
           \A s \in Slots : (\A e \in W : e.slot # s) => a[s] = b[s]
    PROVE  Traces(a, SetToSeq(W), b)
  <1> DEFINE q == SetToSeq(W)
  <1>1. (\A i \in DOMAIN q : q[i] \in W) /\ \A e \in W : \E i \in DOMAIN q : q[i] = e
    BY SetAsSequence
  <1> HIDE DEF q
  <1>2. \A i \in DOMAIN q : /\ q[i].write
                            /\ q[i].slot \in Slots => /\ q[i].before = a[q[i].slot]
                                                     /\ q[i].after = b[q[i].slot]
    BY <1>1
  <1>3. ASSUME NEW s \in Slots PROVE Moves(s, a, q, b)
    <2>1. ASSUME \A i \in DOMAIN q : ~WriteOf(q[i], s) PROVE a[s] = b[s]
      <3>1. \A e \in W : e.slot # s
        BY <1>1, <2>1 DEF WriteOf
      <3> QED
        BY <3>1
    <2> QED
      BY <1>2, <2>1 DEF Moves, WriteOf, ReadOf
  <1> QED
    BY <1>3 DEF Traces, q

(* One event.                                                              *)
LEMMA TracesOne ==
    ASSUME NEW a, NEW b, NEW e,
           \A s \in Slots : /\ e.slot = s /\ e.write => e.before = a[s] /\ e.after = b[s]
                            /\ e.slot = s /\ ~e.write => e.after = a[s]
                            /\ ~(e.slot = s /\ e.write) => a[s] = b[s]
    PROVE  Traces(a, <<e>>, b) /\ IsSequence(<<e>>)
  <1>1. <<e>> \in Seq({e}) /\ Len(<<e>>) = 1 /\ <<e>>[1] = e
    OBVIOUS
  <1>2. IsSequence(<<e>>) /\ DOMAIN <<e>> = {1} /\ <<e>>[1] = e
    <2>1. IsSequence(<<e>>)
      BY <1>1, SequenceOf
    <2>2. DOMAIN <<e>> = 1..1
      BY <1>1, <2>1, SequenceFacts
    <2> QED
      BY <1>1, <2>1, <2>2
  <1>3. ASSUME NEW s \in Slots PROVE Moves(s, a, <<e>>, b)
    BY <1>2 DEF Moves, WriteOf, ReadOf
  <1> QED
    BY <1>2, <1>3 DEF Traces

-----------------------------------------------------------------------------
(* net_writes and dependencies over such a stretch.                        *)

WritesOf(ev, s) == {i \in DOMAIN ev : ev[i].slot = s /\ ev[i].write}
Written(ev) == {ev[i].slot : i \in {j \in DOMAIN ev : ev[j].write}}
Net(s, before, after) == [slot |-> s, before |-> before, after |-> after]
MoveOf(ev, s) == Net(s, ev[Min(WritesOf(ev, s))].before, ev[Max(WritesOf(ev, s))].after)

LEMMA NetWritesAre ==
    ASSUME NEW ev
    PROVE  net_writes(ev) = {w \in {MoveOf(ev, s) : s \in Written(ev)} : w.before # w.after}
  BY DEF net_writes, MoveOf, Written, WritesOf, Net

LEMMA NetFields ==
    \A s, x, y : Net(s, x, y).slot = s /\ Net(s, x, y).before = x /\ Net(s, x, y).after = y
  BY DEF Net

LEMMA NetWritesFacts ==
    ASSUME NEW ev, IsSequence(ev)
    PROVE  /\ IsFiniteSet(net_writes(ev))
           /\ \A w \in net_writes(ev) : /\ w.slot \in Written(ev) /\ w = MoveOf(ev, w.slot)
                                        /\ w.before # w.after
           /\ \A s \in Written(ev) : MoveOf(ev, s).before # MoveOf(ev, s).after
                                       => MoveOf(ev, s) \in net_writes(ev)
  <1>1. \A s : MoveOf(ev, s).slot = s
    BY NetFields DEF MoveOf
  <1>2. IsFiniteSet(net_writes(ev))
    <2> DEFINE f == [i \in DOMAIN ev |-> MoveOf(ev, ev[i].slot)]
    <2>1. IsFiniteSet(DOMAIN ev)
      <3>1. Len(ev) \in Nat /\ DOMAIN ev = 1..Len(ev) /\ 1 \in Int /\ Len(ev) \in Int
        BY SequenceFacts
      <3> QED
        BY <3>1, FS_Interval
    <2>2. f = [i \in DOMAIN ev |-> f[i]] /\ DOMAIN f = DOMAIN ev
      OBVIOUS
    <2>3. net_writes(ev) \subseteq Range(f)
      <3> SUFFICES ASSUME NEW w \in net_writes(ev) PROVE w \in Range(f)
        OBVIOUS
      <3>1. PICK s \in Written(ev) : w = MoveOf(ev, s)
        BY NetWritesAre, Zenon
      <3>2. PICK i \in DOMAIN ev : s = ev[i].slot
        BY <3>1 DEF Written
      <3>3. f[i] = w /\ i \in DOMAIN f
        BY <3>1, <3>2
      <3> QED
        BY <3>3 DEF Range
    <2> HIDE DEF f
    <2>4. IsFiniteSet(Range(f))
      BY <2>1, <2>2, FiniteRange
    <2> QED
      BY <2>3, <2>4, FS_Subset
  <1>3. ASSUME NEW w \in net_writes(ev)
        PROVE  w.slot \in Written(ev) /\ w = MoveOf(ev, w.slot) /\ w.before # w.after
    <2>1. PICK s \in Written(ev) : w = MoveOf(ev, s)
      BY NetWritesAre, Zenon
    <2>2. w.before # w.after
      BY NetWritesAre, Zenon
    <2> QED
      BY <1>1, <2>1, <2>2
  <1>4. ASSUME NEW s \in Written(ev), MoveOf(ev, s).before # MoveOf(ev, s).after
        PROVE  MoveOf(ev, s) \in net_writes(ev)
    BY <1>4, NetWritesAre, Zenon
  <1> QED
    BY <1>2, <1>3, <1>4

(* The net writes are the slots whose types differ.                        *)
LEMMA NetWritesTraced ==
    ASSUME NEW ev, IsSequence(ev), NEW a, NEW b, Traces(a, ev, b), NEW s \in Slots
    PROVE  /\ \A w \in net_writes(ev) : w.slot = s => a[s] # b[s] /\ w = Net(s, a[s], b[s])
           /\ a[s] # b[s] => Net(s, a[s], b[s]) \in net_writes(ev)
  <1> DEFINE W == WritesOf(ev, s)
  <1>1. Moves(s, a, ev, b)
    BY DEF Traces
  <1>2. Len(ev) \in Nat /\ DOMAIN ev = 1..Len(ev)
    BY SequenceFacts
  <1>3. W \in SUBSET (1..Len(ev)) /\ \A i \in DOMAIN ev : i \in W <=> WriteOf(ev[i], s)
    BY <1>2 DEF WritesOf, WriteOf
  <1>4. s \in Written(ev) <=> W # {}
    BY DEF Written, WritesOf
  <1> HIDE DEF W
  <1>5. ASSUME W # {} PROVE MoveOf(ev, s) = Net(s, a[s], b[s])
    <2>1. Min(W) \in W /\ \A j \in W : Min(W) <= j
      BY <1>2, <1>3, <1>5, FirstPosition
    <2>2. Max(W) \in W /\ \A j \in W : j <= Max(W)
      BY <1>2, <1>3, <1>5, FinalPosition
    <2>3. ASSUME NEW j \in DOMAIN ev, j < Min(W), WriteOf(ev[j], s) PROVE FALSE
      <3>1. Min(W) \in 1..Len(ev) /\ j \in 1..Len(ev) /\ Min(W) <= j
        BY <1>2, <1>3, <2>1, <2>3, Zenon
      <3> QED
        BY <1>2, <2>3, <3>1
    <2>4. ASSUME NEW j \in DOMAIN ev, Max(W) < j, WriteOf(ev[j], s) PROVE FALSE
      <3>1. Max(W) \in 1..Len(ev) /\ j \in 1..Len(ev) /\ j <= Max(W)
        BY <1>2, <1>3, <2>2, <2>4, Zenon
      <3> QED
        BY <1>2, <2>4, <3>1
    <2>5. /\ Min(W) \in DOMAIN ev /\ Max(W) \in DOMAIN ev
          /\ WriteOf(ev[Min(W)], s) /\ WriteOf(ev[Max(W)], s)
      BY <1>2, <1>3, <2>1, <2>2
    <2>6. ev[Min(W)].before = a[s] /\ ev[Max(W)].after = b[s]
      BY <1>1, <2>3, <2>4, <2>5 DEF Moves
    <2> QED
      BY <2>6 DEF MoveOf, W
  <1>6. ASSUME W = {} PROVE a[s] = b[s]
    <2>1. \A i \in DOMAIN ev : ~WriteOf(ev[i], s)
      BY <1>3, <1>6
    <2> QED
      BY <1>1, <2>1 DEF Moves
  <1>7. ASSUME NEW w \in net_writes(ev), w.slot = s
        PROVE  a[s] # b[s] /\ w = Net(s, a[s], b[s])
    <2>1. s \in Written(ev) /\ w = MoveOf(ev, s) /\ w.before # w.after
      BY <1>7, NetWritesFacts
    <2>2. w = Net(s, a[s], b[s])
      BY <1>4, <1>5, <2>1
    <2> QED
      BY <2>1, <2>2, NetFields
  <1>8. ASSUME a[s] # b[s] PROVE Net(s, a[s], b[s]) \in net_writes(ev)
    <2>1. s \in Written(ev) /\ MoveOf(ev, s) = Net(s, a[s], b[s])
      BY <1>4, <1>5, <1>6, <1>8
    <2> QED
      BY <1>8, <2>1, NetWritesFacts, NetFields
  <1> QED
    BY <1>7, <1>8

FirstOf(ev, s) ==
    CHOOSE i \in DOMAIN ev : ev[i].slot = s /\ \A j \in 1 .. i - 1 : ev[j].slot # s
Read(ev, s) == <<s, ev[FirstOf(ev, s)].after>>
Observed(ev) == {ev[i].slot : i \in DOMAIN ev}

LEMMA DependenciesAre ==
    ASSUME NEW ev
    PROVE  dependencies(ev) =
             {Read(ev, s) : s \in {t \in Observed(ev) : ~ev[FirstOf(ev, t)].write}}
  BY DEF dependencies, Read, Observed, FirstOf

LEMMA DependenciesFinite ==
    ASSUME NEW ev, IsSequence(ev)
    PROVE  IsFiniteSet(dependencies(ev))
  <1> DEFINE f == [i \in DOMAIN ev |-> Read(ev, ev[i].slot)]
  <1>1. IsFiniteSet(DOMAIN ev)
    <2>1. Len(ev) \in Nat /\ DOMAIN ev = 1..Len(ev) /\ 1 \in Int /\ Len(ev) \in Int
      BY SequenceFacts
    <2> QED
      BY <2>1, FS_Interval
  <1>2. f = [i \in DOMAIN ev |-> f[i]] /\ DOMAIN f = DOMAIN ev
    OBVIOUS
  <1>3. dependencies(ev) \subseteq Range(f)
    <2> SUFFICES ASSUME NEW r \in dependencies(ev) PROVE r \in Range(f)
      OBVIOUS
    <2>1. PICK s \in Observed(ev) : r = Read(ev, s)
      BY DependenciesAre, Zenon
    <2>2. PICK i \in DOMAIN ev : s = ev[i].slot
      BY <2>1 DEF Observed
    <2>3. f[i] = r /\ i \in DOMAIN f
      BY <2>1, <2>2
    <2> QED
      BY <2>3 DEF Range
  <1> HIDE DEF f
  <1>4. IsFiniteSet(Range(f))
    BY <1>1, <1>2, FiniteRange
  <1> QED
    BY <1>3, <1>4, FS_Subset

(* A dependency is the type the slot had at the mark.                      *)
LEMMA DependenciesTraced ==
    ASSUME NEW ev, IsSequence(ev), NEW a, NEW b, Traces(a, ev, b),
           NEW r \in dependencies(ev), r[1] \in Slots
    PROVE  r[2] = a[r[1]]
  <1>1. PICK s \in {t \in Observed(ev) : ~ev[FirstOf(ev, t)].write} : r = Read(ev, s)
    BY DependenciesAre, Zenon
  <1>2. r[1] = s /\ r[2] = ev[FirstOf(ev, s)].after /\ s \in Slots
    BY <1>1 DEF Read
  <1>3. Len(ev) \in Nat /\ DOMAIN ev = 1..Len(ev)
    BY SequenceFacts
  <1> DEFINE H == {i \in DOMAIN ev : ev[i].slot = s}
             k == FirstOf(ev, s)
  <1>4. H \in SUBSET (1..Len(ev)) /\ H # {}
    BY <1>1, <1>3 DEF Observed
  <1>5. Min(H) \in H /\ \A j \in H : Min(H) <= j
    BY <1>3, <1>4, FirstPosition
  <1>6. Min(H) \in DOMAIN ev /\ ev[Min(H)].slot = s /\ \A j \in 1 .. Min(H) - 1 : ev[j].slot # s
    <2>1. Min(H) \in DOMAIN ev /\ ev[Min(H)].slot = s /\ Min(H) \in 1..Len(ev)
      BY <1>3, <1>5, Zenon
    <2>2. ASSUME NEW j \in 1 .. Min(H) - 1, ev[j].slot = s PROVE FALSE
      <3>1. j \in 1..Len(ev)
        BY <1>3, <2>1
      <3>2. Min(H) <= j
        BY <1>3, <1>5, <2>2, <3>1, Zenon
      <3> QED
        BY <1>3, <2>1, <3>2
    <2> QED
      BY <2>1, <2>2
  <1>7. k \in DOMAIN ev /\ ev[k].slot = s /\ \A j \in 1 .. k - 1 : ev[j].slot # s
    BY <1>6 DEF FirstOf
  <1> HIDE DEF k
  <1>8. ReadOf(ev[k], s) /\ \A j \in DOMAIN ev : j < k => ev[j].slot # s
    BY <1>1, <1>3, <1>7 DEF ReadOf, k
  <1>9. Moves(s, a, ev, b)
    BY <1>2 DEF Traces
  <1>10. ev[k].after = a[s]
    BY <1>7, <1>8, <1>9 DEF Moves
  <1> QED
    BY <1>2, <1>10 DEF k

-----------------------------------------------------------------------------
(* The stack.                                                              *)

LEMMA SequenceEqual ==
    ASSUME NEW s, NEW t, IsSequence(s), IsSequence(t), Len(s) = Len(t),
           \A i \in 1..Len(s) : s[i] = t[i]
    PROVE  s = t
  <1> DEFINE S == Range(s) \cup Range(t)
  <1>1. Range(s) \subseteq S /\ Range(t) \subseteq S
    OBVIOUS
  <1> HIDE DEF S
  <1>2. s \in Seq(S) /\ t \in Seq(S)
    BY <1>1, SeqMonotonic DEF IsSequence
  <1> QED
    BY <1>2, SeqEqual

(* What follows a mark grows with the log.                                 *)
LEMMA SuffixConcat ==
    ASSUME NEW l, IsSequence(l), NEW es, IsSequence(es), NEW m \in 0..Len(l)
    PROVE  SubSeq(l \o es, m + 1, Len(l \o es)) = SubSeq(l, m + 1, Len(l)) \o es
  <1> DEFINE u == SubSeq(l, m + 1, Len(l))
             v == SubSeq(l \o es, m + 1, Len(l \o es))
             n == Len(l)
             k == Len(es)
  <1>1. n \in Nat /\ k \in Nat
    BY SequenceFacts
  <1>2. /\ IsSequence(l \o es) /\ Len(l \o es) = n + k
        /\ \A i \in 1..n : (l \o es)[i] = l[i]
        /\ \A i \in 1..k : (l \o es)[n + i] = es[i]
    BY ConcatSequence
  <1>3. IsSequence(u) /\ Len(u) = n - m /\ \A i \in 1..(n - m) : u[i] = l[m + i]
    BY SuffixSequence
  <1>4. m \in 0..Len(l \o es)
    BY <1>1, <1>2
  <1>5. IsSequence(v) /\ Len(v) = (n + k) - m /\ \A i \in 1..((n + k) - m) : v[i] = (l \o es)[m + i]
    BY <1>2, <1>4, SuffixSequence
  <1> HIDE DEF u, v
  <1>6. /\ IsSequence(u \o es) /\ Len(u \o es) = (n - m) + k
        /\ \A i \in 1..(n - m) : (u \o es)[i] = u[i]
        /\ \A i \in 1..k : (u \o es)[(n - m) + i] = es[i]
    <2>0. \A x : IsSequence(x) =>
            /\ IsSequence(x \o es) /\ Len(x \o es) = Len(x) + Len(es)
            /\ \A i \in 1..Len(x) : (x \o es)[i] = x[i]
            /\ \A i \in 1..Len(es) : (x \o es)[Len(x) + i] = es[i]
      BY ConcatSequence
    <2>1. /\ IsSequence(u \o es) /\ Len(u \o es) = Len(u) + Len(es)
          /\ \A i \in 1..Len(u) : (u \o es)[i] = u[i]
          /\ \A i \in 1..Len(es) : (u \o es)[Len(u) + i] = es[i]
      BY <1>3, <2>0, Zenon
    <2> HIDE DEF n, k
    <2>2. Len(u) = n - m /\ Len(es) = k
      BY <1>3 DEF k
    <2> QED
      BY <2>1, <2>2, Zenon
  <1> HIDE DEF n, k
  <1>7. m \in 0..n
    BY DEF n
  <1>8. Len(v) = Len(u \o es)
    BY <1>1, <1>5, <1>6, <1>7
  <1>9. ASSUME NEW i \in 1..Len(v) PROVE v[i] = (u \o es)[i]
    <2>1. i \in 1..((n + k) - m)
      BY <1>5
    <2>2. CASE i <= n - m
      <3>1. i \in 1..(n - m) /\ m + i \in 1..n
        BY <1>1, <1>7, <2>1, <2>2
      <3> QED
        BY <1>2, <1>3, <1>5, <1>6, <2>1, <3>1
    <2>3. CASE ~(i <= n - m)
      <3> DEFINE j == i - (n - m)
      <3>1. j \in 1..k /\ (n - m) + j = i /\ n + j = m + i
        BY <1>1, <1>7, <2>1, <2>3
      <3> HIDE DEF j
      <3>2. v[i] = (l \o es)[n + j] /\ (l \o es)[n + j] = es[j]
        BY <1>2, <1>5, <2>1, <3>1
      <3>3. (u \o es)[i] = es[j]
        BY <1>6, <3>1
      <3> QED
        BY <3>2, <3>3
    <2> QED
      BY <2>2, <2>3
  <1> QED
    BY <1>5, <1>6, <1>8, <1>9, SequenceEqual DEF u, v

(* Frames that capture a batch of records.                                 *)
Captures(f) ==
    \/ f.frame \in {"captured", "settle"}
    \/ f.frame = "source" /\ ~f.retain
Capturing(st) == {i \in DOMAIN st : Captures(st[i])}
Opened(st) == Cardinality(Capturing(st))

LEMMA CapturingFinite ==
    ASSUME NEW st, IsSequence(st)
    PROVE  IsFiniteSet(Capturing(st)) /\ Opened(st) \in Nat
  <1>1. Len(st) \in Nat /\ DOMAIN st = 1..Len(st) /\ 1 \in Int /\ Len(st) \in Int
    BY SequenceFacts
  <1>2. IsFiniteSet(DOMAIN st)
    BY <1>1, FS_Interval
  <1>3. IsFiniteSet(Capturing(st))
    BY <1>2, FS_Subset DEF Capturing
  <1> QED
    BY <1>3, FS_CardinalityType DEF Opened

LEMMA OpenedPush ==
    ASSUME NEW st, IsSequence(st), NEW f
    PROVE  Opened(Append(st, f)) = IF Captures(f) THEN Opened(st) + 1 ELSE Opened(st)
  <1> DEFINE n == Len(st)
  <1>1. n \in Nat /\ DOMAIN st = 1..n
    BY SequenceFacts
  <1>2. /\ DOMAIN Append(st, f) = 1..(n + 1)
        /\ \A i \in 1..n : Append(st, f)[i] = st[i]
        /\ Append(st, f)[n + 1] = f
    BY AppendSequence
  <1> HIDE DEF n
  <1>3. n + 1 \notin Capturing(st)
    BY <1>1 DEF Capturing
  <1>4. 1..(n + 1) = (1..n) \cup {n + 1}
    BY <1>1
  <1>5. Capturing(Append(st, f)) = IF Captures(f) THEN Capturing(st) \cup {n + 1} ELSE Capturing(st)
    BY <1>1, <1>2, <1>4, Zenon DEF Capturing
  <1> QED
    BY <1>3, <1>5, CapturingFinite, FS_AddElement DEF Opened

LEMMA OpenedPop ==
    ASSUME NEW st, IsSequence(st), st # <<>>
    PROVE  Opened(Front(st)) = IF Captures(st[Len(st)]) THEN Opened(st) - 1 ELSE Opened(st)
  <1> DEFINE n == Len(st)
  <1>1. n \in Nat \ {0} /\ DOMAIN st = 1..n
    BY SequenceFacts
  <1>2. /\ DOMAIN Front(st) = 1..(n - 1)
        /\ \A i \in 1..(n - 1) : Front(st)[i] = st[i]
    BY FrontSequence, SequenceFacts
  <1> HIDE DEF n
  <1>3. 1..(n - 1) = (1..n) \ {n} /\ n \in 1..n
    BY <1>1
  <1>4. Capturing(Front(st)) = Capturing(st) \ {n}
    <2>1. \A i : i \in Capturing(Front(st)) <=> i \in 1..(n - 1) /\ Captures(Front(st)[i])
      BY <1>2, Zenon DEF Capturing
    <2>2. \A i : i \in Capturing(st) <=> i \in 1..n /\ Captures(st[i])
      BY <1>1, Zenon DEF Capturing
    <2>3. \A i : i \in 1..(n - 1) <=> i \in 1..n /\ i # n
      BY <1>3, Zenon
    <2>4. \A i : i \in Capturing(Front(st)) <=> i \in Capturing(st) /\ i # n
      BY <1>2, <2>1, <2>2, <2>3, Zenon
    <2> QED
      BY <2>4, Zenon
  <1>5. n \in Capturing(st) <=> Captures(st[n])
    BY <1>1, <1>3, Zenon DEF Capturing
  <1> QED
    BY <1>4, <1>5, CapturingFinite, FS_RemoveElement DEF Opened, n

CallFields == {"frame", "expr", "phase", "i", "tys", "held", "sig", "commit",
               "inferred", "params", "ret"}
CallFrame(f) ==
    /\ f = [x \in CallFields |-> f[x]]
    /\ f.frame = "call"
    /\ IsSequence(f.tys) /\ IsSequence(f.held)
    /\ Len(f.tys) = Len(f.held)

(* A walk that a mark was taken for: the log since then leads from the     *)
(* declarations at the mark to those of now.                               *)
MarkedFrame(f, l, a, d) ==
    /\ f.mark \in 0..Len(l)
    /\ Traces(a, SubSeq(l, f.mark + 1, Len(l)), d)

IsTable(d) == d = [s \in Slots |-> d[s]]

FrameOK(f, l, d) ==
    /\ f.frame = "call" => CallFrame(f)
    /\ f.frame = "arrow" => "frame" \in DOMAIN f
    /\ f.frame = "source" => /\ f.retain \in BOOLEAN /\ IsTable(f.saved)
                             /\ MarkedFrame(f, l, f.saved, d)
    /\ f.frame = "captured" => \E a : MarkedFrame(f, l, a, d)

(* Frames that return to the call below them.                              *)
Nested(f) == f.frame \in {"captured", "in place", "settle", "source"}

StackOK(st, l, d) ==
    /\ IsSequence(st)
    /\ \A i \in DOMAIN st : FrameOK(st[i], l, d)
    /\ \A i \in DOMAIN st : Nested(st[i]) => i # 1 /\ st[i - 1].frame = "call"

LEMMA MarkKept ==
    ASSUME NEW f, NEW l, IsSequence(l), NEW es, IsSequence(es), NEW a, NEW d, NEW e,
           Traces(d, es, e), MarkedFrame(f, l, a, d)
    PROVE  MarkedFrame(f, l \o es, a, e)
  <1> DEFINE u == SubSeq(l, f.mark + 1, Len(l))
  <1>1. f.mark \in 0..Len(l) /\ Traces(a, u, d)
    BY DEF MarkedFrame
  <1>2. IsSequence(u)
    BY <1>1, SuffixSequence
  <1>3. Traces(a, u \o es, e)
    BY <1>1, <1>2, TracesConcat
  <1>4. f.mark \in 0..Len(l \o es)
    <2>1. Len(l \o es) = Len(l) + Len(es) /\ Len(l) \in Nat /\ Len(es) \in Nat
      BY ConcatSequence, SequenceFacts
    <2> QED
      BY <1>1, <2>1
  <1> QED
    BY <1>1, <1>3, <1>4, SuffixConcat DEF MarkedFrame

(* The log grows by what happens to the declarations.                      *)
LEMMA StackKept ==
    ASSUME NEW st, NEW l, IsSequence(l), NEW es, IsSequence(es), NEW d, NEW e,
           Traces(d, es, e), StackOK(st, l, d)
    PROVE  StackOK(st, l \o es, e)
  <1>1. ASSUME NEW i \in DOMAIN st PROVE FrameOK(st[i], l \o es, e)
    <2> DEFINE f == st[i]
    <2>1. FrameOK(f, l, d)
      BY DEF StackOK
    <2> HIDE DEF f
    <2>2. ASSUME f.frame = "source"
          PROVE  f.retain \in BOOLEAN /\ IsTable(f.saved) /\ MarkedFrame(f, l \o es, f.saved, e)
      <3>1. f.retain \in BOOLEAN /\ IsTable(f.saved) /\ MarkedFrame(f, l, f.saved, d)
        BY <2>1, <2>2 DEF FrameOK
      <3> QED
        BY <3>1, MarkKept
    <2>3. ASSUME f.frame = "captured" PROVE \E a : MarkedFrame(f, l \o es, a, e)
      <3>1. PICK a : MarkedFrame(f, l, a, d)
        BY <2>1, <2>3 DEF FrameOK
      <3>2. MarkedFrame(f, l \o es, a, e)
        BY <3>1, MarkKept
      <3> QED
        BY <3>2
    <2>4. (f.frame = "call" => CallFrame(f)) /\ (f.frame = "arrow" => "frame" \in DOMAIN f)
      BY <2>1 DEF FrameOK
    <2>5. FrameOK(f, l \o es, e)
      BY <2>2, <2>3, <2>4 DEF FrameOK
    <2> QED
      BY <2>5 DEF f
  <1> QED
    BY <1>1 DEF StackOK

LEMMA StackPush ==
    ASSUME NEW st, NEW l, NEW d, StackOK(st, l, d), NEW f, FrameOK(f, l, d),
           Nested(f) => st # <<>> /\ st[Len(st)].frame = "call"
    PROVE  StackOK(Append(st, f), l, d)
  <1> DEFINE n == Len(st)
             t == Append(st, f)
  <1>1. IsSequence(st)
    BY DEF StackOK
  <1>2. n \in Nat /\ DOMAIN st = 1..n /\ (st = <<>> <=> n = 0)
    BY <1>1, SequenceFacts
  <1>3. /\ IsSequence(t) /\ DOMAIN t = 1..(n + 1)
        /\ \A i \in 1..n : t[i] = st[i]
        /\ t[n + 1] = f
    BY <1>1, AppendSequence
  <1> HIDE DEF n, t
  <1>4. ASSUME NEW i \in DOMAIN t
        PROVE  FrameOK(t[i], l, d) /\ (Nested(t[i]) => i # 1 /\ t[i - 1].frame = "call")
    <2>1. CASE i \in 1..n
      <3>1. t[i] = st[i] /\ i \in DOMAIN st
        BY <1>2, <1>3, <2>1
      <3>2. FrameOK(st[i], l, d) /\ (Nested(st[i]) => i # 1 /\ st[i - 1].frame = "call")
        BY <3>1 DEF StackOK
      <3>3. i # 1 => i - 1 \in 1..n
        BY <1>2, <2>1
      <3> QED
        BY <1>3, <3>1, <3>2, <3>3
    <2>2. CASE i = n + 1
      <3>1. Nested(f) => n # 0 /\ st[n].frame = "call"
        BY <1>2 DEF n
      <3>2. n # 0 => i # 1 /\ i - 1 = n /\ n \in 1..n
        BY <1>2, <2>2
      <3> QED
        BY <1>3, <2>2, <3>1, <3>2
    <2>3. i \in 1..n \/ i = n + 1
      BY <1>2, <1>3
    <2> QED
      BY <2>1, <2>2, <2>3
  <1> QED
    BY <1>3, <1>4 DEF StackOK, t

LEMMA StackPop ==
    ASSUME NEW st, NEW l, NEW d, StackOK(st, l, d), st # <<>>
    PROVE  /\ StackOK(Front(st), l, d)
           /\ FrameOK(st[Len(st)], l, d)
           /\ Nested(st[Len(st)]) => /\ Front(st) # <<>>
                                     /\ Last(Front(st)).frame = "call"
                                     /\ CallFrame(Last(Front(st)))
  <1> DEFINE n == Len(st)
             t == Front(st)
  <1>1. IsSequence(st)
    BY DEF StackOK
  <1>2. n \in Nat \ {0} /\ DOMAIN st = 1..n
    BY <1>1, SequenceFacts
  <1>3. IsSequence(t) /\ Len(t) = n - 1 /\ \A i \in 1..(n - 1) : t[i] = st[i]
    BY <1>1, FrontSequence
  <1>4. DOMAIN t = 1..(n - 1) /\ (t = <<>> <=> n - 1 = 0)
    BY <1>3, SequenceFacts
  <1> HIDE DEF n, t
  <1>5. ASSUME NEW i \in DOMAIN t
        PROVE  FrameOK(t[i], l, d) /\ (Nested(t[i]) => i # 1 /\ t[i - 1].frame = "call")
    <2>1. t[i] = st[i] /\ i \in DOMAIN st /\ (i # 1 => i - 1 \in 1..(n - 1))
      BY <1>2, <1>3, <1>4
    <2>2. FrameOK(st[i], l, d) /\ (Nested(st[i]) => i # 1 /\ st[i - 1].frame = "call")
      BY <2>1 DEF StackOK
    <2> QED
      BY <1>3, <2>1, <2>2
  <1>6. FrameOK(st[n], l, d)
    BY <1>2 DEF StackOK
  <1>7. ASSUME Nested(st[n])
        PROVE  t # <<>> /\ Last(t).frame = "call" /\ CallFrame(Last(t))
    <2>1. n \in DOMAIN st
      BY <1>2
    <2>2. n # 1 /\ st[n - 1].frame = "call"
      BY <1>7, <2>1 DEF StackOK
    <2>3. n - 1 \in 1..(n - 1) /\ n - 1 # 0
      BY <1>2, <2>2
    <2>4. Last(t) = st[n - 1]
      BY <1>3, <2>3 DEF Last
    <2>5. FrameOK(t[n - 1], l, d)
      BY <1>4, <1>5, <2>3
    <2>6. CallFrame(Last(t))
      BY <1>3, <2>2, <2>3, <2>4, <2>5 DEF FrameOK
    <2> QED
      BY <1>4, <2>2, <2>3, <2>4, <2>6
  <1> QED
    BY <1>3, <1>5, <1>6, <1>7 DEF StackOK, n, t

-----------------------------------------------------------------------------
(* The memos, and what serving an entry does.                              *)

EntryOK(e) ==
    /\ IsFiniteSet(e.reads) /\ IsFiniteSet(e.writes)
    /\ \A v, w \in e.writes : v.slot = w.slot => v = w
MemoOK(m) == IsSequence(m) /\ \A i \in DOMAIN m : EntryOK(m[i])

LEMMA EntryMade ==
    ASSUME NEW key, NEW ev, IsSequence(ev), NEW ty, NEW seen
    PROVE  EntryOK(Entry(key, ev, ty, seen))
  <1>1. /\ Entry(key, ev, ty, seen).reads = dependencies(ev)
        /\ Entry(key, ev, ty, seen).writes = net_writes(ev)
    BY DEF Entry
  <1>2. IsFiniteSet(net_writes(ev)) /\ \A w \in net_writes(ev) : w = MoveOf(ev, w.slot)
    BY NetWritesFacts
  <1>3. \A v, w \in net_writes(ev) : v.slot = w.slot => v = w
    BY <1>2
  <1> QED
    BY <1>1, <1>2, <1>3, DependenciesFinite DEF EntryOK

LEMMA MemoizeKept ==
    ASSUME NEW m, MemoOK(m), NEW e, EntryOK(e)
    PROVE  MemoOK(Memoize(m, e))
  <1>1. IsSequence(m) /\ Len(m) \in Nat /\ DOMAIN m = 1..Len(m) /\ \A i \in DOMAIN m : EntryOK(m[i])
    BY SequenceFacts DEF MemoOK
  <1>2. /\ IsSequence(Append(m, e)) /\ DOMAIN Append(m, e) = 1..(Len(m) + 1)
        /\ \A i \in 1..Len(m) : Append(m, e)[i] = m[i]
        /\ Append(m, e)[Len(m) + 1] = e
    BY <1>1, AppendSequence
  <1>3. \A i \in 1..(Len(m) + 1) : i \in 1..Len(m) \/ i = Len(m) + 1
    BY <1>1
  <1>4. MemoOK(Append(m, e))
    BY <1>1, <1>2, <1>3 DEF MemoOK
  <1>5. Memoize(m, e) \in {m, Append(m, e)}
    BY DEF Memoize
  <1> QED
    BY <1>4, <1>5

LEMMA ServedEntry ==
    ASSUME NEW m, MemoOK(m), NEW key, Servable(m, key) # {}
    PROVE  EntryOK(Served(m, key)) /\ dependencies_hold(Served(m, key).reads)
  <1>1. Len(m) \in Nat /\ DOMAIN m = 1..Len(m) /\ \A i \in DOMAIN m : EntryOK(m[i])
    BY SequenceFacts DEF MemoOK
  <1>2. Servable(m, key) \in SUBSET (1..Len(m))
    BY <1>1 DEF Servable
  <1>3. Min(Servable(m, key)) \in Servable(m, key)
    BY <1>1, <1>2, FirstPosition
  <1>4. \A i \in Servable(m, key) : i \in DOMAIN m /\ dependencies_hold(m[i].reads)
    BY DEF Servable
  <1> QED
    BY <1>1, <1>3, <1>4 DEF Served

(* The log grows by a trace of what happens to the declarations.           *)
LogStep ==
    /\ IsTable(decl')
    /\ \E es : IsSequence(es) /\ log' = log \o es /\ Traces(decl, es, decl')

LEMMA LogUnchanged ==
    ASSUME IsSequence(log), IsTable(decl), decl' = decl, log' = log
    PROVE  LogStep
  <1>1. IsSequence(<<>>) /\ log = log \o <<>> /\ Traces(decl, <<>>, decl)
    BY EmptySequence, ConcatSequence, TracesNothing
  <1> QED
    BY <1>1 DEF LogStep

LEMMA LogAppend ==
    ASSUME IsSequence(log), IsTable(decl'), NEW e, log' = Append(log, e),
           \A s \in Slots : /\ e.slot = s /\ e.write => e.before = decl[s] /\ e.after = decl'[s]
                            /\ e.slot = s /\ ~e.write => e.after = decl[s]
                            /\ ~(e.slot = s /\ e.write) => decl[s] = decl'[s]
    PROVE  LogStep
  <1>1. Traces(decl, <<e>>, decl') /\ IsSequence(<<e>>)
    BY TracesOne
  <1>2. log' = log \o <<e>>
    BY AppendAsConcat
  <1> QED
    BY <1>1, <1>2 DEF LogStep

LEMMA PutLogs ==
    ASSUME IsSequence(log), IsTable(decl), NEW s, NEW ty, Put(s, ty)
    PROVE  LogStep
  <1>1. decl' = [decl EXCEPT ![s] = ty] /\ IsTable(decl')
    BY DEF Put, IsTable
  <1>2. CASE decl[s] = ty
    <2>1. decl' = decl /\ log' = log
      BY <1>1, <1>2 DEF Put, IsTable
    <2> QED
      BY <2>1, LogUnchanged
  <1>3. CASE decl[s] # ty
    <2>1. log' = Append(log, Event(s, decl[s], ty, TRUE))
      BY <1>3 DEF Put
    <2>2. \A t \in Slots : decl'[t] = IF t = s THEN ty ELSE decl[t]
      BY <1>1 DEF IsTable
    <2> DEFINE e == Event(s, decl[s], ty, TRUE)
    <2>3. e.slot = s /\ e.before = decl[s] /\ e.after = ty /\ e.write
      BY DEF Event
    <2> HIDE DEF e
    <2>4. log' = Append(log, e)
      BY <2>1 DEF e
    <2> QED
      BY <1>1, <2>2, <2>3, <2>4, LogAppend
  <1> QED
    BY <1>2, <1>3

LEMMA DeclareLogs ==
    ASSUME IsSequence(log), IsTable(decl), NEW s, NEW ty, set_variable_decl_type(s, ty)
    PROVE  LogStep
  <1> DEFINE r == Event(s, decl[s], decl[s], FALSE)
             w == Event(s, decl[s], ty, TRUE)
  <1>1. decl' = [decl EXCEPT ![s] = ty] /\ IsTable(decl')
    BY DEF set_variable_decl_type, IsTable
  <1>2. \A t \in Slots : decl'[t] = IF t = s THEN ty ELSE decl[t]
    BY <1>1 DEF IsTable
  <1>3. Traces(decl, <<r>>, decl) /\ IsSequence(<<r>>)
    <2>1. r.slot = s /\ r.after = decl[s] /\ ~r.write
      BY DEF Event
    <2> HIDE DEF r
    <2> QED
      BY <2>1, TracesOne
  <1>4. log' = (log \o <<r>>) \o (IF decl[s] = ty THEN <<>> ELSE <<w>>)
    <2>1. Append(log, r) = log \o <<r>>
      BY AppendAsConcat
    <2> QED
      BY <2>1 DEF set_variable_decl_type, Observe
  <1>5. IsSequence(log \o <<r>>) /\ (log \o <<r>>) \o <<>> = log \o <<r>>
    BY <1>3, ConcatSequence
  <1>6. CASE decl[s] = ty
    <2>1. decl' = decl
      BY <1>1, <1>6 DEF IsTable
    <2>2. log' = log \o <<r>>
      BY <1>4, <1>5, <1>6
    <2> QED
      BY <1>1, <1>3, <2>1, <2>2 DEF LogStep
  <1>7. CASE decl[s] # ty
    <2>1. Traces(decl, <<w>>, decl') /\ IsSequence(<<w>>)
      <3>1. w.slot = s /\ w.before = decl[s] /\ w.after = ty /\ w.write
        BY DEF Event
      <3> HIDE DEF w
      <3> QED
        BY <1>2, <3>1, TracesOne
    <2>2. Traces(decl, <<r>> \o <<w>>, decl') /\ IsSequence(<<r>> \o <<w>>)
      BY <1>3, <2>1, TracesConcat, ConcatSequence
    <2>3. log' = log \o (<<r>> \o <<w>>)
      <3>1. (log \o <<r>>) \o <<w>> = log \o (<<r>> \o <<w>>)
        BY <1>3, <2>1, ConcatIsAssociative
      <3> QED
        BY <1>4, <1>7, <3>1
    <2> QED
      BY <1>1, <2>2, <2>3 DEF LogStep
  <1> QED
    BY <1>6, <1>7

Changed(e) == {w \in e.writes : decl[w.slot] # w.after}
ReadAgain(e) == {Event(r[1], r[2], r[2], FALSE) : r \in e.reads}
WrittenAgain(e) == {Event(w.slot, decl[w.slot], w.after, TRUE) : w \in Changed(e)}

LEMMA AdoptedFinite ==
    ASSUME NEW e, EntryOK(e)
    PROVE  IsFiniteSet(ReadAgain(e)) /\ IsFiniteSet(WrittenAgain(e))
  <1>1. IsFiniteSet(ReadAgain(e))
    <2> DEFINE f == [r \in e.reads |-> Event(r[1], r[2], r[2], FALSE)]
    <2>1. f = [r \in e.reads |-> f[r]]
      OBVIOUS
    <2>2. ReadAgain(e) = Range(f)
      BY DEF ReadAgain, Range
    <2> HIDE DEF f
    <2> QED
      BY <2>1, <2>2, FiniteRange DEF EntryOK
  <1>2. IsFiniteSet(Changed(e))
    BY FS_Subset DEF EntryOK, Changed
  <1>3. IsFiniteSet(WrittenAgain(e))
    <2> DEFINE f == [w \in Changed(e) |-> Event(w.slot, decl[w.slot], w.after, TRUE)]
    <2>1. f = [w \in Changed(e) |-> f[w]]
      OBVIOUS
    <2>2. WrittenAgain(e) = Range(f)
      BY DEF WrittenAgain, Range
    <2> HIDE DEF f
    <2> QED
      BY <1>2, <2>1, <2>2, FiniteRange
  <1> QED
    BY <1>1, <1>3

LEMMA AdoptLogs ==
    ASSUME IsSequence(log), NEW e, EntryOK(e), dependencies_hold(e.reads),
           adopt_memoized_walk(e)
    PROVE  LogStep
  <1> DEFINE R == SetToSeq(ReadAgain(e))
             W == SetToSeq(WrittenAgain(e))
             After(s) == (CHOOSE w \in Changed(e) : w.slot = s).after
  <1>1. /\ decl' = [s \in Slots |-> IF \E w \in Changed(e) : w.slot = s THEN After(s) ELSE decl[s]]
        /\ log' = log \o R \o W
    BY DEF adopt_memoized_walk, Changed, ReadAgain, WrittenAgain
  <1>2. IsFiniteSet(ReadAgain(e)) /\ IsFiniteSet(WrittenAgain(e))
    BY AdoptedFinite
  <1>3. IsSequence(R) /\ IsSequence(W)
    BY <1>2, SetAsSequence
  <1>4. Traces(decl, R, decl)
    <2>1. ASSUME NEW v \in ReadAgain(e)
          PROVE  ~v.write /\ (v.slot \in Slots => v.after = decl[v.slot])
      <3>1. PICK r \in e.reads : v = Event(r[1], r[2], r[2], FALSE)
        BY DEF ReadAgain
      <3>2. decl[r[1]] = r[2]
        BY DEF dependencies_hold
      <3> QED
        BY <3>1, <3>2 DEF Event
    <2> QED
      BY <1>2, <2>1, TracesReads
  <1>5. Traces(decl, W, decl')
    <2>1. ASSUME NEW v \in WrittenAgain(e)
          PROVE  \E w \in Changed(e) : /\ v = Event(w.slot, decl[w.slot], w.after, TRUE)
                                       /\ v.slot = w.slot /\ v.before = decl[w.slot]
                                       /\ v.after = w.after /\ v.write
      BY DEF WrittenAgain, Event
    <2>2. \A v, w \in Changed(e) : v.slot = w.slot => v = w
      BY DEF Changed, EntryOK
    <2>3. \A w \in Changed(e) : After(w.slot) = w.after
      <3> SUFFICES ASSUME NEW w \in Changed(e) PROVE After(w.slot) = w.after
        OBVIOUS
      <3> DEFINE x == CHOOSE v \in Changed(e) : v.slot = w.slot
      <3>1. x \in Changed(e) /\ x.slot = w.slot
        OBVIOUS
      <3>2. x = w
        BY <2>2, <3>1
      <3> QED
        BY <3>2
    <2> HIDE DEF After
    <2>4. \A w \in Changed(e) : w.slot \in Slots => decl'[w.slot] = w.after
      BY <1>1, <2>3
    <2>5. ASSUME NEW s \in Slots, \A v \in WrittenAgain(e) : v.slot # s
          PROVE  decl[s] = decl'[s]
      <3>1. ASSUME NEW w \in Changed(e) PROVE w.slot # s
        <4>1. Event(w.slot, decl[w.slot], w.after, TRUE) \in WrittenAgain(e)
          BY Zenon DEF WrittenAgain
        <4>2. Event(w.slot, decl[w.slot], w.after, TRUE).slot # s
          BY <2>5, <4>1
        <4> QED
          BY <4>2 DEF Event
      <3> QED
        BY <1>1, <3>1
    <2>6. \A v \in WrittenAgain(e) : v.write
      BY <2>1
    <2>7. \A u, v \in WrittenAgain(e) : u.slot = v.slot => u = v
      <3> SUFFICES ASSUME NEW u \in WrittenAgain(e), NEW v \in WrittenAgain(e), u.slot = v.slot
                   PROVE  u = v
        OBVIOUS
      <3> DEFINE Again(w) == Event(w.slot, decl[w.slot], w.after, TRUE)
      <3>1. \A z \in WrittenAgain(e) : \E w \in Changed(e) : z = Again(w) /\ z.slot = w.slot
        BY <2>1
      <3> HIDE DEF Again
      <3>2. PICK x \in Changed(e) : u = Again(x) /\ u.slot = x.slot
        BY <3>1
      <3>3. PICK y \in Changed(e) : v = Again(y) /\ v.slot = y.slot
        BY <3>1
      <3>4. x = y
        BY <2>2, <3>2, <3>3
      <3> QED
        BY <3>2, <3>3, <3>4
    <2>8. \A v \in WrittenAgain(e) : v.slot \in Slots => /\ v.before = decl[v.slot]
                                                        /\ v.after = decl'[v.slot]
      BY <2>1, <2>4
    <2> QED
      BY <1>2, <2>5, <2>6, <2>7, <2>8, TracesWrites
  <1> HIDE DEF R, W
  <1>6. IsSequence(R \o W) /\ Traces(decl, R \o W, decl')
    BY <1>3, <1>4, <1>5, TracesConcat, ConcatSequence
  <1>7. log' = log \o (R \o W)
    <2>1. log' = (log \o R) \o W
      BY <1>1, Zenon
    <2>2. (log \o R) \o W = log \o (R \o W)
      BY <1>3, ConcatIsAssociative
    <2> QED
      BY <2>1, <2>2, Zenon
  <1>8. IsTable(decl')
    BY <1>1 DEF IsTable
  <1> QED
    BY <1>6, <1>7, <1>8 DEF LogStep

Undone(ev) == {Event(w.slot, w.after, w.before, TRUE) : w \in net_writes(ev)}

(* The undo leads back to where the mark was taken.                        *)
LEMMA UndoTraces ==
    ASSUME NEW ev, IsSequence(ev), NEW a, Traces(a, ev, decl)
    PROVE  IsSequence(Undo(ev)) /\ Traces(decl, Undo(ev), a)
  <1>1. Undo(ev) = SetToSeq(Undone(ev))
    BY DEF Undo, Undone
  <1>2. IsFiniteSet(Undone(ev))
    <2> DEFINE f == [w \in net_writes(ev) |-> Event(w.slot, w.after, w.before, TRUE)]
    <2>1. f = [w \in net_writes(ev) |-> f[w]]
      OBVIOUS
    <2>2. Undone(ev) = Range(f)
      BY DEF Undone, Range
    <2> HIDE DEF f
    <2> QED
      BY <2>1, <2>2, NetWritesFacts, FiniteRange
  <1>3. ASSUME NEW v \in Undone(ev)
        PROVE  \E w \in net_writes(ev) : /\ v = Event(w.slot, w.after, w.before, TRUE)
                                         /\ v.slot = w.slot /\ v.before = w.after
                                         /\ v.after = w.before /\ v.write
    BY DEF Undone, Event
  <1>4. \A v, w \in net_writes(ev) : v.slot = w.slot => v = w
    <2>1. \A w \in net_writes(ev) : w = MoveOf(ev, w.slot)
      BY NetWritesFacts
    <2> QED
      BY <2>1
  <1>5. \A v \in Undone(ev) : v.write
    BY <1>3
  <1>6. \A u, v \in Undone(ev) : u.slot = v.slot => u = v
    <2> SUFFICES ASSUME NEW u \in Undone(ev), NEW v \in Undone(ev), u.slot = v.slot
                 PROVE  u = v
      OBVIOUS
    <2> DEFINE Back(w) == Event(w.slot, w.after, w.before, TRUE)
    <2>1. \A z \in Undone(ev) : \E w \in net_writes(ev) : z = Back(w) /\ z.slot = w.slot
      BY <1>3
    <2> HIDE DEF Back
    <2>2. PICK x \in net_writes(ev) : u = Back(x) /\ u.slot = x.slot
      BY <2>1
    <2>3. PICK y \in net_writes(ev) : v = Back(y) /\ v.slot = y.slot
      BY <2>1
    <2>4. x = y
      BY <1>4, <2>2, <2>3
    <2> QED
      BY <2>2, <2>3, <2>4
  <1>7. ASSUME NEW v \in Undone(ev), v.slot \in Slots
        PROVE  v.before = decl[v.slot] /\ v.after = a[v.slot]
    <2>1. PICK w \in net_writes(ev) : v.slot = w.slot /\ v.before = w.after /\ v.after = w.before
      BY <1>3
    <2>2. w = Net(v.slot, a[v.slot], decl[v.slot])
      BY <1>7, <2>1, NetWritesTraced
    <2> QED
      BY <2>1, <2>2, NetFields
  <1>8. ASSUME NEW s \in Slots, \A v \in Undone(ev) : v.slot # s PROVE decl[s] = a[s]
    <2> SUFFICES ASSUME decl[s] # a[s] PROVE FALSE
      OBVIOUS
    <2> DEFINE w == Net(s, a[s], decl[s])
    <2>1. w \in net_writes(ev)
      BY NetWritesTraced
    <2>2. Event(w.slot, w.after, w.before, TRUE) \in Undone(ev)
      BY <2>1, Zenon DEF Undone
    <2>3. Event(w.slot, w.after, w.before, TRUE).slot = w.slot /\ w.slot = s
      BY NetFields DEF Event
    <2> QED
      BY <1>8, <2>2, <2>3
  <1>9. Traces(decl, SetToSeq(Undone(ev)), a)
    BY <1>2, <1>5, <1>6, <1>7, <1>8, TracesWrites
  <1> QED
    BY <1>1, <1>2, <1>9, SetAsSequence

-----------------------------------------------------------------------------
(* The inductive invariant.                                                *)

(* The stack is in order and every frame that captures has its batch.      *)
Aligned(st, l, d, ef) ==
    /\ StackOK(st, l, d)
    /\ IsSequence(ef)
    /\ Len(ef) = 1 + Opened(st)

(* A call that moves on, or walks an argument again, is the innermost.     *)
NowOK(nw, st) ==
    /\ nw.op \in {"resume", "source"} => st # <<>> /\ st[Len(st)].frame = "call"
    /\ nw.op = "source" => nw.retain \in BOOLEAN

Inv ==
    /\ IsSequence(log) /\ IsTable(decl)
    /\ Aligned(stack, log, decl, effects)
    /\ MemoOK(rawMemo) /\ MemoOK(sourceMemo)
    /\ NowOK(now, stack)

LEMMA AlignEmit ==
    ASSUME NEW st, NEW l, NEW d, NEW ef, Aligned(st, l, d, ef), NEW k, NEW x
    PROVE  Aligned(st, l, d, [ef EXCEPT ![k] = x])
  BY ExceptSequence DEF Aligned

LEMMA AlignLog ==
    ASSUME NEW st, NEW ef, IsSequence(log), Aligned(st, log, decl, ef), LogStep
    PROVE  Aligned(st, log', decl', ef) /\ IsSequence(log') /\ IsTable(decl')
  <1>1. PICK es : IsSequence(es) /\ log' = log \o es /\ Traces(decl, es, decl')
    BY DEF LogStep
  <1>2. IsSequence(log')
    BY <1>1, ConcatSequence
  <1>3. StackOK(st, log', decl')
    BY <1>1, StackKept DEF Aligned
  <1> QED
    BY <1>2, <1>3 DEF Aligned, LogStep

LEMMA AlignPush ==
    ASSUME NEW st, NEW l, NEW d, NEW ef, Aligned(st, l, d, ef), NEW f, FrameOK(f, l, d),
           Nested(f) => st # <<>> /\ st[Len(st)].frame = "call"
    PROVE  /\ Append(st, f) # <<>> /\ Append(st, f)[Len(Append(st, f))] = f
           /\ ~Captures(f) => Aligned(Append(st, f), l, d, ef)
           /\ Captures(f) => \A x : Aligned(Append(st, f), l, d, Append(ef, x))
  <1>1. StackOK(st, l, d) /\ IsSequence(st) /\ IsSequence(ef) /\ Len(ef) = 1 + Opened(st)
    BY DEF Aligned, StackOK
  <1>2. StackOK(Append(st, f), l, d)
    BY <1>1, StackPush
  <1>3. Append(st, f) # <<>> /\ Append(st, f)[Len(Append(st, f))] = f
    BY <1>1, AppendSequence
  <1>4. /\ Opened(Append(st, f)) = (IF Captures(f) THEN Opened(st) + 1 ELSE Opened(st))
        /\ Opened(st) \in Nat
    BY <1>1, OpenedPush, CapturingFinite
  <1>5. ASSUME Captures(f), NEW x PROVE Aligned(Append(st, f), l, d, Append(ef, x))
    <2>1. IsSequence(Append(ef, x)) /\ Len(Append(ef, x)) = Len(ef) + 1
      BY <1>1, AppendSequence
    <2>2. Opened(Append(st, f)) = Opened(st) + 1
      BY <1>4, <1>5
    <2>3. Len(Append(ef, x)) = 1 + Opened(Append(st, f))
      BY <1>1, <1>4, <2>1, <2>2
    <2> QED
      BY <1>2, <2>1, <2>3 DEF Aligned
  <1>6. ASSUME ~Captures(f) PROVE Aligned(Append(st, f), l, d, ef)
    BY <1>1, <1>2, <1>4, <1>6 DEF Aligned
  <1> QED
    BY <1>3, <1>5, <1>6

LEMMA AlignPop ==
    ASSUME NEW st, NEW l, NEW d, NEW ef, Aligned(st, l, d, ef), st # <<>>
    PROVE  /\ FrameOK(st[Len(st)], l, d)
           /\ ~Captures(st[Len(st)]) => Aligned(Front(st), l, d, ef)
           /\ Captures(st[Len(st)]) => Aligned(Front(st), l, d, Front(ef))
  <1> DEFINE f == st[Len(st)]
  <1>1. StackOK(st, l, d) /\ IsSequence(st) /\ IsSequence(ef) /\ Len(ef) = 1 + Opened(st)
    BY DEF Aligned, StackOK
  <1>2. StackOK(Front(st), l, d) /\ FrameOK(f, l, d)
    BY <1>1, StackPop
  <1>3. /\ Opened(Front(st)) = (IF Captures(f) THEN Opened(st) - 1 ELSE Opened(st))
        /\ Opened(st) \in Nat
    BY <1>1, OpenedPop, CapturingFinite
  <1>4. Opened(Front(st)) \in Nat
    BY <1>2, CapturingFinite DEF StackOK
  <1> HIDE DEF f
  <1>5. ASSUME Captures(f) PROVE Aligned(Front(st), l, d, Front(ef))
    <2>1. Opened(Front(st)) = Opened(st) - 1
      BY <1>3, <1>5
    <2>2. ef # <<>>
      BY <1>1, <1>3, SequenceFacts
    <2>3. IsSequence(Front(ef)) /\ Len(Front(ef)) = Len(ef) - 1
      BY <1>1, <2>2, FrontSequence
    <2>4. Len(Front(ef)) = 1 + Opened(Front(st))
      BY <1>1, <1>3, <2>1, <2>3
    <2> QED
      BY <1>2, <2>3, <2>4 DEF Aligned
  <1>6. ASSUME ~Captures(f) PROVE Aligned(Front(st), l, d, ef)
    BY <1>1, <1>2, <1>3, <1>6 DEF Aligned
  <1> QED
    BY <1>2, <1>5, <1>6 DEF f

(* A call's frame is replaced by its next state.                           *)
LEMMA AlignMove ==
    ASSUME NEW st, NEW l, NEW d, NEW ef, Aligned(st, l, d, ef), st # <<>>,
           st[Len(st)].frame = "call", NEW f, CallFrame(f)
    PROVE  /\ Aligned(Append(Front(st), f), l, d, ef)
           /\ Append(Front(st), f) # <<>>
           /\ Append(Front(st), f)[Len(Append(Front(st), f))].frame = "call"
  <1>1. Aligned(Front(st), l, d, ef)
    BY AlignPop DEF Captures
  <1>2. f.frame = "call" /\ FrameOK(f, l, d) /\ ~Nested(f) /\ ~Captures(f)
    BY DEF CallFrame, FrameOK, Nested, Captures
  <1>3. /\ Append(Front(st), f) # <<>>
        /\ Append(Front(st), f)[Len(Append(Front(st), f))] = f
        /\ Aligned(Append(Front(st), f), l, d, ef)
    BY <1>1, <1>2, AlignPush
  <1> QED
    BY <1>2, <1>3

(* An argument's walk returns to the call below it.                        *)
LEMMA AlignReturn ==
    ASSUME NEW st, NEW l, NEW d, NEW ef, Aligned(st, l, d, ef), st # <<>>,
           Nested(st[Len(st)]), NEW f, CallFrame(f)
    PROVE  LET low == Append(Front(Front(st)), f)
           IN /\ ~Captures(st[Len(st)]) => Aligned(low, l, d, ef)
              /\ Captures(st[Len(st)]) => Aligned(low, l, d, Front(ef))
              /\ low # <<>> /\ low[Len(low)].frame = "call"
  <1>1. Front(st) # <<>> /\ Last(Front(st)).frame = "call"
    BY StackPop DEF Aligned
  <1>2. Front(st)[Len(Front(st))].frame = "call"
    BY <1>1 DEF Last
  <1>3. CASE Captures(st[Len(st)])
    <2>1. Aligned(Front(st), l, d, Front(ef))
      BY <1>3, AlignPop
    <2> QED
      BY <1>1, <1>2, <1>3, <2>1, AlignMove
  <1>4. CASE ~Captures(st[Len(st)])
    <2>1. Aligned(Front(st), l, d, ef)
      BY <1>4, AlignPop
    <2> QED
      BY <1>1, <1>2, <1>4, <2>1, AlignMove
  <1> QED
    BY <1>3, <1>4

(* A step that leaves the declarations, the log and the memos alone.       *)
LEMMA QuietStep ==
    ASSUME Inv, decl' = decl, log' = log, rawMemo' = rawMemo, sourceMemo' = sourceMemo,
           Aligned(stack', log, decl, effects'), NowOK(now', stack')
    PROVE  Inv'
  BY DEF Inv

LEMMA LogsStep ==
    ASSUME Inv, LogStep, MemoOK(rawMemo'), MemoOK(sourceMemo'),
           Aligned(stack', log', decl', effects'), NowOK(now', stack')
    PROVE  Inv'
  BY AlignLog DEF Inv

-----------------------------------------------------------------------------
(* The frames of calls and of walks that begin.                            *)

LEMMA NowFree ==
    ASSUME NEW st
    PROVE  /\ \A ty, seen : NowOK(Value(ty, seen), st)
           /\ \A e, c : NowOK(Walk(e, c), st)
           /\ \A e, p, r : NowOK(Body(e, p, r), st)
           /\ st # <<>> /\ st[Len(st)].frame = "call"
                => /\ NowOK(Resume, st)
                   /\ \A e, c, raw : \A b \in BOOLEAN : NowOK(Source(e, c, raw, b), st)
  BY DEF NowOK, Value, Walk, Body, Resume, Source

LEMMA CallOpened ==
    ASSUME NEW e
    PROVE  CallFrame([frame |-> "call", expr |-> e, phase |-> "raw", i |-> 1,
                      tys |-> <<>>, held |-> <<>>, sig |-> 1, commit |-> FALSE,
                      inferred |-> <<>>, params |-> <<>>, ret |-> Error])
  BY EmptySequence DEF CallFrame, CallFields

LEMMA CallKept ==
    ASSUME NEW f, CallFrame(f)
    PROVE  /\ \A k, c : CallFrame(Build(f, k, c))
           /\ \A x, i : CallFrame([f EXCEPT !.inferred = x, !.i = i])
           /\ \A p, x, r, i : CallFrame([f EXCEPT !.phase = p, !.params = x, !.ret = r, !.i = i])
           /\ \A p, r : CallFrame([f EXCEPT !.phase = p, !.ret = r])
           /\ \A p : CallFrame([f EXCEPT !.phase = p])
           /\ \A i : CallFrame([f EXCEPT !.i = i])
  <1>1. ASSUME NEW k, NEW c PROVE CallFrame(Build(f, k, c))
    BY DEF CallFrame, CallFields, Build
  <1>2. ASSUME NEW x, NEW i PROVE CallFrame([f EXCEPT !.inferred = x, !.i = i])
    BY DEF CallFrame, CallFields
  <1>3. ASSUME NEW p, NEW x, NEW r, NEW i
        PROVE  CallFrame([f EXCEPT !.phase = p, !.params = x, !.ret = r, !.i = i])
    BY DEF CallFrame, CallFields
  <1>4. ASSUME NEW p, NEW r PROVE CallFrame([f EXCEPT !.phase = p, !.ret = r])
    BY DEF CallFrame, CallFields
  <1>5. ASSUME NEW p PROVE CallFrame([f EXCEPT !.phase = p])
    BY DEF CallFrame, CallFields
  <1>6. ASSUME NEW i PROVE CallFrame([f EXCEPT !.i = i])
    BY DEF CallFrame, CallFields
  <1> QED
    BY <1>1, <1>2, <1>3, <1>4, <1>5, <1>6

LEMMA CallHeld ==
    ASSUME NEW f, CallFrame(f), NEW h, IsSequence(h), Len(h) = Len(f.held)
    PROVE  /\ CallFrame([f EXCEPT !.held = h])
           /\ \A i : CallFrame([f EXCEPT !.held = h, !.i = i])
  BY DEF CallFrame, CallFields

LEMMA CallArgument ==
    ASSUME NEW f, CallFrame(f), NEW ty, NEW walk
    PROVE  CallFrame(WithArgument(f, ty, walk))
  <1>1. IsSequence(f.tys) /\ IsSequence(f.held) /\ Len(f.tys) = Len(f.held)
    BY DEF CallFrame
  <1>2. /\ IsSequence(Append(f.tys, ty)) /\ IsSequence(Append(f.held, walk))
        /\ Len(Append(f.tys, ty)) = Len(Append(f.held, walk))
    BY <1>1, AppendSequence
  <1> DEFINE g == WithArgument(f, ty, walk)
  <1>3. /\ g = [x \in CallFields |-> g[x]] /\ g.frame = "call"
        /\ g.tys = Append(f.tys, ty) /\ g.held = Append(f.held, walk)
    BY DEF CallFrame, CallFields, WithArgument
  <1> HIDE DEF g
  <1> QED
    BY <1>2, <1>3 DEF CallFrame, g

LEMMA CallSuperseded ==
    ASSUME NEW f, CallFrame(f), NEW k, NEW seen, NEW i
    PROVE  CallFrame([f EXCEPT !.held = Superseded(@, k, seen), !.i = i])
  <1>1. IsSequence(f.held)
    BY DEF CallFrame
  <1>2. IsSequence(Superseded(f.held, k, seen)) /\ Len(Superseded(f.held, k, seen)) = Len(f.held)
    BY <1>1, ExceptSequence DEF Superseded
  <1>3. CallFrame([f EXCEPT !.held = Superseded(f.held, k, seen), !.i = i])
    BY <1>2, CallHeld
  <1> QED
    BY <1>3

LEMMA CallSettled ==
    ASSUME NEW f, CallFrame(f), NEW k, NEW walk
    PROVE  CallFrame([f EXCEPT !.held[k] = walk])
  <1>1. IsSequence(f.held)
    BY DEF CallFrame
  <1>2. /\ IsSequence([f.held EXCEPT ![k] = walk])
        /\ Len([f.held EXCEPT ![k] = walk]) = Len(f.held)
    BY <1>1, ExceptSequence
  <1>3. CallFrame([f EXCEPT !.held = [f.held EXCEPT ![k] = walk]])
    BY <1>2, CallHeld
  <1> QED
    BY <1>3

(* A walk that begins has observed nothing.                                *)
LEMMA MarkTaken ==
    ASSUME NEW f, IsSequence(log), f.mark = Len(log)
    PROVE  MarkedFrame(f, log, decl, decl)
  <1>1. Len(log) \in Nat
    BY SequenceFacts
  <1>2. Len(log) \in 0..Len(log)
    BY <1>1
  <1>3. /\ IsSequence(SubSeq(log, Len(log) + 1, Len(log)))
        /\ Len(SubSeq(log, Len(log) + 1, Len(log))) = Len(log) - Len(log)
    BY <1>2, SuffixSequence
  <1>4. Len(SubSeq(log, Len(log) + 1, Len(log))) = 0
    BY <1>1, <1>3
  <1>5. SubSeq(log, Len(log) + 1, Len(log)) = <<>>
    BY <1>3, <1>4, SequenceFacts
  <1> QED
    BY <1>2, <1>5, TracesNothing DEF MarkedFrame

(* The innermost frame, and what it says when it is a call's.              *)
LEMMA InnermostFrame ==
    ASSUME Inv, stack # <<>>
    PROVE  /\ FrameOK(Top, log, decl)
           /\ Top.frame = "call" => CallFrame(Top)
           /\ Nested(Top) => CallFrame(Last(Below))
  <1>1. StackOK(stack, log, decl)
    BY DEF Inv, Aligned
  <1> QED
    BY <1>1, StackPop DEF Top, Below, FrameOK

LEMMA ResumedCall ==
    ASSUME Inv, now.op \in {"resume", "source"}
    PROVE  stack # <<>> /\ Top.frame = "call" /\ CallFrame(Top)
  <1>1. stack # <<>> /\ Top.frame = "call"
    BY DEF Inv, NowOK, Top
  <1> QED
    BY <1>1, InnermostFrame

(* Records are emitted into the innermost batch, or none are.              *)
Emits == effects' = effects \/ \E x : effects' = [effects EXCEPT ![Len(effects)] = x]

LEMMA EmittedRecord ==
    ASSUME NEW id, effects' = Emitted(id)
    PROVE  Emits
  BY DEF Emits, Emitted

LEMMA AlignEmits ==
    ASSUME NEW st, NEW l, NEW d, Aligned(st, l, d, effects), Emits
    PROVE  Aligned(st, l, d, effects')
  <1>1. CASE effects' = effects
    BY <1>1
  <1>2. ASSUME NEW x, effects' = [effects EXCEPT ![Len(effects)] = x]
        PROVE  Aligned(st, l, d, effects')
    BY <1>2, AlignEmit
  <1> QED
    BY <1>1, <1>2 DEF Emits

(* A call moves on.                                                        *)
LEMMA CallMoves ==
    ASSUME Inv, stack # <<>>, Top.frame = "call", NEW f, CallFrame(f), Moved(f), Emits,
           UNCHANGED <<declVars, memoVars>>
    PROVE  Inv'
  <1>1. Aligned(stack, log, decl, effects) /\ stack[Len(stack)].frame = "call"
    BY DEF Inv, Top
  <1>2. stack' = Append(Front(stack), f) /\ now' = Resume
    BY DEF Moved, Below
  <1>3. /\ Aligned(stack', log, decl, effects)
        /\ stack' # <<>> /\ stack'[Len(stack')].frame = "call"
    BY <1>1, <1>2, AlignMove
  <1>4. Aligned(stack', log, decl, effects')
    BY <1>3, AlignEmits
  <1>5. NowOK(now', stack')
    BY <1>2, <1>3, NowFree
  <1>6. decl' = decl /\ log' = log /\ rawMemo' = rawMemo /\ sourceMemo' = sourceMemo
    BY DEF declVars, memoVars
  <1> QED
    BY <1>4, <1>5, <1>6, QuietStep

(* Only what is done next changes, and what was emitted.                   *)
LEMMA StackStays ==
    ASSUME Inv, UNCHANGED <<stack, declVars, memoVars>>, Emits, NowOK(now', stack)
    PROVE  Inv'
  <1>1. Aligned(stack, log, decl, effects')
    BY AlignEmits DEF Inv
  <1> QED
    BY <1>1, QuietStep DEF declVars, memoVars

(* A frame that captures nothing is suspended, or taken off.               *)
LEMMA FramePushed ==
    ASSUME Inv, NEW f, stack' = Pushed(f), FrameOK(f, log, decl), ~Nested(f), ~Captures(f),
           UNCHANGED <<declVars, effects, memoVars>>, NowOK(now', stack')
    PROVE  Inv'
  <1>1. Aligned(stack', log, decl, effects)
    BY AlignPush DEF Inv, Pushed
  <1> QED
    BY <1>1, QuietStep DEF declVars, memoVars

LEMMA FramePopped ==
    ASSUME Inv, stack # <<>>, stack' = Below, ~Captures(Top), Emits,
           UNCHANGED <<declVars, memoVars>>, NowOK(now', stack')
    PROVE  Inv'
  <1>1. Aligned(stack', log, decl, effects)
    BY AlignPop DEF Inv, Top, Below
  <1>2. Aligned(stack', log, decl, effects')
    BY <1>1, AlignEmits
  <1> QED
    BY <1>2, QuietStep DEF declVars, memoVars

-----------------------------------------------------------------------------
(* Every step preserves the invariant.                                     *)

LEMMA InitInv == Init => Inv
  <1> SUFFICES ASSUME Init PROVE Inv
    OBVIOUS
  <1>1. IsSequence(<<>>) /\ Len(<<>>) = 0 /\ DOMAIN <<>> = {}
    BY EmptySequence
  <1>2. IsSequence(log) /\ MemoOK(rawMemo) /\ MemoOK(sourceMemo)
    BY <1>1 DEF Init, MemoOK
  <1>3. IsTable(decl)
    BY DEF Init, IsTable
  <1>4. StackOK(stack, log, decl)
    BY <1>1 DEF Init, StackOK
  <1>5. Opened(stack) = 0
    BY <1>1, FS_EmptySet DEF Init, Opened, Capturing
  <1>6. IsSequence(effects) /\ Len(effects) = 1
    <2>1. << <<>> >> = Append(<<>>, <<>>)
      OBVIOUS
    <2>2. IsSequence(Append(<<>>, <<>>)) /\ Len(Append(<<>>, <<>>)) = 0 + 1
      BY <1>1, AppendSequence
    <2> QED
      BY <2>1, <2>2 DEF Init
  <1>7. NowOK(now, stack)
    BY NowFree DEF Init
  <1> QED
    BY <1>2, <1>3, <1>4, <1>5, <1>6, <1>7 DEF Inv, Aligned

LEMMA InferLeafInv == Inv /\ InferLeaf => Inv'
  <1> SUFFICES ASSUME Inv, InferLeaf PROVE Inv'
    OBVIOUS
  <1>1. Emits
    BY EmittedRecord DEF InferLeaf, Emits
  <1>2. NowOK(now', stack)
    BY NowFree DEF InferLeaf
  <1> QED
    BY <1>1, <1>2, StackStays DEF InferLeaf

LEMMA InferReferenceInv == Inv /\ InferReference => Inv'
  <1> SUFFICES ASSUME Inv, InferReference PROVE Inv'
    OBVIOUS
  <1> DEFINE e == Observe(now.expr.slot)
  <1>1. decl' = decl /\ (log' = log \/ log' = Append(log, e)) /\ stack' = stack
    BY DEF InferReference
  <1>2. /\ e.slot = now.expr.slot /\ ~e.write
        /\ \A s \in Slots : e.slot = s => e.after = decl[s]
    BY DEF Observe, Event
  <1> HIDE DEF e
  <1>3. IsSequence(log) /\ IsTable(decl) /\ IsTable(decl')
    BY <1>1 DEF Inv, IsTable
  <1>4. LogStep
    BY <1>1, <1>2, <1>3, LogUnchanged, LogAppend
  <1>5. Emits
    BY EmittedRecord DEF InferReference, Emits
  <1>6. Aligned(stack, log', decl', effects)
    BY <1>3, <1>4, AlignLog DEF Inv
  <1>7. Aligned(stack', log', decl', effects')
    BY <1>1, <1>5, <1>6, AlignEmits
  <1>8. NowOK(now', stack')
    BY NowFree DEF InferReference
  <1>9. MemoOK(rawMemo') /\ MemoOK(sourceMemo')
    BY DEF InferReference, memoVars, Inv
  <1> QED
    BY <1>4, <1>7, <1>8, <1>9, LogsStep

LEMMA InferDeclarationInv == Inv /\ InferDeclaration => Inv'
  <1> SUFFICES ASSUME Inv, InferDeclaration PROVE Inv'
    OBVIOUS
  <1> DEFINE f == [frame |-> "let", expr |-> now.expr]
  <1>1. FrameOK(f, log, decl) /\ ~Nested(f) /\ ~Captures(f)
    BY DEF FrameOK, Nested, Captures
  <1>2. stack' = Pushed(f) /\ NowOK(now', stack')
    BY NowFree DEF InferDeclaration
  <1> HIDE DEF f
  <1> QED
    BY <1>1, <1>2, FramePushed DEF InferDeclaration

LEMMA DeclareInv == Inv /\ Declare => Inv'
  <1> SUFFICES ASSUME Inv, Declare PROVE Inv'
    OBVIOUS
  <1>1. stack # <<>> /\ Top.frame = "let" /\ ~Captures(Top)
    BY DEF Declare, Returning, Captures
  <1>2. IsSequence(log) /\ IsTable(decl)
    BY DEF Inv
  <1>3. LogStep
    <2>1. UNCHANGED declVars \/ set_variable_decl_type(Top.expr.slot, now.ty)
      BY DEF Declare
    <2>2. CASE UNCHANGED declVars
      BY <1>2, <2>2, LogUnchanged DEF declVars
    <2> QED
      BY <1>2, <2>1, <2>2, DeclareLogs
  <1>4. Aligned(Front(stack), log, decl, effects)
    BY <1>1, AlignPop DEF Inv, Top
  <1>5. Aligned(stack', log', decl', effects')
    BY <1>2, <1>3, <1>4, AlignLog DEF Declare, Below
  <1>6. NowOK(now', stack')
    BY NowFree DEF Declare
  <1>7. MemoOK(rawMemo') /\ MemoOK(sourceMemo')
    BY DEF Declare, memoVars, Inv
  <1> QED
    BY <1>3, <1>5, <1>6, <1>7, LogsStep

LEMMA InferArrowInv == Inv /\ InferArrow => Inv'
  BY NowFree, StackStays DEF InferArrow, Emits

LEMMA EnterBodyInv == Inv /\ EnterBody => Inv'
  <1> SUFFICES ASSUME Inv, EnterBody PROVE Inv'
    OBVIOUS
  <1> DEFINE f == [frame |-> "arrow", expr |-> now.expr, next |-> 1,
                   param |-> now.param, ret |-> now.ret]
  <1>1. LogStep
    BY PutLogs DEF EnterBody, Inv
  <1>2. Aligned(stack, log', decl', effects)
    BY <1>1, AlignLog DEF Inv
  <1>3. FrameOK(f, log', decl') /\ ~Nested(f) /\ ~Captures(f)
    BY DEF FrameOK, Nested, Captures
  <1>4. stack' = Append(stack, f) /\ effects' = effects
    BY DEF EnterBody, Pushed
  <1> HIDE DEF f
  <1>5. Aligned(stack', log', decl', effects')
    BY <1>2, <1>3, <1>4, AlignPush
  <1>6. NowOK(now', stack')
    BY NowFree DEF EnterBody
  <1>7. MemoOK(rawMemo') /\ MemoOK(sourceMemo')
    BY DEF EnterBody, memoVars, Inv
  <1> QED
    BY <1>1, <1>5, <1>6, <1>7, LogsStep

LEMMA WalkBodyInv == Inv /\ WalkBody => Inv'
  <1> SUFFICES ASSUME Inv, WalkBody PROVE Inv'
    OBVIOUS
  <1> DEFINE f == [Top EXCEPT !.next = @ + 1]
  <1>1. stack # <<>> /\ Top.frame = "arrow" /\ ~Captures(Top)
    BY DEF WalkBody, Returning, Captures
  <1>2. "frame" \in DOMAIN Top
    BY <1>1, InnermostFrame DEF FrameOK
  <1>3. f.frame = "arrow" /\ DOMAIN f = DOMAIN Top
    BY <1>1, <1>2
  <1>4. FrameOK(f, log, decl) /\ ~Nested(f) /\ ~Captures(f)
    BY <1>2, <1>3 DEF FrameOK, Nested, Captures
  <1>5. stack' = Append(Front(stack), f) /\ effects' = effects
    BY DEF WalkBody, Below
  <1> HIDE DEF f
  <1>6. Aligned(Front(stack), log, decl, effects)
    BY <1>1, AlignPop DEF Inv, Top
  <1>7. Aligned(stack', log, decl, effects')
    BY <1>4, <1>5, <1>6, AlignPush
  <1>8. NowOK(now', stack')
    BY NowFree DEF WalkBody
  <1> QED
    BY <1>7, <1>8, QuietStep DEF WalkBody, declVars, memoVars

LEMMA LeaveBodyInv == Inv /\ LeaveBody => Inv'
  <1> SUFFICES ASSUME Inv, LeaveBody PROVE Inv'
    OBVIOUS
  <1>1. stack # <<>> /\ ~Captures(Top)
    BY DEF LeaveBody, Returning, Captures
  <1>2. Emits
    BY EmittedRecord DEF LeaveBody, Emits
  <1>3. NowOK(now', stack')
    BY NowFree DEF LeaveBody
  <1> QED
    BY <1>1, <1>2, <1>3, FramePopped DEF LeaveBody

LEMMA InferListInv == Inv /\ InferList => Inv'
  <1> SUFFICES ASSUME Inv, InferList PROVE Inv'
    OBVIOUS
  <1>1. /\ \/ stack' = stack
           \/ \E make : stack' = Pushed([frame |-> "list", make |-> make])
        /\ NowOK(now', stack')
        /\ UNCHANGED <<declVars, effects, memoVars>>
    BY NowFree DEF InferList
  <1>2. CASE stack' = stack
    BY <1>1, <1>2, StackStays DEF Emits
  <1>3. ASSUME NEW make, stack' = Pushed([frame |-> "list", make |-> make]) PROVE Inv'
    <2> DEFINE f == [frame |-> "list", make |-> make]
    <2>1. FrameOK(f, log, decl) /\ ~Nested(f) /\ ~Captures(f) /\ stack' = Pushed(f)
      BY <1>3 DEF FrameOK, Nested, Captures
    <2> HIDE DEF f
    <2> QED
      BY <1>1, <2>1, FramePushed
  <1> QED
    BY <1>1, <1>2, <1>3

LEMMA ListDoneInv == Inv /\ ListDone => Inv'
  <1> SUFFICES ASSUME Inv, ListDone PROVE Inv'
    OBVIOUS
  <1>1. stack # <<>> /\ ~Captures(Top)
    BY DEF ListDone, Returning, Captures
  <1>2. Emits /\ NowOK(now', stack')
    BY NowFree DEF ListDone, Emits
  <1> QED
    BY <1>1, <1>2, FramePopped DEF ListDone

LEMMA InferEitherInv == Inv /\ InferEither => Inv'
  BY NowFree, StackStays DEF InferEither, Emits

LEMMA ServeSourceInv == Inv /\ ServeSource => Inv'
  <1> SUFFICES ASSUME Inv, ServeSource PROVE Inv'
    OBVIOUS
  <1> DEFINE entry == Served(sourceMemo, SourceKey)
  <1>1. adopt_memoized_walk(entry) /\ Servable(sourceMemo, SourceKey) # {}
    BY DEF ServeSource, SourceServed
  <1>2. EntryOK(entry) /\ dependencies_hold(entry.reads)
    BY <1>1, ServedEntry DEF Inv
  <1> HIDE DEF entry
  <1>3. LogStep
    BY <1>1, <1>2, AdoptLogs DEF Inv
  <1>4. Aligned(stack', log', decl', effects')
    BY <1>3, AlignLog DEF ServeSource, Inv
  <1>5. NowOK(now', stack')
    BY NowFree DEF ServeSource
  <1>6. MemoOK(rawMemo') /\ MemoOK(sourceMemo')
    BY DEF ServeSource, memoVars, Inv
  <1> QED
    BY <1>3, <1>4, <1>5, <1>6, LogsStep

LEMMA DeclineSourceInv == Inv /\ DeclineSource => Inv'
  <1> SUFFICES ASSUME Inv, DeclineSource PROVE Inv'
    OBVIOUS
  <1>1. decl' = decl /\ log' = log /\ stack' = stack /\ effects' = effects /\ rawMemo' = rawMemo
    BY DEF DeclineSource, declVars
  <1>2. LogStep
    BY <1>1, LogUnchanged DEF Inv
  <1>3. Aligned(stack', log', decl', effects') /\ MemoOK(rawMemo')
    BY <1>1 DEF Inv
  <1>4. MemoOK(sourceMemo')
    <2> DEFINE e == Entry(SourceKey, <<>>, now.raw, FALSE)
    <2>1. sourceMemo' = sourceMemo \/ sourceMemo' = Memoize(sourceMemo, e)
      BY DEF DeclineSource
    <2>2. EntryOK(e)
      BY EntryMade, EmptySequence
    <2> HIDE DEF e
    <2> QED
      BY <2>1, <2>2, MemoizeKept DEF Inv
  <1>5. NowOK(now', stack')
    BY NowFree DEF DeclineSource
  <1> QED
    BY <1>2, <1>3, <1>4, <1>5, LogsStep

LEMMA RewalkSourceInv == Inv /\ RewalkSource => Inv'
  <1> SUFFICES ASSUME Inv, RewalkSource PROVE Inv'
    OBVIOUS
  <1> DEFINE f == [frame |-> "source", expr |-> now.expr, key |-> SourceKey,
                   retain |-> now.retain, mark |-> Len(log), saved |-> decl]
  <1>1. stack # <<>> /\ stack[Len(stack)].frame = "call" /\ now.retain \in BOOLEAN
    BY ResumedCall DEF RewalkSource, Inv, NowOK, Top
  <1>2. f.frame = "source" /\ f.retain = now.retain /\ f.mark = Len(log) /\ f.saved = decl
    OBVIOUS
  <1>3. stack' = Append(stack, f)
    BY DEF RewalkSource, Pushed
  <1> HIDE DEF f
  <1>4. MarkedFrame(f, log, f.saved, decl)
    BY <1>2, MarkTaken DEF Inv
  <1>5. FrameOK(f, log, decl) /\ (Captures(f) <=> ~now.retain)
    BY <1>1, <1>2, <1>4 DEF FrameOK, Captures, Inv
  <1>6. Aligned(stack, log, decl, effects)
    BY DEF Inv
  <1>7. /\ ~Captures(f) => Aligned(Append(stack, f), log, decl, effects)
        /\ Captures(f) => Aligned(Append(stack, f), log, decl, Append(effects, <<>>))
    BY <1>1, <1>5, <1>6, AlignPush
  <1>8. effects' = IF now.retain THEN effects ELSE Append(effects, <<>>)
    BY DEF RewalkSource
  <1>9. Aligned(stack', log, decl, effects')
    BY <1>3, <1>5, <1>7, <1>8
  <1>10. NowOK(now', stack')
    BY NowFree DEF RewalkSource
  <1> QED
    BY <1>9, <1>10, QuietStep DEF RewalkSource, declVars, memoVars

LEMMA SourceRetainedInv == Inv /\ SourceRetained => Inv'
  <1> SUFFICES ASSUME Inv, SourceRetained PROVE Inv'
    OBVIOUS
  <1>1. stack # <<>> /\ ~Captures(Top)
    BY DEF SourceRetained, Returning, Captures
  <1>2. Emits /\ NowOK(now', stack')
    BY NowFree DEF SourceRetained, Emits
  <1> QED
    BY <1>1, <1>2, FramePopped DEF SourceRetained

(* What a discarded walk leaves: the declarations it found, if an arrow's, *)
(* and events that lead to them.                                           *)
LEMMA DiscardedTraces ==
    ASSUME Inv, SourceDiscarded
    PROVE  LET events == SubSeq(log', Top.mark + 1, Len(log'))
           IN /\ LogStep
              /\ IsSequence(events) /\ Traces(Top.saved, events, decl')
              /\ Top.expr.kind = "arrow" => decl' = Top.saved
              /\ sourceMemo' = sourceMemo
                 \/ sourceMemo' = Memoize(sourceMemo, Entry(Top.key, events, now.ty, TRUE))
  <1> DEFINE undone == Top.expr.kind = "arrow"
             undo == IF undone THEN Undo(Since(Top.mark)) ELSE <<>>
             events == SubSeq(log', Top.mark + 1, Len(log'))
  <1>1. /\ stack # <<>> /\ Top.frame = "source"
        /\ decl' = (IF undone THEN Top.saved ELSE decl)
        /\ log' = log \o undo
        /\ sourceMemo' = sourceMemo
             \/ sourceMemo' = Memoize(sourceMemo, Entry(Top.key, events, now.ty, TRUE))
    BY DEF SourceDiscarded, Returning
  <1>2. IsSequence(log) /\ IsTable(decl)
    BY DEF Inv
  <1>3. IsTable(Top.saved) /\ MarkedFrame(Top, log, Top.saved, decl)
    BY <1>1, InnermostFrame DEF FrameOK
  <1>4. /\ Top.mark \in 0..Len(log) /\ IsSequence(Since(Top.mark))
        /\ Traces(Top.saved, Since(Top.mark), decl)
    BY <1>2, <1>3, SuffixSequence DEF MarkedFrame, Since
  <1>5. IsSequence(undo) /\ Traces(decl, undo, decl') /\ IsTable(decl')
    <2>1. CASE undone
      BY <1>1, <1>3, <1>4, <2>1, UndoTraces
    <2>2. CASE ~undone
      BY <1>1, <1>2, <2>2, EmptySequence, TracesNothing
    <2> QED
      BY <2>1, <2>2
  <1> HIDE DEF undo
  <1>6. LogStep
    BY <1>1, <1>5 DEF LogStep
  <1>7. MarkedFrame(Top, log', Top.saved, decl') /\ IsSequence(log')
    BY <1>1, <1>2, <1>3, <1>5, MarkKept, ConcatSequence
  <1>8. IsSequence(events) /\ Traces(Top.saved, events, decl')
    BY <1>7, SuffixSequence DEF MarkedFrame
  <1> QED
    BY <1>1, <1>6, <1>8

LEMMA SourceDiscardedInv == Inv /\ SourceDiscarded => Inv'
  <1> SUFFICES ASSUME Inv, SourceDiscarded PROVE Inv'
    OBVIOUS
  <1> DEFINE e == Entry(Top.key, SubSeq(log', Top.mark + 1, Len(log')), now.ty, TRUE)
  <1>1. stack # <<>> /\ Captures(Top)
    BY DEF SourceDiscarded, Returning, Captures
  <1>2. LogStep
    BY DiscardedTraces
  <1>3. sourceMemo' = sourceMemo \/ sourceMemo' = Memoize(sourceMemo, e)
    BY DiscardedTraces
  <1>4. EntryOK(e)
    BY DiscardedTraces, EntryMade
  <1> HIDE DEF e
  <1>5. MemoOK(sourceMemo') /\ MemoOK(rawMemo')
    BY <1>3, <1>4, MemoizeKept DEF Inv, SourceDiscarded
  <1>6. Aligned(Front(stack), log, decl, Front(effects))
    BY <1>1, AlignPop DEF Inv, Top
  <1>7. Aligned(Front(stack), log', decl', Front(effects))
    BY <1>2, <1>6, AlignLog DEF Inv
  <1>8. stack' = Front(stack) /\ effects' = Front(effects)
    BY DEF SourceDiscarded, Below, Released
  <1>9. NowOK(now', stack')
    BY NowFree DEF SourceDiscarded
  <1> QED
    BY <1>2, <1>5, <1>7, <1>8, <1>9, LogsStep

LEMMA EnterCallInv == Inv /\ EnterCall => Inv'
  <1> SUFFICES ASSUME Inv, EnterCall PROVE Inv'
    OBVIOUS
  <1> DEFINE f == [frame |-> "call", expr |-> now.expr, phase |-> "raw", i |-> 1,
                   tys |-> <<>>, held |-> <<>>, sig |-> 1, commit |-> FALSE,
                   inferred |-> <<>>, params |-> <<>>, ret |-> Error]
  <1>1. CallFrame(f)
    BY CallOpened
  <1>2. stack' = Pushed(f) /\ now' = Resume /\ UNCHANGED <<declVars, effects, memoVars>>
    BY DEF EnterCall
  <1> HIDE DEF f
  <1>3. f.frame = "call" /\ FrameOK(f, log, decl) /\ ~Nested(f) /\ ~Captures(f)
    BY <1>1 DEF CallFrame, FrameOK, Nested, Captures
  <1>4. stack' # <<>> /\ stack'[Len(stack')] = f
    BY <1>2, <1>3, AlignPush DEF Inv, Pushed
  <1>5. NowOK(now', stack')
    BY <1>2, <1>3, <1>4, NowFree
  <1> QED
    BY <1>2, <1>3, <1>5, FramePushed

LEMMA ServeRawInv == Inv /\ ServeRaw => Inv'
  <1> SUFFICES ASSUME Inv, ServeRaw PROVE Inv'
    OBVIOUS
  <1> DEFINE entry == Served(rawMemo, Arg.id)
             f == WithArgument(Top, entry.ty, Memoized)
  <1>1. /\ adopt_memoized_walk(entry) /\ Servable(rawMemo, Arg.id) # {}
        /\ stack' = Append(Front(stack), f) /\ now' = Resume
    BY DEF ServeRaw, RawServed, Moved, Below
  <1>2. EntryOK(entry) /\ dependencies_hold(entry.reads)
    BY <1>1, ServedEntry DEF Inv
  <1>3. stack # <<>> /\ Top.frame = "call" /\ CallFrame(f)
    BY ResumedCall, CallArgument DEF ServeRaw, At
  <1> HIDE DEF entry, f
  <1>4. LogStep
    BY <1>1, <1>2, AdoptLogs DEF Inv
  <1>5. Aligned(stack, log', decl', effects)
    BY <1>4, AlignLog DEF Inv
  <1>6. /\ Aligned(stack', log', decl', effects)
        /\ stack' # <<>> /\ stack'[Len(stack')].frame = "call"
    BY <1>1, <1>3, <1>5, AlignMove DEF Top
  <1>7. NowOK(now', stack') /\ effects' = effects
    BY <1>1, <1>6, NowFree DEF ServeRaw
  <1>8. MemoOK(rawMemo') /\ MemoOK(sourceMemo')
    BY DEF ServeRaw, memoVars, Inv
  <1> QED
    BY <1>4, <1>6, <1>7, <1>8, LogsStep

LEMMA WalkRawInv == Inv /\ WalkRaw => Inv'
  <1> SUFFICES ASSUME Inv, WalkRaw PROVE Inv'
    OBVIOUS
  <1> DEFINE f == [frame |-> IF Candidate(Arg) THEN "captured" ELSE "in place",
                   id |-> Arg.id, mark |-> Len(log)]
  <1>1. stack # <<>> /\ stack[Len(stack)].frame = "call"
    BY ResumedCall DEF WalkRaw, At, Top
  <1>2. f.frame = (IF Candidate(Arg) THEN "captured" ELSE "in place") /\ f.mark = Len(log)
    OBVIOUS
  <1>3. /\ stack' = Append(stack, f)
        /\ effects' = IF Candidate(Arg) THEN Append(effects, <<>>) ELSE effects
    BY DEF WalkRaw, Pushed
  <1> HIDE DEF f
  <1>4. MarkedFrame(f, log, decl, decl)
    BY <1>2, MarkTaken DEF Inv
  <1>5. FrameOK(f, log, decl) /\ (Captures(f) <=> Candidate(Arg))
    BY <1>2, <1>4 DEF FrameOK, Captures
  <1>6. Aligned(stack, log, decl, effects)
    BY DEF Inv
  <1>7. /\ ~Captures(f) => Aligned(Append(stack, f), log, decl, effects)
        /\ Captures(f) => Aligned(Append(stack, f), log, decl, Append(effects, <<>>))
    BY <1>1, <1>5, <1>6, AlignPush
  <1>8. Aligned(stack', log, decl, effects')
    BY <1>3, <1>5, <1>7
  <1>9. NowOK(now', stack')
    BY NowFree DEF WalkRaw
  <1> QED
    BY <1>8, <1>9, QuietStep DEF WalkRaw, declVars, memoVars

LEMMA RawInPlaceInv == Inv /\ RawInPlace => Inv'
  <1> SUFFICES ASSUME Inv, RawInPlace PROVE Inv'
    OBVIOUS
  <1> DEFINE f == WithArgument(Last(Below), now.ty, Settled)
             low == Append(Front(Front(stack)), f)
  <1>1. stack # <<>> /\ Nested(stack[Len(stack)]) /\ ~Captures(stack[Len(stack)])
    BY DEF RawInPlace, Returning, Top, Nested, Captures
  <1>2. CallFrame(f)
    BY <1>1, InnermostFrame, CallArgument DEF Top
  <1>3. stack' = low /\ now' = Resume /\ effects' = effects
    BY DEF RawInPlace, Below
  <1> HIDE DEF f
  <1>4. Aligned(low, log, decl, effects) /\ low # <<>> /\ low[Len(low)].frame = "call"
    BY <1>1, <1>2, AlignReturn DEF Inv
  <1>5. NowOK(now', stack')
    BY <1>3, <1>4, NowFree
  <1> QED
    BY <1>3, <1>4, <1>5, QuietStep DEF RawInPlace, declVars, memoVars

LEMMA RawCapturedInv == Inv /\ RawCaptured => Inv'
  <1> SUFFICES ASSUME Inv, RawCaptured PROVE Inv'
    OBVIOUS
  <1> DEFINE f == WithArgument(Last(Below), now.ty, Held(Captured))
             low == Append(Front(Front(stack)), f)
             e == Entry(Top.id, Since(Top.mark), now.ty, FALSE)
  <1>1. /\ stack # <<>> /\ Top.frame = "captured"
        /\ Nested(stack[Len(stack)]) /\ Captures(stack[Len(stack)])
    BY DEF RawCaptured, Returning, Top, Nested, Captures
  <1>2. CallFrame(f)
    BY <1>1, InnermostFrame, CallArgument DEF Top
  <1>3. /\ stack' = low /\ now' = Resume /\ effects' = Front(effects)
        /\ decl' = decl /\ log' = log /\ sourceMemo' = sourceMemo
        /\ rawMemo' = rawMemo \/ rawMemo' = Memoize(rawMemo, e)
    BY DEF RawCaptured, Below, Released, declVars
  <1>4. EntryOK(e)
    <2>1. Top.mark \in 0..Len(log)
      BY <1>1, InnermostFrame DEF FrameOK, MarkedFrame
    <2>2. IsSequence(Since(Top.mark))
      BY <2>1, SuffixSequence DEF Since, Inv
    <2> QED
      BY <2>2, EntryMade
  <1> HIDE DEF f, e
  <1>5. Aligned(low, log, decl, Front(effects)) /\ low # <<>> /\ low[Len(low)].frame = "call"
    BY <1>1, <1>2, AlignReturn DEF Inv
  <1>6. NowOK(now', stack') /\ Aligned(stack', log', decl', effects')
    BY <1>3, <1>5, NowFree
  <1>7. MemoOK(rawMemo') /\ MemoOK(sourceMemo')
    BY <1>3, <1>4, MemoizeKept DEF Inv
  <1>8. LogStep
    BY <1>3, LogUnchanged DEF Inv
  <1> QED
    BY <1>6, <1>7, <1>8, LogsStep

LEMMA SelectCandidateInv == Inv /\ SelectCandidate => Inv'
  <1> SUFFICES ASSUME Inv, SelectCandidate PROVE Inv'
    OBVIOUS
  <1>1. stack # <<>> /\ Top.frame = "call" /\ CallFrame(Top)
    BY ResumedCall DEF SelectCandidate, At
  <1>2. CallFrame(Build(Top, 1, Len(Top.expr.sigs) = 1))
    BY <1>1, CallKept
  <1> QED
    BY <1>1, <1>2, CallMoves DEF SelectCandidate, Emits

(* A call that hands an argument to be walked again stays where it is.     *)
LEMMA SourceAsked ==
    ASSUME Inv, now.op = "resume", NEW e, NEW c, NEW raw, NEW b \in BOOLEAN,
           now' = Source(e, c, raw, b), UNCHANGED <<stack, declVars, effects, memoVars>>
    PROVE  Inv'
  <1>1. stack # <<>> /\ stack[Len(stack)].frame = "call"
    BY ResumedCall DEF Top
  <1>2. NowOK(now', stack)
    BY <1>1, NowFree
  <1> QED
    BY <1>2, StackStays DEF Emits

LEMMA InferArgumentInv == Inv /\ InferArgument => Inv'
  <1> SUFFICES ASSUME Inv, InferArgument PROVE Inv'
    OBVIOUS
  <1>1. stack # <<>> /\ Top.frame = "call" /\ CallFrame(Top) /\ now.op = "resume"
    BY ResumedCall DEF InferArgument, At
  <1> DEFINE f == [Top EXCEPT !.inferred = Append(@, Top.tys[Top.i]), !.i = @ + 1]
             src == Source(Arg, ContextualParams[Top.i], Top.tys[Top.i], FALSE)
  <1>2. /\ Moved(f) \/ (now' = src /\ stack' = stack)
        /\ UNCHANGED <<declVars, effects, memoVars>>
    BY DEF InferArgument
  <1>3. CallFrame(f)
    <2>1. CallFrame([Top EXCEPT !.inferred = Append(Top.inferred, Top.tys[Top.i]), !.i = Top.i + 1])
      BY <1>1, CallKept
    <2> QED
      BY <2>1
  <1> HIDE DEF f
  <1>4. CASE Moved(f)
    BY <1>1, <1>2, <1>3, <1>4, CallMoves DEF Emits
  <1>5. CASE now' = src /\ stack' = stack
    BY <1>1, <1>2, <1>5, SourceAsked
  <1> QED
    BY <1>2, <1>4, <1>5

LEMMA ArgumentInferredInv == Inv /\ ArgumentInferred => Inv'
  <1> SUFFICES ASSUME Inv, ArgumentInferred PROVE Inv'
    OBVIOUS
  <1> DEFINE f == [Top EXCEPT !.inferred = Append(@, now.ty), !.i = @ + 1]
  <1>1. stack # <<>> /\ Top.frame = "call" /\ CallFrame(Top)
    BY InnermostFrame DEF ArgumentInferred, Returning
  <1>2. CallFrame(f)
    <2>1. CallFrame([Top EXCEPT !.inferred = Append(Top.inferred, now.ty), !.i = Top.i + 1])
      BY <1>1, CallKept
    <2> QED
      BY <2>1
  <1>3. Moved(f) /\ Emits /\ UNCHANGED <<declVars, memoVars>>
    BY DEF ArgumentInferred, Emits
  <1> HIDE DEF f
  <1> QED
    BY <1>1, <1>2, <1>3, CallMoves

LEMMA CandidateBuiltInv == Inv /\ CandidateBuilt => Inv'
  <1> SUFFICES ASSUME Inv, CandidateBuilt PROVE Inv'
    OBVIOUS
  <1> DEFINE made == IF Signature.generic
                     THEN Instantiate(Signature, Infer(Signature, Top.inferred)) ELSE Signature
             f == [Top EXCEPT !.phase = IF Top.commit THEN "check" ELSE "trial",
                              !.params = made.params, !.ret = made.ret, !.i = 1]
  <1>1. stack # <<>> /\ Top.frame = "call" /\ CallFrame(Top)
    BY ResumedCall DEF CandidateBuilt, At
  <1>2. Moved(f) /\ UNCHANGED <<declVars, memoVars>>
    BY DEF CandidateBuilt
  <1>3. Emits
    BY EmittedRecord DEF CandidateBuilt, Emits
  <1> HIDE DEF made
  <1>4. CallFrame(f)
    BY <1>1, CallKept
  <1> HIDE DEF f
  <1> QED
    BY <1>1, <1>2, <1>3, <1>4, CallMoves

LEMMA MismatchInv ==
    ASSUME Inv, stack # <<>>, Top.frame = "call", Mismatch, UNCHANGED <<declVars, memoVars>>
    PROVE  Inv'
  <1>1. CallFrame(Top)
    BY InnermostFrame
  <1>2. CallFrame(Build(Top, Top.sig + 1, FALSE))
    BY <1>1, CallKept
  <1>3. CallFrame([Top EXCEPT !.phase = "settle", !.ret = Error])
    BY <1>1, CallKept
  <1>4. Emits
    BY EmittedRecord DEF Mismatch, Emits
  <1>5. \/ Moved(Build(Top, Top.sig + 1, FALSE))
        \/ Moved([Top EXCEPT !.phase = "settle", !.ret = Error])
    BY DEF Mismatch
  <1> QED
    BY <1>2, <1>3, <1>4, <1>5, CallMoves

LEMMA TryArityInv == Inv /\ TryArity => Inv'
  BY ResumedCall, MismatchInv DEF TryArity, At

LEMMA TryArgumentInv == Inv /\ TryArgument => Inv'
  BY SourceAsked DEF TryArgument, At

LEMMA ArgumentTriedInv == Inv /\ ArgumentTried => Inv'
  <1> SUFFICES ASSUME Inv, ArgumentTried PROVE Inv'
    OBVIOUS
  <1> DEFINE f == [Top EXCEPT !.i = @ + 1]
  <1>1. stack # <<>> /\ Top.frame = "call" /\ CallFrame(Top)
    BY InnermostFrame DEF ArgumentTried, Returning
  <1>2. CallFrame(f)
    <2>1. CallFrame([Top EXCEPT !.i = Top.i + 1])
      BY <1>1, CallKept
    <2> QED
      BY <2>1
  <1>3. /\ (Moved(f) /\ effects' = effects) \/ Mismatch
        /\ UNCHANGED <<declVars, memoVars>>
    BY DEF ArgumentTried
  <1> HIDE DEF f
  <1> QED
    BY <1>1, <1>2, <1>3, CallMoves, MismatchInv DEF Emits

LEMMA CandidateMatchesInv == Inv /\ CandidateMatches => Inv'
  <1> SUFFICES ASSUME Inv, CandidateMatches PROVE Inv'
    OBVIOUS
  <1>1. stack # <<>> /\ Top.frame = "call" /\ CallFrame(Top)
    BY ResumedCall DEF CandidateMatches, At
  <1>2. CallFrame(Build(Top, Top.sig, TRUE))
    BY <1>1, CallKept
  <1> QED
    BY <1>1, <1>2, CallMoves DEF CandidateMatches, Emits

LEMMA CheckArgumentInv == Inv /\ CheckArgument => Inv'
  BY SourceAsked DEF CheckArgument, At

LEMMA ArgumentCheckedInv == Inv /\ ArgumentChecked => Inv'
  <1> SUFFICES ASSUME Inv, ArgumentChecked PROVE Inv'
    OBVIOUS
  <1> DEFINE f == [Top EXCEPT !.held = Superseded(@, Top.i, now.seen),
                              !.i = IF Top.params[Top.i] = Never THEN Len(Top.tys) + 1 ELSE @ + 1]
  <1>1. stack # <<>> /\ Top.frame = "call" /\ CallFrame(Top)
    BY InnermostFrame DEF ArgumentChecked, Returning
  <1>2. Moved(f) /\ UNCHANGED <<declVars, memoVars>>
    BY DEF ArgumentChecked
  <1>3. Emits
    BY EmittedRecord DEF ArgumentChecked, Emits
  <1>4. CallFrame(f)
    <2> DEFINE n == IF Top.params[Top.i] = Never THEN Len(Top.tys) + 1 ELSE Top.i + 1
    <2>1. CallFrame([Top EXCEPT !.held = Superseded(@, Top.i, now.seen), !.i = n])
      BY <1>1, CallSuperseded
    <2> QED
      BY <2>1
  <1> HIDE DEF f
  <1> QED
    BY <1>1, <1>2, <1>3, <1>4, CallMoves

LEMMA ArgumentsCheckedInv == Inv /\ ArgumentsChecked => Inv'
  <1> SUFFICES ASSUME Inv, ArgumentsChecked PROVE Inv'
    OBVIOUS
  <1>1. stack # <<>> /\ Top.frame = "call" /\ CallFrame(Top)
    BY ResumedCall DEF ArgumentsChecked, At
  <1>2. CallFrame([Top EXCEPT !.phase = "settle"])
    BY <1>1, CallKept
  <1> QED
    BY <1>1, <1>2, CallMoves DEF ArgumentsChecked, Emits

LEMMA SettleInv == Inv /\ Settle => Inv'
  <1> SUFFICES ASSUME Inv, Settle PROVE Inv'
    OBVIOUS
  <1> DEFINE f == [frame |-> "settle", i |-> Min(Unsettled(Top))]
  <1>1. stack # <<>> /\ stack[Len(stack)].frame = "call"
    BY ResumedCall DEF Settle, At, Top
  <1>2. FrameOK(f, log, decl) /\ Captures(f)
    BY DEF FrameOK, Captures
  <1>3. stack' = Append(stack, f) /\ effects' = Append(effects, <<>>) /\ NowOK(now', stack')
    BY NowFree DEF Settle, Pushed
  <1> HIDE DEF f
  <1>4. Aligned(stack', log, decl, effects')
    BY <1>1, <1>2, <1>3, AlignPush DEF Inv
  <1> QED
    BY <1>3, <1>4, QuietStep DEF Settle, declVars, memoVars

LEMMA ArgumentSettledInv == Inv /\ ArgumentSettled => Inv'
  <1> SUFFICES ASSUME Inv, ArgumentSettled PROVE Inv'
    OBVIOUS
  <1> DEFINE f == [Last(Below) EXCEPT !.held[Top.i] = Held(Captured)]
             low == Append(Front(Front(stack)), f)
  <1>1. stack # <<>> /\ Nested(stack[Len(stack)]) /\ Captures(stack[Len(stack)])
    BY DEF ArgumentSettled, Returning, Top, Nested, Captures
  <1>2. CallFrame(f)
    BY <1>1, InnermostFrame, CallSettled DEF Top
  <1>3. stack' = low /\ now' = Resume /\ effects' = Front(effects)
    BY DEF ArgumentSettled, Below, Released
  <1> HIDE DEF f
  <1>4. Aligned(low, log, decl, Front(effects)) /\ low # <<>> /\ low[Len(low)].frame = "call"
    BY <1>1, <1>2, AlignReturn DEF Inv
  <1>5. NowOK(now', stack')
    BY <1>3, <1>4, NowFree
  <1> QED
    BY <1>3, <1>4, <1>5, QuietStep DEF ArgumentSettled, declVars, memoVars

(* Below the outermost call no walk is suspended that a mark was taken     *)
(* for: such a walk has its call under it.                                 *)
LEMMA OutermostCall ==
    ASSUME Inv, stack # <<>>, Top.frame = "call", Depth = 1
    PROVE  StackOK(Below, <<>>, decl)
  <1> DEFINE n == Len(stack)
             C == {i \in DOMAIN stack : stack[i].frame = "call"}
  <1>1. StackOK(stack, log, decl) /\ StackOK(Below, log, decl)
    BY StackPop DEF Inv, Aligned, Below
  <1>2. n \in Nat \ {0} /\ DOMAIN stack = 1..n /\ IsSequence(stack)
    BY <1>1, SequenceFacts DEF StackOK
  <1>3. /\ IsSequence(Below) /\ Len(Below) = n - 1
        /\ \A i \in 1..(n - 1) : Below[i] = stack[i]
    BY <1>2, FrontSequence DEF Below
  <1>4. DOMAIN Below = 1..(n - 1)
    BY <1>3, SequenceFacts
  <1>5. Cardinality(C) = 1 /\ n \in C
    BY <1>2 DEF Depth, Top
  <1>6. IsFiniteSet(C)
    <2>1. IsFiniteSet(1..n)
      BY <1>2, FS_Interval
    <2> QED
      BY <1>2, <2>1, FS_Subset
  <1>7. \A i \in C : i = n
    <2>1. PICK x : C = {x}
      BY <1>5, <1>6, FS_Singleton
    <2> QED
      BY <1>5, <2>1
  <1>8. ASSUME NEW i \in DOMAIN Below PROVE Below[i].frame # "call"
    <2>1. i \in DOMAIN stack /\ i # n /\ Below[i] = stack[i]
      BY <1>2, <1>3, <1>4
    <2> QED
      BY <1>7, <2>1
  <1> HIDE DEF n, C
  <1>9. ASSUME NEW i \in DOMAIN Below PROVE ~Nested(Below[i])
    <2> SUFFICES ASSUME Nested(Below[i]) PROVE FALSE
      OBVIOUS
    <2>1. i # 1 /\ Below[i - 1].frame = "call"
      BY <1>1 DEF StackOK
    <2>2. i - 1 \in DOMAIN Below
      BY <1>2, <1>4, <2>1
    <2> QED
      BY <1>8, <2>1, <2>2
  <1>10. ASSUME NEW i \in DOMAIN Below PROVE FrameOK(Below[i], <<>>, decl)
    <2>1. FrameOK(Below[i], log, decl)
      BY <1>1 DEF StackOK
    <2> QED
      BY <1>8, <1>9, <2>1 DEF FrameOK, Nested
  <1> QED
    BY <1>3, <1>9, <1>10 DEF StackOK

LEMMA CloseCallInv == Inv /\ CloseCall => Inv'
  <1> SUFFICES ASSUME Inv, CloseCall PROVE Inv'
    OBVIOUS
  <1>1. stack # <<>> /\ Top.frame = "call" /\ ~Captures(Top)
    BY ResumedCall DEF CloseCall, At, Captures
  <1>2. Emits
    BY DEF CloseCall, Emits
  <1>3. NowOK(now', stack')
    BY NowFree DEF CloseCall
  <1>4. CASE Depth = 1
    <2>1. /\ stack' = Below /\ decl' = decl
          /\ log' = <<>> /\ rawMemo' = <<>> /\ sourceMemo' = <<>>
      BY <1>4 DEF CloseCall
    <2>2. Aligned(Below, log, decl, effects)
      BY <1>1, AlignPop DEF Inv, Top, Below
    <2>3. Aligned(Below, log, decl, effects')
      BY <1>2, <2>2, AlignEmits
    <2>4. StackOK(Below, <<>>, decl)
      BY <1>1, <1>4, OutermostCall
    <2>5. Aligned(stack', log', decl', effects')
      BY <2>1, <2>3, <2>4 DEF Aligned
    <2>6. IsSequence(<<>>) /\ MemoOK(<<>>)
      BY EmptySequence DEF MemoOK
    <2>7. IsTable(decl)
      BY DEF Inv
    <2>8. IsTable(decl')
      BY <2>1, <2>7 DEF IsTable
    <2> QED
      BY <1>3, <2>1, <2>5, <2>6, <2>8 DEF Inv
  <1>5. CASE Depth # 1
    <2>1. stack' = Below /\ UNCHANGED <<declVars, memoVars>>
      BY <1>5 DEF CloseCall, declVars
    <2> QED
      BY <1>1, <1>2, <1>3, <2>1, FramePopped
  <1> QED
    BY <1>4, <1>5

LEMMA CheckAgainInv == Inv /\ CheckAgain => Inv'
  <1> SUFFICES ASSUME Inv, CheckAgain PROVE Inv'
    OBVIOUS
  <1>1. /\ stack = <<>> /\ stack' = <<>> /\ log' = log
        /\ rawMemo' = rawMemo /\ sourceMemo' = sourceMemo
        /\ decl' = [s \in Slots |-> None] /\ effects' = << <<>> >>
    BY DEF CheckAgain, Checked, memoVars
  <1>2. IsSequence(<<>>) /\ Len(<<>>) = 0 /\ DOMAIN <<>> = {}
    BY EmptySequence
  <1>3. IsSequence(log') /\ MemoOK(rawMemo') /\ MemoOK(sourceMemo') /\ IsTable(decl')
    BY <1>1 DEF Inv, IsTable
  <1>4. StackOK(stack', log', decl')
    BY <1>1, <1>2 DEF StackOK
  <1>5. Opened(stack') = 0
    BY <1>1, <1>2, FS_EmptySet DEF Opened, Capturing
  <1>6. IsSequence(effects') /\ Len(effects') = 1
    <2>1. << <<>> >> = Append(<<>>, <<>>)
      OBVIOUS
    <2>2. IsSequence(Append(<<>>, <<>>)) /\ Len(Append(<<>>, <<>>)) = 0 + 1
      BY <1>2, AppendSequence
    <2> QED
      BY <1>1, <2>1, <2>2
  <1>7. NowOK(now', stack')
    BY NowFree DEF CheckAgain
  <1> QED
    BY <1>3, <1>4, <1>5, <1>6, <1>7 DEF Inv, Aligned

LEMMA NextInv == Inv /\ [Next]_vars => Inv'
  <1> SUFFICES ASSUME Inv, [Next]_vars PROVE Inv'
    OBVIOUS
  <1>1. CASE InferLeaf \/ InferReference \/ InferDeclaration \/ Declare
    BY <1>1, InferLeafInv, InferReferenceInv, InferDeclarationInv, DeclareInv
  <1>2. CASE InferArrow \/ EnterBody \/ WalkBody \/ LeaveBody
    BY <1>2, InferArrowInv, EnterBodyInv, WalkBodyInv, LeaveBodyInv
  <1>3. CASE InferList \/ ListDone \/ InferEither
    BY <1>3, InferListInv, ListDoneInv, InferEitherInv
  <1>4. CASE ServeSource \/ DeclineSource \/ RewalkSource \/ SourceRetained \/ SourceDiscarded
    BY <1>4, ServeSourceInv, DeclineSourceInv, RewalkSourceInv, SourceRetainedInv,
       SourceDiscardedInv
  <1>5. CASE EnterCall \/ ServeRaw \/ WalkRaw \/ RawInPlace \/ RawCaptured
    BY <1>5, EnterCallInv, ServeRawInv, WalkRawInv, RawInPlaceInv, RawCapturedInv
  <1>6. CASE SelectCandidate \/ InferArgument \/ ArgumentInferred \/ CandidateBuilt
    BY <1>6, SelectCandidateInv, InferArgumentInv, ArgumentInferredInv, CandidateBuiltInv
  <1>7. CASE TryArity \/ TryArgument \/ ArgumentTried \/ CandidateMatches
    BY <1>7, TryArityInv, TryArgumentInv, ArgumentTriedInv, CandidateMatchesInv
  <1>8. CASE CheckArgument \/ ArgumentChecked \/ ArgumentsChecked
    BY <1>8, CheckArgumentInv, ArgumentCheckedInv, ArgumentsCheckedInv
  <1>9. CASE Settle \/ ArgumentSettled \/ CloseCall \/ CheckAgain
    BY <1>9, SettleInv, ArgumentSettledInv, CloseCallInv, CheckAgainInv
  <1>10. CASE UNCHANGED vars
    <2>1. UNCHANGED <<now, stack, decl, log, effects, rawMemo, sourceMemo>>
      BY <1>10 DEF vars, declVars, memoVars
    <2>2. Aligned(stack', log, decl, effects') /\ NowOK(now', stack')
      BY <2>1 DEF Inv
    <2> QED
      BY <2>1, <2>2, QuietStep
  <1> QED
    BY <1>1, <1>2, <1>3, <1>4, <1>5, <1>6, <1>7, <1>8, <1>9, <1>10 DEF Next

LEMMA Invariance == Spec => []Inv
  <1>1. Init => Inv
    BY InitInv
  <1>2. Inv /\ [Next]_vars => Inv'
    BY NextInv
  <1> QED
    BY <1>1, <1>2, PTL DEF Spec

-----------------------------------------------------------------------------
(* What follows from it.                                                   *)

(* For every program, and whatever relation, inference and substitution    *)
(* answer: each walk that captures its effects (capture_candidate_effects) *)
(* has a batch of its own, a call's argument types and held walks go       *)
(* together, a mark never points past the log, and only a call resumes.    *)
THEOREM ArgumentWalkTypeCorrect == Spec => []TypeOK
  <1>1. Inv => TypeOK
    <2> SUFFICES ASSUME Inv PROVE TypeOK
      OBVIOUS
    <2>1. StackOK(stack, log, decl) /\ Len(effects) = 1 + Opened(stack)
      BY DEF Inv, Aligned
    <2>2. Opened(stack) = Cardinality({i \in DOMAIN stack :
                            \/ stack[i].frame \in {"captured", "settle"}
                            \/ stack[i].frame = "source" /\ ~stack[i].retain})
      BY DEF Opened, Capturing, Captures
    <2>3. ASSUME NEW i \in DOMAIN stack
          PROVE  /\ stack[i].frame = "call" => Len(stack[i].tys) = Len(stack[i].held)
                 /\ stack[i].frame \in {"captured", "source"} => stack[i].mark <= Len(log)
      <3>1. FrameOK(stack[i], log, decl)
        BY <2>1 DEF StackOK
      <3>2. Len(log) \in Nat
        BY SequenceFacts DEF Inv
      <3>3. stack[i].frame \in {"captured", "source"} => stack[i].mark \in 0..Len(log)
        BY <3>1 DEF FrameOK, MarkedFrame
      <3>4. stack[i].frame = "call" => Len(stack[i].tys) = Len(stack[i].held)
        BY <3>1 DEF FrameOK, CallFrame
      <3> QED
        BY <3>2, <3>3, <3>4
    <2>4. now.op = "resume" => Top.frame = "call"
      BY ResumedCall
    <2> QED
      BY <2>1, <2>2, <2>3, <2>4 DEF TypeOK
  <1> QED
    BY <1>1, Invariance, PTL

(* Replaying what the log says a contextual walk wrote, on what was saved  *)
(* at its start, gives the declarations of now: at any moment of any walk  *)
(* of any program, whatever was served, undone and memoized inside it      *)
(* (DeclTypes::net_writes_since and the assertion of DeclTypes::restore).  *)
THEOREM TheLogReproduces == Spec => []LogReproduces
  <1>1. Inv => LogReproduces
    <2> SUFFICES ASSUME Inv, NEW i \in {j \in DOMAIN stack : stack[j].frame = "source"}
                 PROVE  {w \in net_writes(Since(stack[i].mark)) : w.slot \in Slots} =
                          {[slot |-> s, before |-> stack[i].saved[s], after |-> decl[s]] :
                             s \in {t \in Slots : stack[i].saved[t] # decl[t]}}
      BY DEF LogReproduces
    <2> DEFINE a == stack[i].saved
               ev == Since(stack[i].mark)
    <2>1. MarkedFrame(stack[i], log, a, decl)
      BY DEF Inv, Aligned, StackOK, FrameOK
    <2>2. IsSequence(ev) /\ Traces(a, ev, decl)
      BY <2>1, SuffixSequence DEF MarkedFrame, Since, Inv
    <2> HIDE DEF a, ev
    <2>3. \A s \in Slots :
            /\ \A w \in net_writes(ev) : w.slot = s => a[s] # decl[s] /\ w = Net(s, a[s], decl[s])
            /\ a[s] # decl[s] => Net(s, a[s], decl[s]) \in net_writes(ev)
      BY <2>2, NetWritesTraced
    <2>4. {w \in net_writes(ev) : w.slot \in Slots} =
            {Net(s, a[s], decl[s]) : s \in {t \in Slots : a[t] # decl[t]}}
      <3>1. ASSUME NEW w \in net_writes(ev), w.slot \in Slots
            PROVE  w \in {Net(s, a[s], decl[s]) : s \in {t \in Slots : a[t] # decl[t]}}
        BY <2>3, <3>1
      <3>2. ASSUME NEW s \in Slots, a[s] # decl[s]
            PROVE  /\ Net(s, a[s], decl[s]) \in net_writes(ev)
                   /\ Net(s, a[s], decl[s]).slot \in Slots
        BY <2>3, <3>2, NetFields
      <3> QED
        BY <3>1, <3>2
    <2> QED
      BY <2>4 DEF Net, a, ev
  <1> QED
    BY <1>1, Invariance, PTL

(* What a memo entry compares agrees with what it replays: at any moment   *)
(* of a walk, a slot it read before writing it still has the type it read  *)
(* or is moved from that type by the net writes, which all end in what the *)
(* declarations hold (dependencies_since and net_writes_since).            *)
THEOREM ReadsAreAccounted == Spec => []ReadsAccounted
  <1>1. Inv => ReadsAccounted
    <2> SUFFICES ASSUME Inv,
                        NEW i \in {j \in DOMAIN stack : stack[j].frame \in {"captured", "source"}}
                 PROVE  LET events == Since(stack[i].mark)
                            writes == net_writes(events)
                        IN /\ \A w \in writes : w.slot \in Slots => decl[w.slot] = w.after
                           /\ \A r \in dependencies(events) :
                                r[1] \in Slots =>
                                  \/ decl[r[1]] = r[2]
                                  \/ \E w \in writes : w.slot = r[1] /\ w.before = r[2]
      BY DEF ReadsAccounted
    <2> DEFINE ev == Since(stack[i].mark)
    <2>1. FrameOK(stack[i], log, decl)
      BY DEF Inv, Aligned, StackOK
    <2>2. PICK a : MarkedFrame(stack[i], log, a, decl)
      BY <2>1 DEF FrameOK
    <2>3. IsSequence(ev) /\ Traces(a, ev, decl)
      BY <2>2, SuffixSequence DEF MarkedFrame, Since, Inv
    <2> HIDE DEF ev
    <2>4. \A s \in Slots :
            /\ \A w \in net_writes(ev) : w.slot = s => a[s] # decl[s] /\ w = Net(s, a[s], decl[s])
            /\ a[s] # decl[s] => Net(s, a[s], decl[s]) \in net_writes(ev)
      BY <2>3, NetWritesTraced
    <2>5. \A w \in net_writes(ev) : w.slot \in Slots => decl[w.slot] = w.after
      BY <2>4, NetFields
    <2>6. ASSUME NEW r \in dependencies(ev), r[1] \in Slots, decl[r[1]] # r[2]
          PROVE  \E w \in net_writes(ev) : w.slot = r[1] /\ w.before = r[2]
      <3>1. r[2] = a[r[1]]
        BY <2>3, <2>6, DependenciesTraced
      <3>2. Net(r[1], a[r[1]], decl[r[1]]) \in net_writes(ev)
        BY <2>4, <2>6, <3>1
      <3> QED
        BY <3>1, <3>2, NetFields
    <2> QED
      BY <2>5, <2>6 DEF ev
  <1> QED
    BY <1>1, Invariance, PTL

(* A value that reaches a contextual walk to be discarded is discarded.    *)
LEMMA OnlyDiscarded ==
    ASSUME Next, Returning("source"), ~Top.retain
    PROVE  SourceDiscarded
  <1>1. now.op = "value" /\ stack # <<>> /\ Top.frame = "source"
    BY DEF Returning
  <1>2. ~(InferLeaf \/ InferReference \/ InferDeclaration \/ Declare \/ InferArrow)
    BY <1>1 DEF InferLeaf, InferReference, InferDeclaration, Declare, InferArrow,
                Inferring, Returning
  <1>3. ~(EnterBody \/ WalkBody \/ LeaveBody \/ InferList \/ ListDone \/ InferEither)
    BY <1>1 DEF EnterBody, WalkBody, LeaveBody, InferList, ListDone, InferEither,
                Inferring, Returning
  <1>4. ~(ServeSource \/ DeclineSource \/ RewalkSource \/ SourceRetained)
    BY <1>1 DEF ServeSource, DeclineSource, RewalkSource, SourceRetained
  <1>5. ~(EnterCall \/ ServeRaw \/ WalkRaw \/ RawInPlace \/ RawCaptured)
    BY <1>1 DEF EnterCall, ServeRaw, WalkRaw, RawInPlace, RawCaptured, Inferring, At, Returning
  <1>6. ~(SelectCandidate \/ InferArgument \/ ArgumentInferred \/ CandidateBuilt)
    BY <1>1 DEF SelectCandidate, InferArgument, ArgumentInferred, CandidateBuilt, At, Returning
  <1>7. ~(TryArity \/ TryArgument \/ ArgumentTried \/ CandidateMatches)
    BY <1>1 DEF TryArity, TryArgument, ArgumentTried, CandidateMatches, At, Returning
  <1>8. ~(CheckArgument \/ ArgumentChecked \/ ArgumentsChecked)
    BY <1>1 DEF CheckArgument, ArgumentChecked, ArgumentsChecked, At, Returning
  <1>9. ~(Settle \/ ArgumentSettled \/ CloseCall \/ CheckAgain)
    BY <1>1 DEF Settle, ArgumentSettled, CloseCall, CheckAgain, At, Returning, Checked
  <1> QED
    BY <1>2, <1>3, <1>4, <1>5, <1>6, <1>7, <1>8, <1>9 DEF Next

(* A contextual walk of an arrow that is discarded leaves the declarations *)
(* as it found them, and the entry the memo keeps of it replays nothing:   *)
(* the undo is logged before the entry is made                             *)
(* (infer_contextual_source_after_walked_reporting).                       *)
THEOREM ArrowsReplayNothing == Spec => ArrowReplaysNothing
  <1> DEFINE P == Returning("source") /\ ~Top.retain /\ Top.expr.kind = "arrow"
                    => /\ decl' = Top.saved
                       /\ sourceMemo' # sourceMemo
                            => \A w \in Last(sourceMemo').writes : w.slot \notin Slots
  <1>1. ASSUME Inv, Next, Returning("source"), ~Top.retain, Top.expr.kind = "arrow"
        PROVE  /\ decl' = Top.saved
               /\ sourceMemo' # sourceMemo
                    => \A w \in Last(sourceMemo').writes : w.slot \notin Slots
    <2> DEFINE ev == SubSeq(log', Top.mark + 1, Len(log'))
               e == Entry(Top.key, ev, now.ty, TRUE)
    <2>1. SourceDiscarded
      BY <1>1, OnlyDiscarded
    <2>2. /\ IsSequence(ev) /\ Traces(Top.saved, ev, decl') /\ decl' = Top.saved
          /\ sourceMemo' = sourceMemo \/ sourceMemo' = Memoize(sourceMemo, e)
      BY <1>1, <2>1, DiscardedTraces
    <2>3. e.writes = net_writes(ev)
      BY DEF Entry
    <2> HIDE DEF ev, e
    <2>4. Traces(Top.saved, ev, Top.saved)
      BY <2>2
    <2>5. \A w \in net_writes(ev) : w.slot \notin Slots
      BY <2>2, <2>4, NetWritesTraced
    <2>6. ASSUME sourceMemo' # sourceMemo PROVE Last(sourceMemo') = e
      <3>1. sourceMemo' = Append(sourceMemo, e)
        BY <2>2, <2>6 DEF Memoize
      <3>2. IsSequence(sourceMemo)
        BY <1>1 DEF Inv, MemoOK
      <3> QED
        BY <3>1, <3>2, AppendSequence
    <2> QED
      BY <2>2, <2>3, <2>5, <2>6
  <1>2. Inv /\ [Next]_vars => [P]_vars
    BY <1>1
  <1> QED
    BY <1>2, Invariance, PTL DEF Spec, ArrowReplaysNothing
=============================================================================
