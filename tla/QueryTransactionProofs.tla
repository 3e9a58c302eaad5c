------------------------ MODULE QueryTransactionProofs ------------------------
(***************************************************************************)
(* The journal and the cache layers of SemanticQueryState implement the    *)
(* nested transactions of NestedTransactions, for any memos, any nesting   *)
(* and any changes of the type graph in between.                           *)
(*                                                                         *)
(* The journal is replayed newest record first, so what a cell holds after *)
(* the replay is what its oldest record kept, or what the cell holds now   *)
(* if no record names it.  The relation cache is not journaled: its layers *)
(* below the savepoint's own must not have been touched.  Neither holds    *)
(* of a context that a reset set aside and a rollback put back, which can  *)
(* come back with a layer of an inner savepoint still on it; but then its  *)
(* identity is stale and nothing of it is read again.                      *)
(***************************************************************************)
EXTENDS SemanticQueryStateProofs

(* What Visible can be.                                                    *)
Seen == [memo : [Slots -> Entry], completed : Layer, candidates : SUBSET Pairs,
         clean : [Roots -> Entry], cache : Layer, identity : Nat \cup {NoIdentity}]

Member(S, p) == IF p \in S THEN "in" ELSE "out"

(* The cell a record is about, and what undoing it puts back there.        *)
IdentityCell == <<"identity", NoIdentity>>
Cell(r) ==
    IF r.kind = "reset" THEN IdentityCell
    ELSE IF r.kind \in {"inserted", "removed"} THEN <<"candidates", r.key>>
    ELSE <<r.kind, r.key>>
Before(r) ==
    IF r.kind = "reset" THEN r.identity
    ELSE IF r.kind = "inserted" THEN "out"
    ELSE IF r.kind = "removed" THEN "in"
    ELSE IF r.kind = "clean" THEN NoEntry
    ELSE r.previous

(* Replaying J down to m turns what is now in cell c into what was then.   *)
Untouched(J, m, n, c) == \A k \in DOMAIN J : m < k /\ k < n => Cell(J[k]) # c
Recovers(J, m, c, now, then) ==
    /\ Untouched(J, m, Len(J) + 1, c) => now = then
    /\ \A j \in DOMAIN J :
         m < j /\ Cell(J[j]) = c /\ Untouched(J, m, j, c) => Before(J[j]) = then

(* The same for every cell of the journaled tables.                        *)
Restorable(J, m, M, C, K, E, v) ==
    /\ \A s \in Slots : Recovers(J, m, <<"memo", s>>, M[s], v.memo[s])
    /\ \A p \in Pairs : Recovers(J, m, <<"completed", p>>, C[p], v.completed[p])
    /\ \A p \in Pairs : Recovers(J, m, <<"candidates", p>>, Member(K, p), Member(v.candidates, p))
    /\ \A ty \in Roots : Recovers(J, m, <<"clean", ty>>, E[ty], v.clean[ty])

(* Record r keeps what a step overwrites.                                  *)
Keeps(r, c, now, next) ==
    (Cell(r) # c => next = now) /\ (Cell(r) = c => Before(r) = now)
KeepsAll(r, M, C, K, E, M2, C2, K2, E2) ==
    /\ \A s \in Slots : Keeps(r, <<"memo", s>>, M[s], M2[s])
    /\ \A p \in Pairs : Keeps(r, <<"completed", p>>, C[p], C2[p])
    /\ \A p \in Pairs : Keeps(r, <<"candidates", p>>, Member(K, p), Member(K2, p))
    /\ \A ty \in Roots : Keeps(r, <<"clean", ty>>, E[ty], E2[ty])

(* Entry e is what a lookup of p finds in the lowest d layers of L.        *)
Reads(L, d, p, e) ==
    \/ e = NoEntry /\ \A i \in 1..d : L[i][p] = NoEntry
    \/ /\ e # NoEntry
       /\ \E i \in 1..d : L[i][p] = e /\ \A j \in (i + 1)..d : L[j][p] = NoEntry

(* Lookup, of any layers.                                                  *)
Found(L, p) ==
    LET hits == {i \in DOMAIN L : L[i][p] # NoEntry}
    IN  IF hits = {} THEN NoEntry
        ELSE L[CHOOSE i \in hits : \A j \in hits : j <= i][p]

Quiet(J, m) == \A j \in DOMAIN J : m < j => ~IsReset(J[j])

(* The mark of savepoint i, and the layers below its own.                  *)
Mark(i) == IF i <= Len(savepoints) THEN savepoints[i] ELSE mark
Height(i) == Len(cache) - 1 - (Len(saved) - i)

Past(id) == id # NoIdentity => id <= graph

(* A rollback to savepoint i brings its identity back and, if that is the  *)
(* identity of now, everything that was visible there.                     *)
Kept(i) ==
    /\ Past(saved[i].identity)
    /\ Recovers(journal, Mark(i), IdentityCell, identity, saved[i].identity)
    /\ saved[i].identity = graph =>
         /\ Quiet(journal, Mark(i))
         /\ Restorable(journal, Mark(i), memo, completed, candidates, clean, saved[i])
         /\ Height(i) \in Nat
         /\ \A p \in Pairs : Reads(cache, Height(i), p, saved[i].cache[p])

(* One saved view per savepoint, the one being rolled back included.       *)
Saves ==
    /\ saved \in Seq(Seen)
    /\ Len(saved) = Len(savepoints) + (IF undoing THEN 1 ELSE 0)

(* A context is set aside only once its identity is stale.                 *)
Superseded(J) ==
    \A j \in DOMAIN J : IsReset(J[j]) => J[j].identity # graph /\ Past(J[j].identity)

TransactionInv ==
    /\ FreshInv /\ Saves /\ Past(identity) /\ Superseded(journal)
    /\ \A i \in 1..Len(saved) : Kept(i)

-----------------------------------------------------------------------------
(* Cells and the journal.                                                  *)

(* Nothing was journaled since the mark: now is then.                      *)
LEMMA RecoversEmpty ==
    ASSUME NEW J \in Seq(Undone), NEW m \in Nat, NEW c, NEW now, NEW then, Len(J) <= m
    PROVE  Recovers(J, m, c, now, then) <=> now = then
  <1>1. Len(J) \in Nat /\ DOMAIN J = 1..Len(J)
    BY SeqFacts
  <1>2. \A k \in DOMAIN J : ~(m < k)
    BY <1>1
  <1> QED
    BY <1>2 DEF Recovers, Untouched

(* A step that overwrites a cell journals what the cell held.              *)
LEMMA RecoversPush ==
    ASSUME NEW J \in Seq(Undone), NEW m \in Nat, m <= Len(J), NEW c, NEW now, NEW then,
           NEW r \in Undone, NEW next, Recovers(J, m, c, now, then), Keeps(r, c, now, next)
    PROVE  Recovers(Append(J, r), m, c, next, then)
  <1> DEFINE K == Append(J, r)
             n == Len(J)
  <1>1. n \in Nat /\ DOMAIN J = 1..n /\ DOMAIN K = 1..(n + 1) /\ Len(K) = n + 1
        /\ K[n + 1] = r /\ \A i \in 1..n : K[i] = J[i]
    BY SeqFacts, PushProperties
  <1> HIDE DEF K, n
  <1>2. ASSUME NEW j \in 1..(n + 1) PROVE Untouched(K, m, j, c) <=> Untouched(J, m, j, c)
    BY <1>1 DEF Untouched
  <1>3. Len(J) + 1 = n + 1 /\ n + 1 \in 1..(n + 1)
    BY <1>1 DEF n
  <1>4. Untouched(K, m, Len(K) + 1, c) => next = then
    <2> SUFFICES ASSUME Untouched(K, m, n + 2, c) PROVE next = then
      BY <1>1
    <2>1. Cell(K[n + 1]) # c
      BY <1>1, <1>3 DEF Untouched, n
    <2>2. Untouched(J, m, n + 1, c)
      BY <1>1 DEF Untouched
    <2> QED
      BY <1>1, <1>3, <2>1, <2>2 DEF Recovers, Keeps
  <1>5. ASSUME NEW j \in DOMAIN K, m < j, Cell(K[j]) = c, Untouched(K, m, j, c)
        PROVE  Before(K[j]) = then
    <2>1. j \in 1..(n + 1) /\ Untouched(J, m, j, c)
      BY <1>1, <1>2, <1>5
    <2>2. CASE j = n + 1
      <3>1. now = then
        BY <1>3, <2>1, <2>2 DEF Recovers
      <3> QED
        BY <1>1, <1>5, <2>2, <3>1 DEF Keeps
    <2>3. CASE j \in 1..n
      BY <1>1, <1>5, <2>1, <2>3 DEF Recovers
    <2> QED
      BY <1>1, <2>1, <2>2, <2>3
  <1> QED
    BY <1>4, <1>5 DEF Recovers, K

(* Undoing the newest record puts back what it kept.                       *)
LEMMA RecoversPop ==
    ASSUME NEW J \in Seq(Undone), NEW K \in Seq(Undone), NEW m \in Nat, m < Len(J), NEW c, NEW now, NEW then,
           Len(K) = Len(J) - 1, \A i \in 1..Len(K) : K[i] = J[i],
           NEW next, Recovers(J, m, c, now, then),
           next = IF Cell(J[Len(J)]) = c THEN Before(J[Len(J)]) ELSE now
    PROVE  Recovers(K, m, c, next, then)
  <1> DEFINE n == Len(J)
  <1>1. n \in Nat /\ n > 0 /\ DOMAIN J = 1..n /\ DOMAIN K = 1..(n - 1) /\ n \in 1..n
        /\ Len(K) = n - 1 /\ Len(K) + 1 = n
        /\ \A i \in 1..(n - 1) : K[i] = J[i] /\ i \in 1..n
    BY SeqFacts
  <1> HIDE DEF n
  <1>2. ASSUME NEW j \in 1..n PROVE Untouched(K, m, j, c) <=> Untouched(J, m, j, c)
    BY <1>1 DEF Untouched
  <1>3. Untouched(K, m, Len(K) + 1, c) => next = then
    <2> SUFFICES ASSUME Untouched(J, m, n, c) PROVE next = then
      BY <1>1, <1>2
    <2>1. CASE Cell(J[n]) = c
      BY <1>1, <2>1 DEF Recovers, n
    <2>2. CASE Cell(J[n]) # c
      <3>1. Untouched(J, m, n + 1, c)
        BY <1>1, <2>2 DEF Untouched
      <3> QED
        BY <2>2, <3>1 DEF Recovers, n
    <2> QED
      BY <2>1, <2>2
  <1>4. ASSUME NEW j \in DOMAIN K, m < j, Cell(K[j]) = c, Untouched(K, m, j, c)
        PROVE  Before(K[j]) = then
    BY <1>1, <1>2, <1>4 DEF Recovers
  <1> QED
    BY <1>3, <1>4 DEF Recovers

LEMMA RestorablePush ==
    ASSUME NEW J \in Seq(Undone), NEW m \in Nat, m <= Len(J), NEW r \in Undone,
           NEW M, NEW C, NEW K, NEW E, NEW M2, NEW C2, NEW K2, NEW E2, NEW v,
           Restorable(J, m, M, C, K, E, v), KeepsAll(r, M, C, K, E, M2, C2, K2, E2)
    PROVE  Restorable(Append(J, r), m, M2, C2, K2, E2, v)
  <1>1. ASSUME NEW s \in Slots
        PROVE  Recovers(Append(J, r), m, <<"memo", s>>, M2[s], v.memo[s])
    <2>1. Recovers(J, m, <<"memo", s>>, M[s], v.memo[s]) /\ Keeps(r, <<"memo", s>>, M[s], M2[s])
      BY DEF Restorable, KeepsAll
    <2> QED
      BY <2>1, RecoversPush
  <1>2. ASSUME NEW p \in Pairs
        PROVE  Recovers(Append(J, r), m, <<"completed", p>>, C2[p], v.completed[p])
    <2>1. /\ Recovers(J, m, <<"completed", p>>, C[p], v.completed[p])
          /\ Keeps(r, <<"completed", p>>, C[p], C2[p])
      BY DEF Restorable, KeepsAll
    <2> QED
      BY <2>1, RecoversPush
  <1>3. ASSUME NEW p \in Pairs
        PROVE  Recovers(Append(J, r), m, <<"candidates", p>>, Member(K2, p), Member(v.candidates, p))
    <2>1. /\ Recovers(J, m, <<"candidates", p>>, Member(K, p), Member(v.candidates, p))
          /\ Keeps(r, <<"candidates", p>>, Member(K, p), Member(K2, p))
      BY DEF Restorable, KeepsAll
    <2> QED
      BY <2>1, RecoversPush
  <1>4. ASSUME NEW ty \in Roots
        PROVE  Recovers(Append(J, r), m, <<"clean", ty>>, E2[ty], v.clean[ty])
    <2>1. Recovers(J, m, <<"clean", ty>>, E[ty], v.clean[ty]) /\ Keeps(r, <<"clean", ty>>, E[ty], E2[ty])
      BY DEF Restorable, KeepsAll
    <2> QED
      BY <2>1, RecoversPush
  <1> QED
    BY <1>1, <1>2, <1>3, <1>4 DEF Restorable

-----------------------------------------------------------------------------
(* Layers.                                                                 *)

(* A lookup reads the whole cache.                                         *)
LEMMA FoundReads ==
    ASSUME NEW L \in Seq(Layer), NEW p \in Pairs, NEW e
    PROVE  Reads(L, Len(L), p, e) <=> e = Found(L, p)
  <1> DEFINE n == Len(L)
             hits == {i \in DOMAIN L : L[i][p] # NoEntry}
  <1>1. n \in Nat /\ DOMAIN L = 1..n
    BY SeqFacts
  <1>2. CASE hits = {}
    <2>1. \A i \in 1..n : L[i][p] = NoEntry
      BY <1>1, <1>2
    <2>2. Found(L, p) = NoEntry
      BY <1>2 DEF Found
    <2> QED
      BY <2>1, <2>2 DEF Reads
  <1>3. CASE hits # {}
    <2>1. hits \in SUBSET (1..n)
      BY <1>1
    <2>2. \E i \in hits : \A j \in hits : j <= i
      BY <1>1, <1>3, <2>1, LastPosition
    <2> DEFINE last == CHOOSE i \in hits : \A j \in hits : j <= i
    <2>3. last \in hits /\ \A j \in hits : j <= last
      BY <2>2
    <2>4. Found(L, p) = L[last][p]
      BY <1>3 DEF Found
    <2>5. last \in 1..n /\ L[last][p] # NoEntry
      BY <1>1, <2>3
    <2>6. \A j \in 1..n : L[j][p] # NoEntry => j <= last
      BY <1>1, <2>3
    <2> HIDE DEF last, n, hits
    <2>7. \A j \in (last + 1)..n : L[j][p] = NoEntry
      <3> TAKE j \in (last + 1)..n
      <3>1. j \in 1..n /\ ~(j <= last)
        BY <1>1, <2>5
      <3> QED
        BY <2>6, <3>1
    <2>8. Reads(L, n, p, L[last][p])
      BY <2>5, <2>7 DEF Reads
    <2>9. ASSUME Reads(L, n, p, e) PROVE e = L[last][p]
      <3>1. e # NoEntry
        BY <2>5, <2>9 DEF Reads
      <3>2. PICK i \in 1..n : L[i][p] = e /\ \A j \in (i + 1)..n : L[j][p] = NoEntry
        BY <2>9, <3>1 DEF Reads
      <3>3. i <= last
        BY <2>6, <3>1, <3>2
      <3>4. i = last
        <4>1. CASE i < last
          <5>1. last \in (i + 1)..n
            BY <1>1, <2>5, <3>2, <4>1
          <5> QED
            BY <2>5, <3>2, <5>1
        <4> QED
          BY <2>5, <3>3, <4>1
      <3> QED
        BY <3>2, <3>4
    <2> QED
      BY <2>4, <2>8, <2>9 DEF n
  <1> QED
    BY <1>2, <1>3

LEMMA LookupReads ==
    ASSUME cache \in Seq(Layer), NEW p \in Pairs, NEW e
    PROVE  Reads(cache, Len(cache), p, e) <=> e = Lookup(p)
  <1>1. Lookup(p) = Found(cache, p)
    BY DEF Lookup, Found
  <1> QED
    BY <1>1, FoundReads

LEMMA NextLookupReads ==
    ASSUME cache' \in Seq(Layer), NEW p \in Pairs, NEW e
    PROVE  Reads(cache', Len(cache'), p, e) <=> e = Lookup(p)'
  <1>1. Lookup(p)' = Found(cache', p)
    BY DEF Lookup, Found
  <1> QED
    BY <1>1, FoundReads

(* Only the lowest d layers matter.                                        *)
LEMMA ReadsSame ==
    ASSUME NEW L, NEW L2, NEW d \in Nat, NEW p, NEW e, \A i \in 1..d : L2[i][p] = L[i][p]
    PROVE  Reads(L, d, p, e) <=> Reads(L2, d, p, e)
  <1>1. \A i \in 1..d : \A j \in (i + 1)..d : j \in 1..d
    OBVIOUS
  <1> QED
    BY <1>1 DEF Reads

LEMMA ReadsTop ==
    ASSUME NEW L, NEW d \in Nat \ {0}, NEW p, NEW e, L[d][p] # NoEntry
    PROVE  Reads(L, d, p, e) <=> e = L[d][p]
  <1>1. d \in 1..d /\ (d + 1)..d = {}
    OBVIOUS
  <1>2. Reads(L, d, p, L[d][p])
    BY <1>1 DEF Reads
  <1>3. ASSUME Reads(L, d, p, e) PROVE e = L[d][p]
    <2>1. e # NoEntry
      BY <1>1, <1>3 DEF Reads
    <2>2. PICK i \in 1..d : L[i][p] = e /\ \A j \in (i + 1)..d : L[j][p] = NoEntry
      BY <1>3, <2>1 DEF Reads
    <2>3. i # d => d \in (i + 1)..d
      OBVIOUS
    <2> QED
      BY <2>2, <2>3
  <1> QED
    BY <1>2, <1>3

LEMMA ReadsBelow ==
    ASSUME NEW L, NEW d \in Nat \ {0}, NEW p, NEW e, L[d][p] = NoEntry
    PROVE  Reads(L, d, p, e) <=> Reads(L, d - 1, p, e)
  <1>1. \A i \in 1..d : i \in 1..(d - 1) \/ i = d
    OBVIOUS
  <1>2. \A i \in 1..(d - 1) : i \in 1..d /\ \A j \in (i + 1)..d : j \in (i + 1)..(d - 1) \/ j = d
    OBVIOUS
  <1>3. \A i \in 1..(d - 1) : \A j \in (i + 1)..(d - 1) : j \in (i + 1)..d
    OBVIOUS
  <1>4. CASE e = NoEntry
    BY <1>1, <1>2, <1>4 DEF Reads
  <1>5. CASE e # NoEntry
    <2>1. ASSUME Reads(L, d, p, e) PROVE Reads(L, d - 1, p, e)
      <3>1. PICK i \in 1..d : L[i][p] = e /\ \A j \in (i + 1)..d : L[j][p] = NoEntry
        BY <1>5, <2>1 DEF Reads
      <3>2. i \in 1..(d - 1)
        BY <1>1, <1>5, <3>1
      <3> QED
        BY <1>3, <1>5, <3>1, <3>2 DEF Reads
    <2>2. ASSUME Reads(L, d - 1, p, e) PROVE Reads(L, d, p, e)
      <3>1. PICK i \in 1..(d - 1) : L[i][p] = e /\ \A j \in (i + 1)..(d - 1) : L[j][p] = NoEntry
        BY <1>5, <2>2 DEF Reads
      <3> QED
        BY <1>2, <1>5, <3>1 DEF Reads
    <2> QED
      BY <2>1, <2>2
  <1> QED
    BY <1>4, <1>5

(* A commit keeps every answer.                                            *)
LEMMA FoldedReads ==
    ASSUME TypeOK, Len(cache) > 1, NEW p \in Pairs, NEW e
    PROVE  Reads(Folded, Len(cache) - 1, p, e) <=> Reads(cache, Len(cache), p, e)
  <1> DEFINE n == Len(cache)
  <1>1. n \in Nat /\ n > 1 /\ n \in Nat \ {0} /\ n - 1 \in Nat \ {0}
        /\ \A i \in 1..(n - 1) : i \in 1..(n - 2) \/ i = n - 1
    <2>1. n \in Nat
      BY SeqFacts DEF TypeOK
    <2> HIDE DEF n
    <2>2. n > 1
      BY DEF n
    <2> QED
      BY <2>1, <2>2
  <1>2. /\ \A i \in 1..(n - 2) : Folded[i] = cache[i]
        /\ Folded[n - 1][p] = IF cache[n][p] # NoEntry THEN cache[n][p] ELSE cache[n - 1][p]
    BY FoldedShape
  <1> HIDE DEF n
  <1>3. CASE cache[n][p] # NoEntry
    <2>1. Reads(cache, n, p, e) <=> e = cache[n][p]
      BY <1>1, <1>3, ReadsTop
    <2>2. Folded[n - 1][p] = cache[n][p]
      BY <1>2, <1>3
    <2>3. Reads(Folded, n - 1, p, e) <=> e = Folded[n - 1][p]
      BY <1>1, <1>3, <2>2, ReadsTop
    <2> QED
      BY <2>1, <2>2, <2>3 DEF n
  <1>4. CASE cache[n][p] = NoEntry
    <2>1. Reads(cache, n, p, e) <=> Reads(cache, n - 1, p, e)
      BY <1>1, <1>4, ReadsBelow
    <2>2. \A i \in 1..(n - 1) : Folded[i][p] = cache[i][p]
      BY <1>1, <1>2, <1>4
    <2>3. Reads(cache, n - 1, p, e) <=> Reads(Folded, n - 1, p, e)
      BY <1>1, <2>2, ReadsSame
    <2> QED
      BY <2>1, <2>3 DEF n
  <1> QED
    BY <1>3, <1>4

-----------------------------------------------------------------------------
(* The invariant, action by action.                                        *)

LEMMA InvFacts ==
    ASSUME TransactionInv
    PROVE  /\ FreshInv /\ LayerInv /\ TypeOK /\ LayersSuffice /\ Grounded /\ QueryCurrent /\ Saves
           /\ Past(identity) /\ Superseded(journal)
           /\ saved \in Seq(Seen) /\ Len(saved) \in Nat /\ DOMAIN saved = 1..Len(saved)
           /\ \A i \in 1..Len(saved) : saved[i] \in Seen /\ Kept(i)
           /\ journal \in Seq(Undone) /\ cache \in Seq(Layer)
           /\ Len(journal) \in Nat /\ Len(cache) \in Nat /\ Len(savepoints) \in Nat
           /\ DOMAIN journal = 1..Len(journal) /\ graph \in Nat /\ mark \in Nat
           /\ undoing \in BOOLEAN
           /\ NoIdentity \notin Nat
  BY SeqFacts, BoundAssumption DEF TransactionInv, FreshInv, LayerInv, Saves, TypeOK

(* A mark lies within the journal, and a rollback in progress stops there  *)
(* or above.                                                               *)
LEMMA MarkFacts ==
    ASSUME TransactionInv, NEW i \in 1..Len(saved)
    PROVE  Mark(i) \in Nat /\ Mark(i) <= Len(journal) /\ (undoing => Mark(i) <= mark)
  <1>1. CASE i <= Len(savepoints)
    <2>1. i \in DOMAIN savepoints /\ savepoints[i] \in Nat
      BY <1>1, InvFacts, Lengths
    <2> QED
      BY <1>1, <2>1, InvFacts DEF Mark, LayersSuffice
  <1>2. CASE ~(i <= Len(savepoints))
    <2>1. undoing
      <3>1. CASE ~undoing
        <4>1. Len(saved) = Len(savepoints)
          BY <3>1, InvFacts DEF Saves
        <4> QED
          BY <1>2, <4>1, InvFacts
      <3> QED
        BY <3>1
    <2>2. mark \in Nat /\ mark <= Len(journal)
      BY <2>1, InvFacts DEF LayersSuffice
    <2> QED
      BY <1>2, <2>1, <2>2 DEF Mark
  <1> QED
    BY <1>1, <1>2

(* Steps that do not write leave a kept view as it is.                     *)
LEMMA KeptSame ==
    ASSUME NEW i, Kept(i), UNCHANGED <<memo, completed, candidates, clean, identity, journal, graph>>,
           saved'[i] = saved[i], Mark(i)' = Mark(i), Height(i)' = Height(i),
           Height(i) \in Nat => \A k \in 1..Height(i) : cache'[k] = cache[k]
    PROVE  Kept(i)'
  <1>1. Past(saved[i].identity)'
    BY DEF Kept, Past
  <1>2. Recovers(journal, Mark(i), IdentityCell, identity, saved[i].identity)'
    BY DEF Kept
  <1>3. ASSUME saved'[i].identity = graph'
        PROVE  /\ Quiet(journal', Mark(i)')
               /\ Restorable(journal', Mark(i)', memo', completed', candidates', clean', saved'[i])
               /\ Height(i)' \in Nat
               /\ \A p \in Pairs : Reads(cache', Height(i)', p, saved'[i].cache[p])
    <2>1. /\ Quiet(journal, Mark(i))
          /\ Restorable(journal, Mark(i), memo, completed, candidates, clean, saved[i])
          /\ Height(i) \in Nat
          /\ \A p \in Pairs : Reads(cache, Height(i), p, saved[i].cache[p])
      BY <1>3 DEF Kept
    <2>2. \A p \in Pairs : Reads(cache', Height(i), p, saved[i].cache[p])
      BY <2>1, ReadsSame
    <2> QED
      BY <2>1, <2>2
  <1> QED
    BY <1>1, <1>2, <1>3 DEF Kept

(* What one action owes the invariant.                                     *)
LEMMA InvBy ==
    ASSUME FreshInv', Saves', Past(identity)', Superseded(journal)',
           \A i \in 1..Len(saved') : Kept(i)'
    PROVE  TransactionInv'
  BY DEF TransactionInv

(* When the graph moves on, everything saved is stale.                     *)
LEMMA KeepMutateGraph ==
    ASSUME TransactionInv, MutateGraph
    PROVE  TransactionInv'
  <1>1. /\ graph' = graph + 1
        /\ UNCHANGED <<memo, completed, candidates, clean, cache, identity, journal>>
        /\ UNCHANGED <<savepoints, undoing, mark, saved>>
    BY DEF MutateGraph, context, layerVars
  <1>2. FreshInv'
    BY InvFacts, FreshIdle
  <1>3. ASSUME NEW id \in Nat \cup {NoIdentity}, Past(id) PROVE Past(id)' /\ id # graph'
    BY <1>1, <1>3, InvFacts DEF Past
  <1>4. Past(identity)'
    <2>1. identity \in Nat \cup {NoIdentity}
      BY InvFacts DEF TypeOK
    <2> QED
      BY <1>1, <1>3, <2>1, InvFacts DEF Past
  <1>5. Superseded(journal)'
    <2> SUFFICES ASSUME NEW j \in DOMAIN journal, IsReset(journal[j])
                 PROVE  journal[j].identity # graph' /\ Past(journal[j].identity)'
      BY <1>1 DEF Superseded, Past
    <2>1. journal[j].identity \in Nat \cup {NoIdentity} /\ Past(journal[j].identity)
      BY InvFacts, UndoneFields DEF Superseded, IsReset
    <2> QED
      BY <1>1, <2>1, InvFacts DEF Past
  <1>6. ASSUME NEW i \in 1..Len(saved') PROVE Kept(i)'
    <2>1. i \in 1..Len(saved) /\ Kept(i) /\ saved[i].identity \in Nat \cup {NoIdentity}
      BY <1>1, InvFacts DEF Seen
    <2>2. Past(saved[i].identity)
      BY <2>1 DEF Kept
    <2>3. Past(saved[i].identity)' /\ saved[i].identity # graph'
      BY <1>1, <2>1, <2>2, InvFacts DEF Past
    <2>4. Mark(i)' = Mark(i)
      BY <1>1 DEF Mark
    <2> QED
      BY <1>1, <2>1, <2>3, <2>4 DEF Kept
  <1> QED
    BY <1>1, <1>2, <1>4, <1>5, <1>6, InvFacts, InvBy DEF Saves

LEMMA KeepChangeSetting ==
    ASSUME TransactionInv, NEW value \in Settings, ChangeSetting(value)
    PROVE  TransactionInv'
  <1>1. /\ journal' = <<>> /\ identity' = NoIdentity
        /\ UNCHANGED <<savepoints, undoing, mark, saved, graph>> /\ ~undoing /\ savepoints = <<>>
    BY DEF ChangeSetting, Between, Speculative, layerVars
  <1>2. FreshInv'
    BY InvFacts, FreshChangeSetting
  <1>3. Len(saved) = 0
    BY <1>1, InvFacts, Lengths DEF Saves
  <1>4. Saves' /\ Past(identity)' /\ Superseded(journal)'
    BY <1>1, InvFacts DEF Saves, Past, Superseded
  <1> QED
    BY <1>1, <1>2, <1>3, <1>4, InvBy

(* Opening a savepoint saves what is visible.                              *)
LEMMA VisibleSeen ==
    ASSUME TypeOK
    PROVE  Visible \in Seen
  <1>1. /\ memo \in [Slots -> Entry] /\ completed \in Layer /\ candidates \in SUBSET Pairs
        /\ clean \in [Roots -> Entry] /\ cache \in Seq(Layer) /\ identity \in Nat \cup {NoIdentity}
        /\ Len(cache) \in Nat
    BY SeqFacts DEF TypeOK
  <1>2. ASSUME NEW p \in Pairs PROVE Lookup(p) \in Entry
    <2>1. Reads(cache, Len(cache), p, Lookup(p))
      BY <1>1, LookupReads
    <2>2. CASE Lookup(p) = NoEntry
      BY <2>2 DEF Entry
    <2>3. CASE Lookup(p) # NoEntry
      <3>1. PICK i \in 1..Len(cache) : cache[i][p] = Lookup(p)
        BY <2>1, <2>3 DEF Reads
      <3>2. cache[i] \in Layer
        BY <1>1, SeqFacts
      <3> QED
        BY <3>1, <3>2 DEF Layer
    <2> QED
      BY <2>2, <2>3
  <1>3. [p \in Pairs |-> Lookup(p)] \in Layer
    BY <1>2 DEF Layer
  <1> QED
    BY <1>1, <1>3 DEF Visible, Seen

LEMMA KeepSavepoint ==
    ASSUME TransactionInv, Savepoint
    PROVE  TransactionInv'
  <1>0. PICK n \in Nat : n = Len(saved)
    BY InvFacts
  <1>1. /\ savepoints' = Append(savepoints, Len(journal)) /\ cache' = Append(cache, EmptyLayer)
        /\ saved' = Append(saved, Visible)
        /\ UNCHANGED <<memo, completed, candidates, clean, identity, journal, undoing, mark, graph>>
        /\ ~undoing
    BY DEF Savepoint, Between, worldVars
  <1>2. FreshInv'
    BY InvFacts, FreshSavepoint
  <1>3. n \in Nat /\ n = Len(savepoints) /\ Visible \in Seen /\ Len(journal) \in Nat
        /\ savepoints \in Seq(Nat)
    BY <1>0, <1>1, InvFacts, VisibleSeen DEF Saves, TypeOK
  <1>4. /\ saved' \in Seq(Seen) /\ Len(saved') = n + 1 /\ saved'[n + 1] = Visible
        /\ \A i \in 1..n : saved'[i] = saved[i]
    BY <1>0, <1>1, <1>3, InvFacts, PushProperties
  <1>5. /\ Len(savepoints') = n + 1 /\ savepoints'[n + 1] = Len(journal)
        /\ \A i \in 1..n : savepoints'[i] = savepoints[i]
    BY <1>1, <1>3, PushProperties
  <1>6. /\ Len(cache') = Len(cache) + 1 /\ \A k \in 1..Len(cache) : cache'[k] = cache[k]
    BY <1>1, InvFacts, EmptyTypes, PushProperties
  <1>7. Saves' /\ Past(identity)' /\ Superseded(journal)'
    BY <1>1, <1>3, <1>4, <1>5, InvFacts DEF Saves, Past, Superseded
  <1>8. ASSUME NEW i \in 1..n PROVE Kept(i)'
    <2>1. Kept(i) /\ saved'[i] = saved[i] /\ i <= Len(savepoints) /\ i <= Len(savepoints')
      BY <1>3, <1>4, <1>5, InvFacts, <1>0
    <2>2. Mark(i)' = Mark(i)
      BY <1>5, <2>1 DEF Mark
    <2>3. Height(i)' = Height(i) /\ \A k \in 1..Height(i) : k \in 1..Len(cache)
      BY <1>3, <1>4, <1>6, InvFacts, <1>0 DEF Height
    <2> QED
      BY <1>1, <1>6, <2>1, <2>2, <2>3, KeptSame
  <1>9. Kept(n + 1)'
    <2>1. Mark(n + 1)' = Len(journal)
      BY <1>3, <1>5 DEF Mark
    <2>2. Height(n + 1)' = Len(cache)
      BY <1>3, <1>4, <1>6, InvFacts DEF Height
    <2>3. Past(saved[n + 1].identity)'
      BY <1>1, <1>4, InvFacts DEF Past, Visible
    <2>4. \A c, now, then : now = then => Recovers(journal, Len(journal), c, now, then)
      BY InvFacts, RecoversEmpty
    <2>5. Recovers(journal', Mark(n + 1)', IdentityCell, identity', saved'[n + 1].identity)
      BY <1>1, <1>4, <2>1, <2>4 DEF Visible
    <2>6. Quiet(journal', Mark(n + 1)')
      BY <1>1, <2>1, InvFacts DEF Quiet
    <2>7. Restorable(journal', Mark(n + 1)', memo', completed', candidates', clean', saved'[n + 1])
      BY <1>1, <1>4, <2>1, <2>4 DEF Visible, Restorable
    <2>8. ASSUME NEW p \in Pairs PROVE Reads(cache', Height(n + 1)', p, saved'[n + 1].cache[p])
      <3>1. Reads(cache, Len(cache), p, Lookup(p))
        BY InvFacts, LookupReads
      <3>2. saved'[n + 1].cache[p] = Lookup(p)
        BY <1>4 DEF Visible
      <3>3. Len(cache) \in Nat
        BY InvFacts
      <3>4. \A k \in 1..Len(cache) : cache'[k][p] = cache[k][p]
        BY <1>6
      <3>5. Reads(cache', Len(cache), p, Lookup(p))
        BY <3>1, <3>3, <3>4, ReadsSame
      <3> QED
        BY <2>2, <3>2, <3>5
    <2> QED
      BY <2>2, <2>3, <2>5, <2>6, <2>7, <2>8, InvFacts DEF Kept
  <1>10. ASSUME NEW i \in 1..Len(saved') PROVE Kept(i)'
    <2>1. i \in 1..n \/ i = n + 1
      BY <1>0, <1>4
    <2> QED
      BY <1>8, <1>9, <2>1
  <1> QED
    BY <1>2, <1>7, <1>10, InvBy

(* A commit folds the innermost layer, above every other savepoint's.      *)
LEMMA KeepCommit ==
    ASSUME TransactionInv, Commit
    PROVE  TransactionInv'
  <1>0. PICK n \in Nat : n = Len(saved)
    BY InvFacts
  <1>1. /\ savepoints' = SubSeq(savepoints, 1, Len(savepoints) - 1) /\ cache' = Folded
        /\ saved' = SubSeq(saved, 1, Len(saved) - 1)
        /\ journal' = (IF Len(savepoints) = 1 THEN <<>> ELSE journal)
        /\ UNCHANGED <<memo, completed, candidates, clean, identity, undoing, mark, graph>>
        /\ ~undoing /\ Speculative
    BY DEF Commit, Between, worldVars
  <1>2. FreshInv'
    BY InvFacts, FreshCommit
  <1>3. n = Len(savepoints) /\ n > 0 /\ saved # <<>>
    <2>1. n = Len(savepoints) /\ savepoints # <<>>
      BY <1>0, <1>1, InvFacts DEF Saves, Speculative
    <2> QED
      BY <1>0, <2>1, InvFacts, Lengths, SeqFacts
  <1>4. /\ saved' \in Seq(Seen) /\ Len(saved') = n - 1
        /\ \A i \in 1..(n - 1) : saved'[i] = saved[i]
    BY <1>0, <1>1, <1>3, InvFacts, PopProperties
  <1>5. /\ Len(savepoints') = n - 1 /\ \A i \in 1..(n - 1) : savepoints'[i] = savepoints[i]
    BY <1>1, <1>3, InvFacts, PoppedMarks
  <1>6. Len(cache) > 1
    BY <1>3, InvFacts DEF LayersSuffice
  <1>7. Len(cache') = Len(cache) - 1 /\ \A k \in 1..(Len(cache) - 2) : cache'[k] = cache[k]
    BY <1>1, <1>6, InvFacts, FoldedShape, FoldedType
  <1>8. Saves' /\ Past(identity)' /\ Superseded(journal)'
    BY <1>1, <1>3, <1>4, <1>5, InvFacts DEF Saves, Past, Superseded
  <1>9. ASSUME NEW i \in 1..(n - 1) PROVE Kept(i)'
    <2>1. Kept(i) /\ saved'[i] = saved[i] /\ i <= Len(savepoints) /\ i <= Len(savepoints')
      BY <1>0, <1>3, <1>4, <1>5, InvFacts
    <2>2. Mark(i)' = Mark(i)
      BY <1>5, <2>1 DEF Mark
    <2>3. Height(i)' = Height(i) /\ \A k \in 1..Height(i) : k \in 1..(Len(cache) - 2)
      BY <1>0, <1>3, <1>4, <1>7, InvFacts DEF Height
    <2>4. journal' = journal
      BY <1>1, <1>3
    <2> QED
      BY <1>1, <1>7, <2>1, <2>2, <2>3, <2>4, KeptSame
  <1> QED
    BY <1>2, <1>4, <1>8, <1>9, InvBy

LEMMA KeepBeginRollback ==
    ASSUME TransactionInv, BeginRollback
    PROVE  TransactionInv'
  <1>0. PICK n \in Nat : n = Len(saved)
    BY InvFacts
  <1>1. /\ savepoints' = SubSeq(savepoints, 1, Len(savepoints) - 1)
        /\ mark' = savepoints[Len(savepoints)] /\ undoing' = TRUE
        /\ UNCHANGED <<memo, completed, candidates, clean, cache, identity, journal, saved, graph>>
        /\ ~undoing /\ Speculative
    BY DEF BeginRollback, Between, worldVars, context
  <1>2. FreshInv'
    BY InvFacts, FreshIdle
  <1>3. n = Len(savepoints) /\ n > 0
    <2>1. n = Len(savepoints) /\ savepoints # <<>>
      BY <1>0, <1>1, InvFacts DEF Saves, Speculative
    <2> QED
      BY <1>0, <2>1, InvFacts, Lengths
  <1>4. /\ Len(savepoints') = n - 1 /\ \A i \in 1..(n - 1) : savepoints'[i] = savepoints[i]
    BY <1>1, <1>3, InvFacts, PoppedMarks
  <1>5. Saves' /\ Past(identity)' /\ Superseded(journal)'
    BY <1>0, <1>1, <1>3, <1>4, InvFacts DEF Saves, Past, Superseded
  <1>6. ASSUME NEW i \in 1..Len(saved') PROVE Kept(i)'
    <2>1. Kept(i) /\ i \in 1..n
      BY <1>0, <1>1, InvFacts
    <2>2. Mark(i)' = Mark(i)
      <3>1. CASE i = n
        <4>1. ~(i <= Len(savepoints')) /\ i <= Len(savepoints)
          BY <1>3, <1>4, <3>1
        <4> QED
          BY <1>1, <1>3, <3>1, <4>1 DEF Mark
      <3>2. CASE i # n
        <4>1. i <= Len(savepoints') /\ i <= Len(savepoints) /\ i \in 1..(n - 1)
          BY <1>3, <1>4, <2>1, <3>2
        <4> QED
          BY <1>4, <4>1 DEF Mark
      <3> QED
        BY <3>1, <3>2
    <2>3. Height(i)' = Height(i)
      BY <1>1 DEF Height
    <2> QED
      BY <1>1, <2>1, <2>2, <2>3, KeptSame
  <1> QED
    BY <1>2, <1>5, <1>6, InvBy

(* The layer that was opened for the savepoint goes last.                  *)
LEMMA KeepEndRollback ==
    ASSUME TransactionInv, EndRollback
    PROVE  TransactionInv'
  <1>0. PICK n \in Nat : n = Len(saved)
    BY InvFacts
  <1>1. /\ cache' = SubSeq(cache, 1, Len(cache) - 1) /\ saved' = SubSeq(saved, 1, Len(saved) - 1)
        /\ undoing' = FALSE /\ undoing /\ Len(journal) <= mark
        /\ UNCHANGED <<memo, completed, candidates, clean, identity, journal, savepoints, graph>>
    BY DEF EndRollback, worldVars
  <1>2. FreshInv'
    BY InvFacts, FreshEndRollback
  <1>3. n = Len(savepoints) + 1 /\ saved # <<>> /\ cache # <<>>
    <2>1. n = Len(savepoints) + 1
      BY <1>0, <1>1, InvFacts DEF Saves
    <2> QED
      BY <1>0, <2>1, InvFacts, SeqFacts DEF TypeOK
  <1>4. /\ saved' \in Seq(Seen) /\ Len(saved') = n - 1
        /\ \A i \in 1..(n - 1) : saved'[i] = saved[i]
    BY <1>0, <1>1, <1>3, InvFacts, PopProperties
  <1>5. Len(cache') = Len(cache) - 1 /\ \A k \in 1..(Len(cache) - 1) : cache'[k] = cache[k]
    BY <1>1, <1>3, InvFacts, PopProperties
  <1>6. Saves' /\ Past(identity)' /\ Superseded(journal)'
    BY <1>1, <1>3, <1>4, InvFacts DEF Saves, Past, Superseded
  <1>7. ASSUME NEW i \in 1..(n - 1) PROVE Kept(i)'
    <2>1. Kept(i) /\ saved'[i] = saved[i] /\ i <= Len(savepoints)
      BY <1>0, <1>3, <1>4, InvFacts
    <2>2. Mark(i)' = Mark(i)
      BY <1>1, <2>1 DEF Mark
    <2>3. Height(i)' = Height(i) /\ \A k \in 1..Height(i) : k \in 1..(Len(cache) - 1)
      BY <1>0, <1>3, <1>4, <1>5, InvFacts DEF Height
    <2> QED
      BY <1>1, <1>5, <2>1, <2>2, <2>3, KeptSame
  <1> QED
    BY <1>2, <1>4, <1>6, <1>7, InvBy

(* Which record is about which cell.                                       *)
LEMMA CellFacts ==
    ASSUME NEW r \in Undone
    PROVE  /\ IsReset(r) <=> Cell(r) = IdentityCell
           /\ \A s \in Slots : Cell(r) = <<"memo", s>> <=> r.kind = "memo" /\ r.key = s
           /\ \A p \in Pairs : Cell(r) = <<"completed", p>> <=> r.kind = "completed" /\ r.key = p
           /\ \A p \in Pairs : Cell(r) = <<"candidates", p>> <=>
                r.kind \in {"inserted", "removed"} /\ r.key = p
           /\ \A ty \in Roots : Cell(r) = <<"clean", ty>> <=> r.kind = "clean" /\ r.key = ty
  <1>1. r.kind \in {"memo", "completed", "inserted", "removed", "clean", "reset"}
    BY UndoneFields
  <1> QED
    BY <1>1 DEF Cell, IdentityCell, IsReset

(* Without a reset since, the identity is the one that was saved.          *)
LEMMA QuietIdentity ==
    ASSUME TransactionInv, NEW i \in 1..Len(saved), Quiet(journal, Mark(i))
    PROVE  identity = saved[i].identity
  <1>1. \A j \in DOMAIN journal : Mark(i) < j => Cell(journal[j]) # IdentityCell
    BY InvFacts, CellFacts DEF Quiet
  <1>2. Untouched(journal, Mark(i), Len(journal) + 1, IdentityCell)
    BY <1>1 DEF Untouched
  <1>3. Recovers(journal, Mark(i), IdentityCell, identity, saved[i].identity)
    BY InvFacts DEF Kept
  <1> QED
    BY <1>2, <1>3 DEF Recovers

LEMMA KeepUndo ==
    ASSUME TransactionInv, Undo
    PROVE  TransactionInv'
  <1> DEFINE r == journal[Len(journal)]
  <1>1. /\ undoing /\ Len(journal) > mark
        /\ IF r.kind = "reset" THEN UndoReset(r) ELSE UndoEntry(r)
        /\ journal' = SubSeq(journal, 1, Len(journal) - 1)
        /\ UNCHANGED <<savepoints, undoing, mark, saved, graph>>
    BY DEF Undo, layerVars, worldVars
  <1>2. FreshInv'
    BY InvFacts, FreshUndo
  <1>3. /\ journal' \in Seq(Undone) /\ Len(journal') = Len(journal) - 1
        /\ DOMAIN journal' = 1..(Len(journal) - 1) /\ Len(journal) \in DOMAIN journal
        /\ \A j \in DOMAIN journal' : j \in DOMAIN journal /\ journal'[j] = journal[j]
        /\ r \in Undone
    <2>1. Len(journal) > 0
      BY <1>1, InvFacts
    <2> QED
      BY <1>1, <2>1, InvFacts, PoppedJournal
  <1>4. \A j \in 1..Len(journal') : journal'[j] = journal[j]
    BY <1>3
  <1>5. identity' = IF Cell(r) = IdentityCell THEN Before(r) ELSE identity
    <2>1. CASE r.kind = "reset"
      BY <1>1, <1>3, <2>1, CellFacts DEF UndoReset, Before, IsReset
    <2>2. CASE r.kind # "reset"
      BY <1>1, <1>3, <2>2, CellFacts DEF UndoEntry, IsReset
    <2> QED
      BY <2>1, <2>2
  <1>6. Past(identity)'
    <2>1. CASE r.kind = "reset"
      <3>1. Past(r.identity) /\ identity' = r.identity
        BY <1>1, <1>3, <2>1, InvFacts DEF Superseded, IsReset, UndoReset
      <3> QED
        BY <1>1, <3>1 DEF Past
    <2>2. CASE r.kind # "reset"
      BY <1>1, <2>2, InvFacts DEF UndoEntry, Past
    <2> QED
      BY <2>1, <2>2
  <1>7. Superseded(journal)' /\ Saves'
    BY <1>1, <1>3, InvFacts DEF Superseded, Past, Saves
  <1> HIDE DEF r
  <1>8. ASSUME NEW i \in 1..Len(saved') PROVE Kept(i)'
    <2>0. PICK m \in Nat : m = Mark(i)
      BY <1>1, MarkFacts
    <2>1. i \in 1..Len(saved) /\ Kept(i) /\ Mark(i)' = m /\ m < Len(journal)
      BY <1>1, <2>0, InvFacts, MarkFacts DEF Mark
    <2>2. Past(saved[i].identity)'
      BY <1>1, <2>1 DEF Kept, Past
    <2>3. ASSUME NEW c, NEW now, NEW then, NEW next, Recovers(journal, m, c, now, then),
                 next = IF Cell(r) = c THEN Before(r) ELSE now
          PROVE  Recovers(journal', m, c, next, then)
      BY <1>3, <1>4, <2>1, <2>3, InvFacts, RecoversPop DEF r
    <2>4. Recovers(journal', m, IdentityCell, identity', saved[i].identity)
      BY <1>5, <2>0, <2>1, <2>3 DEF Kept
    <2>5. ASSUME saved[i].identity = graph
          PROVE  /\ Quiet(journal', m)
                 /\ Restorable(journal', m, memo', completed', candidates', clean', saved[i])
                 /\ Height(i)' \in Nat
                 /\ \A p \in Pairs : Reads(cache', Height(i)', p, saved[i].cache[p])
      <3>1. /\ Quiet(journal, m) /\ Restorable(journal, m, memo, completed, candidates, clean, saved[i])
            /\ Height(i) \in Nat /\ \A p \in Pairs : Reads(cache, Height(i), p, saved[i].cache[p])
        BY <2>0, <2>1, <2>5 DEF Kept
      <3>2. r.kind # "reset" /\ UndoEntry(r)
        BY <1>1, <1>3, <2>1, <3>1 DEF Quiet, IsReset, r
      <3>3. Quiet(journal', m)
        BY <1>3, <3>1 DEF Quiet
      <3>4. cache' = cache /\ Height(i)' = Height(i)
        BY <1>1, <3>2 DEF UndoEntry, Height
      <3>5. /\ memo \in [Slots -> Entry] /\ completed \in [Pairs -> Entry] /\ clean \in [Roots -> Entry]
            /\ r.kind \in {"memo", "completed", "inserted", "removed", "clean"}
        BY <1>3, <3>2, InvFacts, UndoneFields DEF TypeOK, Layer
      <3>6. ASSUME NEW s \in Slots
            PROVE  memo'[s] = IF Cell(r) = <<"memo", s>> THEN Before(r) ELSE memo[s]
        BY <1>3, <3>2, <3>5, CellFacts DEF UndoEntry, Before
      <3>7. ASSUME NEW p \in Pairs
            PROVE  completed'[p] = IF Cell(r) = <<"completed", p>> THEN Before(r) ELSE completed[p]
        BY <1>3, <3>2, <3>5, CellFacts DEF UndoEntry, Before
      <3>8. ASSUME NEW p \in Pairs
            PROVE  Member(candidates', p) =
                     IF Cell(r) = <<"candidates", p>> THEN Before(r) ELSE Member(candidates, p)
        <4>1. CASE r.kind = "inserted"
          BY <1>3, <3>2, <4>1, CellFacts DEF UndoEntry, Before, Member
        <4>2. CASE r.kind = "removed"
          BY <1>3, <3>2, <4>2, CellFacts DEF UndoEntry, Before, Member
        <4>3. CASE r.kind \notin {"inserted", "removed"}
          <5>1. candidates' = candidates /\ Cell(r) # <<"candidates", p>>
            BY <1>3, <3>2, <4>3, CellFacts DEF UndoEntry
          <5> QED
            BY <5>1
        <4> QED
          BY <4>1, <4>2, <4>3
      <3>9. ASSUME NEW ty \in Roots
            PROVE  clean'[ty] = IF Cell(r) = <<"clean", ty>> THEN Before(r) ELSE clean[ty]
        BY <1>3, <3>2, <3>5, CellFacts DEF UndoEntry, Before
      <3>10. Restorable(journal', m, memo', completed', candidates', clean', saved[i])
        BY <2>3, <3>1, <3>6, <3>7, <3>8, <3>9 DEF Restorable
      <3> QED
        BY <3>1, <3>3, <3>4, <3>10
    <2> QED
      BY <1>1, <2>1, <2>2, <2>4, <2>5 DEF Kept
  <1> QED
    BY <1>2, <1>6, <1>7, <1>8, InvBy

(* A reset finds nothing saved that is still current.                      *)
LEMMA KeepOpenQuery ==
    ASSUME TransactionInv, OpenQuery
    PROVE  TransactionInv'
  <1>1. /\ IF identity # graph THEN Reset ELSE UNCHANGED <<context, journal>>
        /\ UNCHANGED <<savepoints, undoing, mark, saved, graph>> /\ ~undoing
    BY DEF OpenQuery, layerVars, Between
  <1>2. FreshInv' /\ Saves'
    BY <1>1, InvFacts, FreshOpenQuery DEF Saves
  <1>3. CASE identity = graph
    <2>1. UNCHANGED <<memo, completed, candidates, clean, cache, identity, journal>>
      BY <1>1, <1>3 DEF context
    <2>2. ASSUME NEW i \in 1..Len(saved') PROVE Kept(i)'
      <3>1. Kept(i) /\ Mark(i)' = Mark(i) /\ Height(i)' = Height(i)
        BY <1>1, <2>1, InvFacts DEF Mark, Height
      <3> QED
        BY <1>1, <2>1, <3>1, KeptSame
    <2>3. Past(identity)' /\ Superseded(journal)'
      BY <1>1, <2>1, InvFacts DEF Past, Superseded
    <2> QED
      BY <1>2, <2>2, <2>3, InvBy
  <1>4. CASE identity # graph
    <2> DEFINE r == [kind |-> "reset", memo |-> memo, completed |-> completed,
                     candidates |-> candidates, clean |-> clean, cache |-> cache,
                     identity |-> identity]
    <2>1. identity' = graph /\ journal' = IF Speculative THEN Append(journal, r) ELSE journal
      BY <1>1, <1>4 DEF Reset, Record
    <2>2. r \in Undone /\ IsReset(r) /\ r.identity = identity
      BY InvFacts, RecordTypes DEF IsReset
    <2> HIDE DEF r
    <2>3. Past(identity)'
      <3>1. identity' = graph /\ graph' = graph /\ graph \in Nat
        BY <1>1, <2>1, InvFacts
      <3>2. graph <= graph
        BY <3>1
      <3> QED
        BY <3>1, <3>2 DEF Past
    <2>4. CASE ~Speculative
      <3>1. journal' = journal /\ Len(saved) = 0
        BY <1>1, <2>1, <2>4, InvFacts, Lengths DEF Speculative, Saves
      <3>2. Superseded(journal)'
        BY <1>1, <3>1, InvFacts DEF Superseded, Past
      <3>3. 1..Len(saved') = {}
        BY <1>1, <3>1
      <3> QED
        BY <1>2, <2>3, <3>2, <3>3, InvBy
    <2>5. CASE Speculative
      <3>1. journal' = Append(journal, r)
        BY <2>1, <2>5
      <3>2. /\ DOMAIN journal' = 1..(Len(journal) + 1) /\ journal'[Len(journal) + 1] = r
            /\ \A j \in 1..Len(journal) : journal'[j] = journal[j]
        BY <2>2, <3>1, InvFacts, PushProperties
      <3>3. Superseded(journal)'
        <4> SUFFICES ASSUME NEW j \in DOMAIN journal', IsReset(journal'[j])
                     PROVE  journal'[j].identity # graph /\ Past(journal'[j].identity)
          BY <1>1 DEF Superseded, Past
        <4>1. j \in 1..Len(journal) \/ j = Len(journal) + 1
          BY <3>2, InvFacts
        <4>2. CASE j \in 1..Len(journal)
          BY <3>2, <4>2, InvFacts DEF Superseded
        <4>3. CASE j = Len(journal) + 1
          BY <1>4, <2>2, <3>2, <4>3, InvFacts
        <4> QED
          BY <4>1, <4>2, <4>3
      <3>4. ASSUME NEW i \in 1..Len(saved') PROVE Kept(i)'
        <4>1. i \in 1..Len(saved) /\ Kept(i) /\ Mark(i)' = Mark(i)
          BY <1>1, InvFacts DEF Mark
        <4>2. Past(saved[i].identity)'
          BY <1>1, <4>1 DEF Kept, Past
        <4>3. Keeps(r, IdentityCell, identity, graph)
          BY <2>2, CellFacts DEF Keeps, Before, IsReset
        <4>4. Recovers(journal', Mark(i), IdentityCell, graph, saved[i].identity)
          BY <2>2, <3>1, <4>1, <4>3, InvFacts, MarkFacts, RecoversPush DEF Kept
        <4>5. saved[i].identity # graph
          BY <1>4, <4>1, QuietIdentity DEF Kept
        <4> QED
          BY <1>1, <2>1, <4>1, <4>2, <4>4, <4>5 DEF Kept
      <3> QED
        BY <1>2, <2>3, <3>3, <3>4, InvBy
    <2> QED
      BY <2>4, <2>5
  <1> QED
    BY <1>3, <1>4

LEMMA KeepCloseQuery ==
    ASSUME TransactionInv, CloseQuery
    PROVE  TransactionInv'
  <1>1. /\ UNCHANGED <<memo, completed, candidates, clean, cache, identity, journal>>
        /\ UNCHANGED <<savepoints, undoing, mark, saved, graph>>
    BY DEF CloseQuery, context, layerVars
  <1>2. FreshInv'
    BY InvFacts, FreshIdle
  <1>3. Past(identity)' /\ Superseded(journal)' /\ Saves'
    BY <1>1, InvFacts DEF Past, Superseded, Saves
  <1>4. ASSUME NEW i \in 1..Len(saved') PROVE Kept(i)'
    <2>1. Kept(i) /\ Mark(i)' = Mark(i) /\ Height(i)' = Height(i)
      BY <1>1, InvFacts DEF Mark, Height
    <2> QED
      BY <1>1, <2>1, KeptSame
  <1> QED
    BY <1>2, <1>3, <1>4, InvBy

(* One more record, not a reset, leaves the identity alone.                *)
LEMMA EntryPush ==
    ASSUME NEW J \in Seq(Undone), NEW r \in Undone, ~IsReset(r)
    PROVE  /\ Append(J, r) \in Seq(Undone) /\ Len(Append(J, r)) = Len(J) + 1
           /\ Superseded(J) => Superseded(Append(J, r))
           /\ \A m \in Nat : Quiet(J, m) => Quiet(Append(J, r), m)
           /\ \A m \in Nat : \A id, then : m <= Len(J) /\ Recovers(J, m, IdentityCell, id, then) =>
                Recovers(Append(J, r), m, IdentityCell, id, then)
  <1> DEFINE K == Append(J, r)
  <1>1. /\ Len(J) \in Nat /\ DOMAIN J = 1..Len(J) /\ DOMAIN K = 1..(Len(J) + 1)
        /\ K[Len(J) + 1] = r /\ (\A j \in 1..Len(J) : K[j] = J[j])
        /\ K \in Seq(Undone) /\ Len(K) = Len(J) + 1
    BY SeqFacts, PushProperties
  <1> HIDE DEF K
  <1>2. \A j \in DOMAIN K : IsReset(K[j]) => j \in DOMAIN J /\ K[j] = J[j]
    BY <1>1
  <1>3. Superseded(J) => Superseded(K)
    BY <1>2 DEF Superseded
  <1>4. \A m \in Nat : Quiet(J, m) => Quiet(K, m)
    BY <1>2 DEF Quiet
  <1>5. \A id : Keeps(r, IdentityCell, id, id)
    BY CellFacts DEF Keeps
  <1> QED
    BY <1>1, <1>3, <1>4, <1>5, RecoversPush DEF K

(* A step that journals what it overwrites.                                *)
LEMMA KeepJournal ==
    ASSUME TransactionInv, FreshInv',
           UNCHANGED <<identity, graph, savepoints, undoing, mark, saved, cache>>,
           Superseded(journal'),
           \A i \in 1..Len(saved) :
             /\ Quiet(journal, Mark(i)) => Quiet(journal', Mark(i))
             /\ \A id, then : Recovers(journal, Mark(i), IdentityCell, id, then) =>
                  Recovers(journal', Mark(i), IdentityCell, id, then)
             /\ \A v : Restorable(journal, Mark(i), memo, completed, candidates, clean, v) =>
                  Restorable(journal', Mark(i), memo', completed', candidates', clean', v)
    PROVE  TransactionInv'
  <1>1. Past(identity)' /\ Superseded(journal)' /\ Saves'
    BY InvFacts DEF Past, Superseded, Saves
  <1>2. ASSUME NEW i \in 1..Len(saved') PROVE Kept(i)'
    <2>1. i \in 1..Len(saved) /\ Kept(i) /\ Mark(i)' = Mark(i) /\ Height(i)' = Height(i)
      BY InvFacts DEF Mark, Height
    <2>2. Past(saved[i].identity)'
      BY <2>1 DEF Kept, Past
    <2>3. Recovers(journal', Mark(i), IdentityCell, identity, saved[i].identity)
      BY <2>1 DEF Kept
    <2>4. saved[i].identity = graph =>
            /\ Quiet(journal', Mark(i))
            /\ Restorable(journal', Mark(i), memo', completed', candidates', clean', saved[i])
            /\ Height(i) \in Nat /\ \A p \in Pairs : Reads(cache, Height(i), p, saved[i].cache[p])
      BY <2>1 DEF Kept
    <2> QED
      BY <2>1, <2>2, <2>3, <2>4 DEF Kept
  <1> QED
    BY <1>1, <1>2, InvBy

LEMMA KeepRecord ==
    ASSUME TransactionInv, FreshInv', ~undoing,
           UNCHANGED <<identity, graph, savepoints, undoing, mark, saved, cache>>,
           NEW r \in Undone, ~IsReset(r), Record(r),
           KeepsAll(r, memo, completed, candidates, clean, memo', completed', candidates', clean')
    PROVE  TransactionInv'
  <1>1. CASE ~Speculative
    <2>1. journal' = journal
      BY <1>1 DEF Record
    <2>2. Len(saved) = 0
      BY <1>1, InvFacts, Lengths DEF Saves, Speculative
    <2>3. 1..Len(saved) = {}
      BY <2>2
    <2> QED
      BY <2>1, <2>3, InvFacts, KeepJournal
  <1>2. CASE Speculative
    <2>1. journal' = Append(journal, r)
      BY <1>2 DEF Record
    <2>2. ASSUME NEW i \in 1..Len(saved), NEW v,
                 Restorable(journal, Mark(i), memo, completed, candidates, clean, v)
          PROVE  Restorable(journal', Mark(i), memo', completed', candidates', clean', v)
      BY <2>1, <2>2, InvFacts, MarkFacts, RestorablePush
    <2>3. Superseded(journal')
      BY <2>1, InvFacts, EntryPush
    <2>4. \A i \in 1..Len(saved) : Mark(i) \in Nat /\ Mark(i) <= Len(journal)
      BY MarkFacts
    <2>5. \A i \in 1..Len(saved) :
             /\ Quiet(journal, Mark(i)) => Quiet(journal', Mark(i))
             /\ \A id, then : Recovers(journal, Mark(i), IdentityCell, id, then) =>
                  Recovers(journal', Mark(i), IdentityCell, id, then)
      BY <2>1, <2>4, InvFacts, EntryPush
    <2> QED
      BY <2>2, <2>3, <2>5, KeepJournal
  <1> QED
    BY <1>1, <1>2

(* What the record of a write is about.                                    *)
LEMMA WrittenCells ==
    /\ \A s \in Slots, x \in Entry :
         LET r == [kind |-> "memo", key |-> s, previous |-> x]
         IN  Cell(r) = <<"memo", s>> /\ Before(r) = x /\ ~IsReset(r)
    /\ \A p \in Pairs :
         LET r == [kind |-> "completed", key |-> p, previous |-> NoEntry]
         IN  Cell(r) = <<"completed", p>> /\ Before(r) = NoEntry /\ ~IsReset(r)
    /\ \A p \in Pairs :
         LET r == [kind |-> "inserted", key |-> p]
         IN  Cell(r) = <<"candidates", p>> /\ Before(r) = "out" /\ ~IsReset(r)
    /\ \A p \in Pairs :
         LET r == [kind |-> "removed", key |-> p]
         IN  Cell(r) = <<"candidates", p>> /\ Before(r) = "in" /\ ~IsReset(r)
    /\ \A ty \in Roots :
         LET r == [kind |-> "clean", key |-> ty]
         IN  Cell(r) = <<"clean", ty>> /\ Before(r) = NoEntry /\ ~IsReset(r)
  BY DEF Cell, Before, IsReset

(* Cells of different tables, or of different keys, are different.         *)
LEMMA Cells ==
    /\ \A x, y : /\ <<"memo", x>> # <<"completed", y>> /\ <<"memo", x>> # <<"candidates", y>>
                 /\ <<"memo", x>> # <<"clean", y>> /\ <<"completed", x>> # <<"candidates", y>>
                 /\ <<"completed", x>> # <<"clean", y>> /\ <<"candidates", x>> # <<"clean", y>>
    /\ \A t, x, y : <<t, x>> = <<t, y>> => x = y
  OBVIOUS

LEMMA KeepsMemo ==
    ASSUME NEW s \in Slots, NEW M \in [Slots -> Entry], NEW C, NEW K, NEW E, NEW x
    PROVE  KeepsAll([kind |-> "memo", key |-> s, previous |-> M[s]],
                    M, C, K, E, [M EXCEPT ![s] = x], C, K, E)
  <1> DEFINE r == [kind |-> "memo", key |-> s, previous |-> M[s]]
  <1>1. Cell(r) = <<"memo", s>> /\ Before(r) = M[s]
    BY WrittenCells
  <1> HIDE DEF r
  <1>2. KeepsAll(r, M, C, K, E, [M EXCEPT ![s] = x], C, K, E)
    BY <1>1, Cells DEF KeepsAll, Keeps
  <1> QED
    BY <1>2 DEF r

LEMMA KeepsCompleted ==
    ASSUME NEW p \in Pairs, NEW M, NEW C \in Layer, NEW K, NEW E, NEW x, C[p] = NoEntry
    PROVE  KeepsAll([kind |-> "completed", key |-> p, previous |-> NoEntry],
                    M, C, K, E, M, [C EXCEPT ![p] = x], K, E)
  <1> DEFINE r == [kind |-> "completed", key |-> p, previous |-> NoEntry]
  <1>1. Cell(r) = <<"completed", p>> /\ Before(r) = NoEntry
    BY WrittenCells
  <1> HIDE DEF r
  <1>2. KeepsAll(r, M, C, K, E, M, [C EXCEPT ![p] = x], K, E)
    BY <1>1, Cells DEF KeepsAll, Keeps, Layer
  <1> QED
    BY <1>2 DEF r

LEMMA KeepsInserted ==
    ASSUME NEW p \in Pairs, NEW M, NEW C, NEW K, NEW E, p \notin K
    PROVE  KeepsAll([kind |-> "inserted", key |-> p], M, C, K, E, M, C, K \cup {p}, E)
  <1> DEFINE r == [kind |-> "inserted", key |-> p]
  <1>1. Cell(r) = <<"candidates", p>> /\ Before(r) = "out"
    BY WrittenCells
  <1> HIDE DEF r
  <1>2. \A q \in Pairs : Keeps(r, <<"candidates", q>>, Member(K, q), Member(K \cup {p}, q))
    BY <1>1, Cells DEF Keeps, Member
  <1>3. KeepsAll(r, M, C, K, E, M, C, K \cup {p}, E)
    BY <1>1, <1>2, Cells DEF KeepsAll, Keeps
  <1> QED
    BY <1>3 DEF r

LEMMA KeepsRemoved ==
    ASSUME NEW p \in Pairs, NEW M, NEW C, NEW K, NEW E, p \in K
    PROVE  KeepsAll([kind |-> "removed", key |-> p], M, C, K, E, M, C, K \ {p}, E)
  <1> DEFINE r == [kind |-> "removed", key |-> p]
  <1>1. Cell(r) = <<"candidates", p>> /\ Before(r) = "in"
    BY WrittenCells
  <1> HIDE DEF r
  <1>2. \A q \in Pairs : Keeps(r, <<"candidates", q>>, Member(K, q), Member(K \ {p}, q))
    BY <1>1, Cells DEF Keeps, Member
  <1>3. KeepsAll(r, M, C, K, E, M, C, K \ {p}, E)
    BY <1>1, <1>2, Cells DEF KeepsAll, Keeps
  <1> QED
    BY <1>3 DEF r

LEMMA KeepsClean ==
    ASSUME NEW ty \in Roots, NEW M, NEW C, NEW K, NEW E \in [Roots -> Entry], NEW x, E[ty] = NoEntry
    PROVE  KeepsAll([kind |-> "clean", key |-> ty], M, C, K, E, M, C, K, [E EXCEPT ![ty] = x])
  <1> DEFINE r == [kind |-> "clean", key |-> ty]
  <1>1. Cell(r) = <<"clean", ty>> /\ Before(r) = NoEntry
    BY WrittenCells
  <1> HIDE DEF r
  <1>2. KeepsAll(r, M, C, K, E, M, C, K, [E EXCEPT ![ty] = x])
    BY <1>1, Cells DEF KeepsAll, Keeps
  <1> QED
    BY <1>2 DEF r

LEMMA KeepWrites ==
    ASSUME TransactionInv, Writes
    PROVE  TransactionInv'
  <1> USE DEF worldVars, layerVars
  <1>1. FreshInv'
    BY InvFacts, FreshWrites
  <1>2. ~undoing
    BY InvFacts DEF Writes, WriteMemo, Promote, RememberYes, RememberFirstNo, RememberSecondNo,
                    MarkClean, QueryCurrent
  <1>3. /\ memo \in [Slots -> Entry] /\ completed \in Layer /\ clean \in [Roots -> Entry]
        /\ \A s \in Slots : memo[s] \in Entry
    BY InvFacts DEF TypeOK
  <1>4. ASSUME NEW s \in Slots, WriteMemo(s) PROVE TransactionInv'
    <2> DEFINE r == [kind |-> "memo", key |-> s, previous |-> memo[s]]
    <2>1. /\ memo' = [memo EXCEPT ![s] = Now] /\ UNCHANGED <<completed, candidates, clean>>
          /\ Record(r) /\ UNCHANGED <<identity, graph, savepoints, undoing, mark, saved, cache>>
      BY <1>4 DEF WriteMemo
    <2>2. r \in Undone /\ ~IsReset(r)
      BY <1>3, InvFacts, RecordTypes, WrittenCells
    <2>3. KeepsAll(r, memo, completed, candidates, clean, memo', completed', candidates', clean')
      BY <1>3, <2>1, KeepsMemo
    <2> HIDE DEF r
    <2> QED
      BY <1>1, <1>2, <2>1, <2>2, <2>3, KeepRecord
  <1>5. ASSUME NEW p \in Pairs, RememberYes(p) PROVE TransactionInv'
    <2> DEFINE r == [kind |-> "completed", key |-> p, previous |-> NoEntry]
    <2>1. /\ completed[p] = NoEntry /\ completed' = [completed EXCEPT ![p] = Now]
          /\ UNCHANGED <<memo, candidates, clean>>
          /\ Record(r) /\ UNCHANGED <<identity, graph, savepoints, undoing, mark, saved, cache>>
      BY <1>5 DEF RememberYes
    <2>2. r \in Undone /\ ~IsReset(r)
      BY InvFacts, RecordTypes, WrittenCells
    <2>3. KeepsAll(r, memo, completed, candidates, clean, memo', completed', candidates', clean')
      BY <1>3, <2>1, KeepsCompleted
    <2> HIDE DEF r
    <2> QED
      BY <1>1, <1>2, <2>1, <2>2, <2>3, KeepRecord
  <1>6. ASSUME NEW p \in Pairs, RememberFirstNo(p) PROVE TransactionInv'
    <2> DEFINE r == [kind |-> "inserted", key |-> p]
    <2>1. /\ p \notin candidates /\ candidates' = candidates \cup {p}
          /\ UNCHANGED <<memo, completed, clean>>
          /\ Record(r) /\ UNCHANGED <<identity, graph, savepoints, undoing, mark, saved, cache>>
      BY <1>6 DEF RememberFirstNo
    <2>2. r \in Undone /\ ~IsReset(r)
      BY InvFacts, RecordTypes, WrittenCells
    <2>3. KeepsAll(r, memo, completed, candidates, clean, memo', completed', candidates', clean')
      BY <2>1, KeepsInserted
    <2> HIDE DEF r
    <2> QED
      BY <1>1, <1>2, <2>1, <2>2, <2>3, KeepRecord
  <1>7. ASSUME NEW ty \in Roots, MarkClean(ty) PROVE TransactionInv'
    <2> DEFINE r == [kind |-> "clean", key |-> ty]
    <2>1. /\ clean[ty] = NoEntry /\ clean' = [clean EXCEPT ![ty] = Now]
          /\ UNCHANGED <<memo, completed, candidates>>
          /\ Record(r) /\ UNCHANGED <<identity, graph, savepoints, undoing, mark, saved, cache>>
      BY <1>7 DEF MarkClean
    <2>2. r \in Undone /\ ~IsReset(r)
      BY InvFacts, RecordTypes, WrittenCells
    <2>3. KeepsAll(r, memo, completed, candidates, clean, memo', completed', candidates', clean')
      BY <1>3, <2>1, KeepsClean
    <2> HIDE DEF r
    <2> QED
      BY <1>1, <1>2, <2>1, <2>2, <2>3, KeepRecord
  <1>8. ASSUME NEW p \in Pairs, RememberSecondNo(p) PROVE TransactionInv'
    <2> DEFINE r == [kind |-> "removed", key |-> p]
               q == [kind |-> "completed", key |-> p, previous |-> NoEntry]
    <2>1. /\ p \in candidates /\ candidates' = candidates \ {p} /\ UNCHANGED <<memo, clean>>
          /\ UNCHANGED <<identity, graph, savepoints, undoing, mark, saved, cache>>
      BY <1>8 DEF RememberSecondNo
    <2>2. r \in Undone /\ ~IsReset(r) /\ q \in Undone /\ ~IsReset(q)
      BY InvFacts, RecordTypes, WrittenCells
    <2>3. KeepsAll(r, memo, completed, candidates, clean, memo, completed, candidates', clean)
      BY <2>1, KeepsRemoved
    <2>4. CASE completed[p] # NoEntry
      <3>1. completed' = completed /\ Record(r)
        BY <1>8, <2>4 DEF RememberSecondNo
      <3> HIDE DEF r
      <3>2. KeepsAll(r, memo, completed, candidates, clean, memo', completed', candidates', clean')
        BY <2>1, <2>3, <3>1
      <3> QED
        BY <1>1, <1>2, <2>1, <2>2, <3>1, <3>2, KeepRecord
    <2>5. CASE completed[p] = NoEntry
      <3>1. /\ completed' = [completed EXCEPT ![p] = Now]
            /\ journal' = IF Speculative THEN Append(Append(journal, r), q) ELSE journal
        BY <1>8, <2>5 DEF RememberSecondNo
      <3>2. KeepsAll(q, memo, completed, candidates', clean, memo', completed', candidates', clean')
        BY <1>3, <2>1, <2>5, <3>1, KeepsCompleted
      <3> HIDE DEF r, q
      <3>3. CASE ~Speculative
        <4>1. journal' = journal
          BY <3>1, <3>3
        <4>2. Len(saved) = 0
          BY <1>2, <3>3, InvFacts, Lengths DEF Saves, Speculative
        <4>3. 1..Len(saved) = {}
          BY <4>2
        <4> QED
          BY <1>1, <2>1, <4>1, <4>3, InvFacts, KeepJournal
      <3>4. CASE Speculative
        <4> DEFINE J == Append(journal, r)
        <4>1. journal' = Append(J, q)
          BY <3>1, <3>4
        <4>2. /\ J \in Seq(Undone) /\ Len(J) = Len(journal) + 1 /\ Superseded(J)
              /\ \A m \in Nat : Quiet(journal, m) => Quiet(J, m)
              /\ \A m \in Nat : \A id, then : m <= Len(journal) /\ Recovers(journal, m, IdentityCell, id, then) =>
                   Recovers(J, m, IdentityCell, id, then)
          BY <2>2, InvFacts, EntryPush
        <4>3. \A i \in 1..Len(saved) : Mark(i) \in Nat /\ Mark(i) <= Len(journal)
          BY MarkFacts
        <4>4. \A i \in 1..Len(saved) : Mark(i) <= Len(J)
          BY <4>2, <4>3, InvFacts
        <4>5. ASSUME NEW i \in 1..Len(saved), NEW v,
                     Restorable(journal, Mark(i), memo, completed, candidates, clean, v)
              PROVE  Restorable(journal', Mark(i), memo', completed', candidates', clean', v)
          <5>1. Restorable(J, Mark(i), memo, completed, candidates', clean, v)
            BY <2>2, <2>3, <4>3, <4>5, InvFacts, RestorablePush
          <5> HIDE DEF J
          <5> QED
            BY <2>2, <3>2, <4>1, <4>2, <4>3, <4>4, <5>1, RestorablePush
        <4> HIDE DEF J
        <4>6. Superseded(journal')
          BY <2>2, <4>1, <4>2, EntryPush
        <4>7. \A m \in Nat : Quiet(J, m) => Quiet(journal', m)
          BY <2>2, <4>1, <4>2, EntryPush
        <4>8. \A m \in Nat : \A id, then : m <= Len(J) /\ Recovers(J, m, IdentityCell, id, then) =>
                   Recovers(journal', m, IdentityCell, id, then)
          BY <2>2, <4>1, <4>2, EntryPush
        <4>9. \A i \in 1..Len(saved) :
                 /\ Quiet(journal, Mark(i)) => Quiet(journal', Mark(i))
                 /\ \A id, then : Recovers(journal, Mark(i), IdentityCell, id, then) =>
                      Recovers(journal', Mark(i), IdentityCell, id, then)
          BY <4>2, <4>3, <4>4, <4>7, <4>8
        <4> QED
          BY <1>1, <2>1, <4>5, <4>6, <4>9, KeepJournal
      <3> QED
        BY <3>3, <3>4
    <2> QED
      BY <2>4, <2>5
  <1>9. ASSUME NEW p \in Pairs, Promote(p) PROVE TransactionInv'
    <2>1. /\ cache' = [cache EXCEPT ![Len(cache)][p] = Now]
          /\ UNCHANGED <<memo, completed, candidates, clean, identity, journal>>
          /\ UNCHANGED <<savepoints, undoing, mark, saved, graph>>
      BY <1>9 DEF Promote
    <2>2. Past(identity)' /\ Superseded(journal)' /\ Saves'
      BY <2>1, InvFacts DEF Past, Superseded, Saves
    <2>3. /\ Len(cache') = Len(cache)
          /\ \A k \in 1..(Len(cache) - 1) : cache'[k] = cache[k]
      <3>1. cache \in Seq(Layer) /\ Len(cache) \in Nat /\ DOMAIN cache = 1..Len(cache)
        BY InvFacts, SeqFacts
      <3>2. DOMAIN cache' = DOMAIN cache /\ cache' \in Seq(Layer)
        BY <1>1, <2>1 DEF FreshInv, LayerInv, TypeOK
      <3>3. DOMAIN cache' = 1..Len(cache') /\ Len(cache') \in Nat
        BY <3>2, SeqFacts
      <3>4. Len(cache') = Len(cache)
        BY <3>1, <3>2, <3>3
      <3>5. \A n \in Nat : \A k \in 1..(n - 1) : k \in 1..n /\ k # n
        OBVIOUS
      <3>6. \A k \in 1..(Len(cache) - 1) : k \in DOMAIN cache /\ k # Len(cache)
        BY <3>1, <3>5, Zenon
      <3> QED
        BY <2>1, <3>4, <3>6
    <2>4. ASSUME NEW i \in 1..Len(saved') PROVE Kept(i)'
      <3>1. i \in 1..Len(saved) /\ Kept(i) /\ Mark(i)' = Mark(i) /\ Height(i)' = Height(i)
        BY <2>1, <2>3, InvFacts DEF Mark, Height
      <3>2. Height(i) \in Nat => \A k \in 1..Height(i) : k \in 1..(Len(cache) - 1)
        BY <3>1, InvFacts DEF Height
      <3> QED
        BY <2>1, <2>3, <3>1, <3>2, KeptSame
    <2> QED
      BY <1>1, <2>2, <2>4, InvBy
  <1> QED
    BY <1>4, <1>5, <1>6, <1>7, <1>8, <1>9 DEF Writes

LEMMA KeepInit == Init => TransactionInv
  <1> SUFFICES ASSUME Init PROVE TransactionInv
    OBVIOUS
  <1>1. FreshInv
    BY FreshInit
  <1>2. Len(saved) = 0 /\ saved \in Seq(Seen) /\ Saves
    BY EmptySeq DEF Init, Saves
  <1>3. Past(identity) /\ Superseded(journal)
    BY DEF Init, Past, Superseded
  <1> QED
    BY <1>1, <1>2, <1>3 DEF TransactionInv

LEMMA KeepNext == TransactionInv /\ [Next]_vars => TransactionInv'
  <1> SUFFICES ASSUME TransactionInv, [Next]_vars PROVE TransactionInv'
    OBVIOUS
  <1>1. CASE UNCHANGED vars
    <2>1. /\ UNCHANGED <<memo, completed, candidates, clean, cache, identity, journal>>
          /\ UNCHANGED <<savepoints, undoing, mark, saved, graph>>
      BY <1>1 DEF vars, context, layerVars, worldVars
    <2>2. FreshInv'
      BY <1>1, InvFacts, FreshNext
    <2>3. Past(identity)' /\ Superseded(journal)' /\ Saves'
      BY <2>1, InvFacts DEF Past, Superseded, Saves
    <2>4. ASSUME NEW i \in 1..Len(saved') PROVE Kept(i)'
      <3>1. Kept(i) /\ Mark(i)' = Mark(i) /\ Height(i)' = Height(i)
        BY <2>1, InvFacts DEF Mark, Height
      <3> QED
        BY <2>1, <3>1, KeptSame
    <2> QED
      BY <2>2, <2>3, <2>4, InvBy
  <1>2. CASE MutateGraph \/ BeginRollback \/ CloseQuery \/ OpenQuery
    BY <1>2, KeepMutateGraph, KeepBeginRollback, KeepCloseQuery, KeepOpenQuery
  <1>3. CASE Savepoint \/ Commit \/ Undo \/ EndRollback
    BY <1>3, KeepSavepoint, KeepCommit, KeepUndo, KeepEndRollback
  <1>4. CASE Writes
    BY <1>4, KeepWrites
  <1>5. CASE \E value \in Settings : ChangeSetting(value)
    BY <1>5, KeepChangeSetting
  <1> QED
    BY <1>1, <1>2, <1>3, <1>4, <1>5 DEF Next, Writes

-----------------------------------------------------------------------------
(* The refinement, action by action.                                       *)

(* What the mapping gives NestedTransactions.                              *)
View == Readable(IF undoing THEN saved[Len(saved)] ELSE Visible)
Depth == Len(saved) - (IF undoing THEN 1 ELSE 0)
Stack == [i \in 1..Depth |-> Readable(saved[i])]

LEMMA Fields ==
    DOMAIN Nothing = {"memo", "completed", "candidates", "clean", "cache"}
  BY DEF Nothing

(* A readable view is all of a current one and nothing of a stale one.     *)
LEMMA ReadableStale ==
    ASSUME NEW v, v.identity # graph
    PROVE  Readable(v) = Nothing
  BY DEF Readable

LEMMA ReadableSame ==
    ASSUME NEW v, NEW w, v.identity = graph, w.identity = graph, v.memo = w.memo,
           v.completed = w.completed, v.candidates = w.candidates, v.clean = w.clean, v.cache = w.cache
    PROVE  Readable(v) = Readable(w)
  <1>1. \A f \in DOMAIN Nothing : v[f] = w[f]
    BY Fields
  <1> QED
    BY <1>1 DEF Readable

LEMMA NothingReadable ==
    ASSUME NEW v, v.memo = EmptyMemo, v.completed = EmptyLayer, v.candidates = {},
           v.clean = EmptyClean, v.cache = EmptyLayer
    PROVE  Readable(v) = Nothing
  <1>1. \A f \in DOMAIN Nothing : v[f] = Nothing[f]
    BY Fields DEF Nothing
  <1>2. [f \in DOMAIN Nothing |-> v[f]] = [f \in DOMAIN Nothing |-> Nothing[f]]
    BY <1>1
  <1>3. [f \in DOMAIN Nothing |-> Nothing[f]] = Nothing
    BY DEF Nothing
  <1> QED
    BY <1>2, <1>3 DEF Readable

LEMMA PushMap ==
    ASSUME NEW T, NEW n \in Nat, NEW s \in [1..n -> T], NEW x \in T, NEW t \in [1..(n + 1) -> T],
           \A i \in 1..n : t[i] = s[i], t[n + 1] = x
    PROVE  t = Append(s, x)
  <1>1. s \in Seq(T) /\ Len(s) = n /\ t \in Seq(T) /\ Len(t) = n + 1
    OBVIOUS
  <1>2. /\ Append(s, x) \in Seq(T) /\ Len(Append(s, x)) = n + 1
        /\ (\A i \in 1..n : Append(s, x)[i] = s[i]) /\ Append(s, x)[n + 1] = x
    BY <1>1, PushProperties
  <1>3. \A i \in 1..(n + 1) : i \in 1..n \/ i = n + 1
    OBVIOUS
  <1>4. \A i \in 1..Len(t) : t[i] = Append(s, x)[i]
    BY <1>1, <1>2, <1>3
  <1> QED
    BY <1>1, <1>2, <1>4, SeqEqual

LEMMA PopMap ==
    ASSUME NEW T, NEW n \in Nat \ {0}, NEW s \in [1..n -> T], NEW t \in [1..(n - 1) -> T],
           \A i \in 1..(n - 1) : t[i] = s[i]
    PROVE  t = SubSeq(s, 1, Len(s) - 1) /\ s # <<>> /\ Len(s) = n
  <1>1. s \in Seq(T) /\ Len(s) = n /\ t \in Seq(T) /\ Len(t) = n - 1
    OBVIOUS
  <1>2. s # <<>>
    BY <1>1, EmptySeq
  <1>3. /\ SubSeq(s, 1, Len(s) - 1) \in Seq(T) /\ Len(SubSeq(s, 1, Len(s) - 1)) = n - 1
        /\ \A i \in 1..(n - 1) : SubSeq(s, 1, Len(s) - 1)[i] = s[i]
    BY <1>1, <1>2, PopProperties
  <1>4. \A i \in 1..Len(t) : t[i] = SubSeq(s, 1, Len(s) - 1)[i]
    BY <1>1, <1>3
  <1> QED
    BY <1>1, <1>2, <1>3, <1>4, SeqEqual

(* What a query would read is the same as long as nothing it reads is.     *)
LEMMA SameVisible ==
    ASSUME UNCHANGED <<memo, completed, candidates, clean, identity, graph>>,
           \A p \in Pairs : Lookup(p)' = Lookup(p)
    PROVE  Visible' = Visible /\ Readable(Visible)' = Readable(Visible)
  <1>1. [p \in Pairs |-> Lookup(p)'] = [p \in Pairs |-> Lookup(p)]
    OBVIOUS
  <1>2. Visible' = Visible
    BY <1>1 DEF Visible
  <1> QED
    BY <1>2 DEF Readable

LEMMA SameStack ==
    ASSUME UNCHANGED <<graph, saved, undoing>>
    PROVE  Stack' = Stack
  BY DEF Stack, Depth, Readable

LEMMA RefineMutateGraph ==
    ASSUME TransactionInv, MutateGraph
    PROVE  View' = Nothing /\ Stack' = [i \in DOMAIN Stack |-> Nothing]
  <1>1. /\ graph' = graph + 1 /\ ~undoing
        /\ UNCHANGED <<memo, completed, candidates, clean, cache, identity, undoing, saved>>
    BY DEF MutateGraph, context, layerVars, Between
  <1>2. ASSUME NEW id \in Nat \cup {NoIdentity}, Past(id) PROVE id # graph'
    BY <1>1, <1>2, InvFacts DEF Past
  <1>3. identity # graph'
    BY <1>2, InvFacts DEF TypeOK
  <1>4. View' = Nothing
    BY <1>1, <1>3 DEF View, Readable, Visible
  <1>5. Depth = Len(saved) /\ Depth' = Depth
    BY <1>1, InvFacts DEF Depth
  <1>6. ASSUME NEW i \in 1..Depth PROVE Readable(saved[i])' = Nothing
    <2>1. saved[i].identity \in Nat \cup {NoIdentity} /\ Past(saved[i].identity)
      BY <1>5, InvFacts DEF Seen, Kept
    <2>2. saved[i].identity # graph'
      BY <1>2, <2>1
    <2> QED
      BY <1>1, <2>2 DEF Readable
  <1>7. Stack' = [i \in 1..Depth |-> Readable(saved[i])'] /\ DOMAIN Stack = 1..Depth
    BY <1>5 DEF Stack
  <1> QED
    BY <1>4, <1>6, <1>7

LEMMA RefineChangeSetting ==
    ASSUME TransactionInv, NEW value \in Settings, ChangeSetting(value)
    PROVE  View' = Nothing /\ Stack' = [i \in DOMAIN Stack |-> Nothing]
  <1>1. /\ identity' = NoIdentity /\ UNCHANGED <<undoing, saved, graph>> /\ ~undoing /\ savepoints = <<>>
    BY DEF ChangeSetting, Between, Speculative, layerVars
  <1>2. identity' # graph'
    BY <1>1, InvFacts
  <1>3. View' = Nothing
    BY <1>1, <1>2 DEF View, Readable, Visible
  <1>4. Depth = 0 /\ Depth' = 0
    BY <1>1, InvFacts, Lengths DEF Depth, Saves
  <1>5. 1..Depth = {} /\ 1..Depth' = {}
    BY <1>4
  <1> QED
    BY <1>3, <1>5 DEF Stack

(* The new layer is empty: opening it changes no answer.                   *)
LEMMA RefineSavepoint ==
    ASSUME TransactionInv, Savepoint
    PROVE  View' = View /\ Stack' = Append(Stack, View)
  <1>0. PICK n \in Nat : n = Len(saved)
    BY InvFacts
  <1>1. /\ cache' = Append(cache, EmptyLayer) /\ saved' = Append(saved, Visible)
        /\ UNCHANGED <<memo, completed, candidates, clean, identity, undoing, graph>> /\ ~undoing
    BY DEF Savepoint, Between, worldVars
  <1>2. /\ cache' \in Seq(Layer) /\ Len(cache') = Len(cache) + 1
        /\ cache'[Len(cache) + 1] = EmptyLayer
        /\ \A k \in 1..Len(cache) : cache'[k] = cache[k]
    BY <1>1, InvFacts, EmptyTypes, PushProperties
  <1>3. ASSUME NEW p \in Pairs PROVE Lookup(p)' = Lookup(p)
    <2>1. Reads(cache, Len(cache), p, Lookup(p))
      BY InvFacts, LookupReads
    <2>2. Reads(cache', Len(cache), p, Lookup(p))
      BY <1>2, <2>1, InvFacts, ReadsSame
    <2>3. Len(cache') \in Nat \ {0} /\ Len(cache') - 1 = Len(cache) /\ cache'[Len(cache')][p] = NoEntry
      BY <1>2, InvFacts DEF EmptyLayer
    <2>4. Reads(cache', Len(cache'), p, Lookup(p))
      BY <2>2, <2>3, ReadsBelow
    <2> QED
      BY <1>2, <2>4, NextLookupReads
  <1>4. Readable(Visible)' = Readable(Visible) /\ View = Readable(Visible) /\ View' = View
    BY <1>1, <1>3, SameVisible DEF View
  <1>5. /\ Len(saved') = n + 1 /\ saved'[n + 1] = Visible /\ \A i \in 1..n : saved'[i] = saved[i]
    BY <1>0, <1>1, InvFacts, VisibleSeen, PushProperties
  <1>6. Depth = n /\ Depth' = n + 1
    BY <1>0, <1>1, <1>5 DEF Depth
  <1> DEFINE T == {Readable(v) : v \in Seen}
  <1>7. \A v \in Seen : Readable(v) \in T
    OBVIOUS
  <1>8. Stack \in [1..n -> T] /\ (\A i \in 1..n : Stack[i] = Readable(saved[i])) /\ View \in T
    <2>1. Stack = [i \in 1..n |-> Readable(saved[i])]
      BY <1>6 DEF Stack
    <2>2. \A i \in 1..n : saved[i] \in Seen
      BY <1>0, InvFacts
    <2>3. Visible \in Seen
      BY InvFacts, VisibleSeen
    <2> HIDE DEF T
    <2> QED
      BY <1>4, <1>7, <2>1, <2>2, <2>3
  <1>9. Stack' = [i \in 1..(n + 1) |-> Readable(saved'[i])]
    BY <1>1, <1>6 DEF Stack, Readable
  <1>10. ASSUME NEW i \in 1..n PROVE Stack'[i] = Stack[i]
    BY <1>5, <1>8, <1>9
  <1>11. Stack'[n + 1] = View
    BY <1>4, <1>5, <1>9
  <1>12. Stack' \in [1..(n + 1) -> T]
    <2>1. \A i \in 1..(n + 1) : i \in 1..n \/ i = n + 1
      OBVIOUS
    <2> HIDE DEF T
    <2>2. \A i \in 1..(n + 1) : Stack'[i] \in T
      BY <1>8, <1>10, <1>11, <2>1
    <2> QED
      BY <1>9, <2>2
  <1> HIDE DEF T
  <1> QED
    BY <1>4, <1>8, <1>10, <1>11, <1>12, PushMap

LEMMA PoppedStack ==
    ASSUME TransactionInv, graph' = graph, NEW n \in Nat \ {0}, Depth = n, Depth' = n - 1, n <= Len(saved),
           \A i \in 1..(n - 1) : saved'[i] = saved[i]
    PROVE  /\ Stack # <<>> /\ Stack[Len(Stack)] = Readable(saved[n])
           /\ Stack' = SubSeq(Stack, 1, Len(Stack) - 1)
  <1> DEFINE T == {Readable(v) : v \in Seen}
  <1>1. \A v \in Seen : Readable(v) \in T
    OBVIOUS
  <1>2. \A i \in 1..n : saved[i] \in Seen
    BY InvFacts
  <1>3. Stack = [i \in 1..n |-> Readable(saved[i])]
    BY DEF Stack
  <1>4. Stack' = [i \in 1..(n - 1) |-> Readable(saved'[i])]
    BY DEF Stack, Readable
  <1> HIDE DEF T
  <1>5. Stack \in [1..n -> T]
    BY <1>1, <1>2, <1>3
  <1>6. \A i \in 1..(n - 1) : i \in 1..n /\ Stack'[i] = Stack[i]
    BY <1>3, <1>4
  <1>7. Stack' \in [1..(n - 1) -> T]
    BY <1>4, <1>5, <1>6
  <1>8. Stack' = SubSeq(Stack, 1, Len(Stack) - 1) /\ Stack # <<>> /\ Len(Stack) = n
    BY <1>5, <1>6, <1>7, PopMap
  <1> QED
    BY <1>3, <1>8

LEMMA RefineCommit ==
    ASSUME TransactionInv, Commit
    PROVE  Stack # <<>> /\ View' = View /\ Stack' = SubSeq(Stack, 1, Len(Stack) - 1)
  <1>0. PICK n \in Nat : n = Len(saved)
    BY InvFacts
  <1>1. /\ cache' = Folded /\ saved' = SubSeq(saved, 1, Len(saved) - 1)
        /\ UNCHANGED <<memo, completed, candidates, clean, identity, undoing, graph>>
        /\ ~undoing /\ Speculative
    BY DEF Commit, Between, worldVars
  <1>2. n = Len(savepoints) /\ n \in Nat \ {0} /\ saved # <<>>
    <2>1. n = Len(savepoints) /\ savepoints # <<>>
      BY <1>0, <1>1, InvFacts DEF Saves, Speculative
    <2> QED
      BY <1>0, <2>1, InvFacts, Lengths, SeqFacts
  <1>3. Len(saved') = n - 1 /\ \A i \in 1..(n - 1) : saved'[i] = saved[i]
    BY <1>0, <1>1, <1>2, InvFacts, PopProperties
  <1>4. Len(cache) > 1
    BY <1>2, InvFacts DEF LayersSuffice
  <1>5. cache' \in Seq(Layer) /\ Len(cache') = Len(cache) - 1
    BY <1>1, <1>4, InvFacts, FoldedType
  <1>6. ASSUME NEW p \in Pairs PROVE Lookup(p)' = Lookup(p)
    <2>1. Reads(cache, Len(cache), p, Lookup(p))
      BY InvFacts, LookupReads
    <2>2. Reads(cache', Len(cache'), p, Lookup(p))
      BY <1>1, <1>4, <1>5, <2>1, InvFacts, FoldedReads
    <2> QED
      BY <1>5, <2>2, NextLookupReads
  <1>7. View' = View
    BY <1>1, <1>6, SameVisible DEF View
  <1>8. Depth = n /\ Depth' = n - 1
    BY <1>0, <1>1, <1>3 DEF Depth
  <1> QED
    BY <1>0, <1>1, <1>2, <1>3, <1>7, <1>8, PoppedStack

LEMMA RefineBeginRollback ==
    ASSUME TransactionInv, BeginRollback
    PROVE  /\ Stack # <<>> /\ View' = Stack[Len(Stack)]
           /\ Stack' = SubSeq(Stack, 1, Len(Stack) - 1)
  <1>0. PICK n \in Nat : n = Len(saved)
    BY InvFacts
  <1>1. /\ undoing' = TRUE /\ UNCHANGED <<saved, graph>> /\ ~undoing /\ Speculative
    BY DEF BeginRollback, Between, worldVars
  <1>2. n = Len(savepoints) /\ n \in Nat \ {0}
    <2>1. n = Len(savepoints) /\ savepoints # <<>>
      BY <1>0, <1>1, InvFacts DEF Saves, Speculative
    <2> QED
      BY <1>0, <2>1, InvFacts, Lengths
  <1>3. Depth = n /\ Depth' = n - 1
    BY <1>0, <1>1 DEF Depth
  <1>4. View' = Readable(saved[n])
    BY <1>0, <1>1 DEF View, Readable
  <1> QED
    BY <1>0, <1>1, <1>2, <1>3, <1>4, PoppedStack

(* At the end of the replay what is visible is what was saved.             *)
LEMMA RefineEndRollback ==
    ASSUME TransactionInv, EndRollback
    PROVE  View' = View /\ Stack' = Stack
  <1>0. PICK n \in Nat : n = Len(saved)
    BY InvFacts
  <1>1. /\ cache' = SubSeq(cache, 1, Len(cache) - 1) /\ saved' = SubSeq(saved, 1, Len(saved) - 1)
        /\ undoing' = FALSE /\ undoing /\ Len(journal) <= mark
        /\ UNCHANGED <<memo, completed, candidates, clean, identity, graph>>
    BY DEF EndRollback, worldVars
  <1>2. n = Len(savepoints) + 1 /\ n \in 1..n /\ saved # <<>> /\ cache # <<>>
    <2>1. n = Len(savepoints) + 1
      BY <1>0, <1>1, InvFacts DEF Saves
    <2> QED
      BY <1>0, <2>1, InvFacts, SeqFacts DEF TypeOK
  <1>3. Len(saved') = n - 1 /\ \A i \in 1..(n - 1) : saved'[i] = saved[i]
    BY <1>0, <1>1, <1>2, InvFacts, PopProperties
  <1>4. /\ cache' \in Seq(Layer) /\ Len(cache') = Len(cache) - 1
        /\ \A k \in 1..(Len(cache) - 1) : cache'[k] = cache[k]
    BY <1>1, <1>2, InvFacts, PopProperties
  <1>5. Stack' = Stack
    <2>1. Depth = n - 1 /\ Depth' = n - 1
      BY <1>0, <1>1, <1>3, InvFacts DEF Depth
    <2>2. Stack' = [i \in 1..(n - 1) |-> Readable(saved'[i])]
      BY <1>1, <2>1 DEF Stack, Readable
    <2> QED
      BY <1>3, <2>1, <2>2 DEF Stack
  <1>6. Kept(n) /\ Mark(n) = mark /\ View = Readable(saved[n]) /\ saved[n] \in Seen
    BY <1>0, <1>1, <1>2, InvFacts DEF Mark, View
  <1>7. \A c, now, then : Recovers(journal, mark, c, now, then) => now = then
    BY <1>1, InvFacts, RecoversEmpty
  <1>8. identity = saved[n].identity
    BY <1>6, <1>7 DEF Kept
  <1>9. Visible'.identity = identity /\ View' = Readable(Visible')
    BY <1>1 DEF View, Visible, Readable
  <1>10. CASE saved[n].identity # graph
    BY <1>5, <1>6, <1>8, <1>9, <1>10, ReadableStale
  <1>11. CASE saved[n].identity = graph
    <2>1. /\ Restorable(journal, mark, memo, completed, candidates, clean, saved[n])
          /\ Height(n) \in Nat /\ \A p \in Pairs : Reads(cache, Height(n), p, saved[n].cache[p])
      BY <1>6, <1>11 DEF Kept
    <2>2. /\ memo \in [Slots -> Entry] /\ completed \in [Pairs -> Entry]
          /\ candidates \subseteq Pairs /\ clean \in [Roots -> Entry]
      BY InvFacts DEF TypeOK, Layer
    <2>3. /\ saved[n].memo \in [Slots -> Entry] /\ saved[n].completed \in [Pairs -> Entry]
          /\ saved[n].candidates \subseteq Pairs /\ saved[n].clean \in [Roots -> Entry]
          /\ saved[n].cache \in [Pairs -> Entry]
      BY <1>6 DEF Seen, Layer
    <2>4. memo = saved[n].memo
      <3>1. \A s \in Slots : memo[s] = saved[n].memo[s]
        BY <1>7, <2>1 DEF Restorable
      <3> QED
        BY <2>2, <2>3, <3>1
    <2>5. completed = saved[n].completed
      <3>1. \A p \in Pairs : completed[p] = saved[n].completed[p]
        BY <1>7, <2>1 DEF Restorable
      <3> QED
        BY <2>2, <2>3, <3>1
    <2>6. candidates = saved[n].candidates
      <3>1. \A p \in Pairs : Member(candidates, p) = Member(saved[n].candidates, p)
        BY <1>7, <2>1 DEF Restorable
      <3>2. \A p \in Pairs : p \in candidates <=> p \in saved[n].candidates
        BY <3>1 DEF Member
      <3> QED
        BY <2>2, <2>3, <3>2
    <2>7. clean = saved[n].clean
      <3>1. \A ty \in Roots : clean[ty] = saved[n].clean[ty]
        BY <1>7, <2>1 DEF Restorable
      <3> QED
        BY <2>2, <2>3, <3>1
    <2>8. [p \in Pairs |-> Lookup(p)'] = saved[n].cache
      <3>1. Height(n) = Len(cache')
        BY <1>0, <1>4, InvFacts DEF Height
      <3>2. ASSUME NEW p \in Pairs PROVE Lookup(p)' = saved[n].cache[p]
        <4>1. Reads(cache, Len(cache'), p, saved[n].cache[p]) /\ Len(cache') \in Nat
          BY <2>1, <3>1
        <4>2. Reads(cache', Len(cache'), p, saved[n].cache[p])
          BY <1>4, <4>1, ReadsSame
        <4> QED
          BY <1>4, <4>2, NextLookupReads
      <3> QED
        BY <2>3, <3>2
    <2>9. /\ Visible'.memo = saved[n].memo /\ Visible'.completed = saved[n].completed
          /\ Visible'.candidates = saved[n].candidates /\ Visible'.clean = saved[n].clean
          /\ Visible'.cache = saved[n].cache
      BY <1>1, <2>4, <2>5, <2>6, <2>7, <2>8 DEF Visible
    <2> QED
      BY <1>5, <1>6, <1>8, <1>9, <1>11, <2>9, ReadableSame
  <1> QED
    BY <1>10, <1>11

(* A reset discards only what could not be read.                           *)
LEMMA RefineOpenQuery ==
    ASSUME TransactionInv, OpenQuery
    PROVE  View' = View /\ Stack' = Stack
  <1>1. /\ IF identity # graph THEN Reset ELSE UNCHANGED <<context, journal>>
        /\ UNCHANGED <<saved, graph, undoing>> /\ ~undoing
    BY DEF OpenQuery, layerVars, Between
  <1>2. Stack' = Stack
    BY <1>1, SameStack
  <1>3. View = Readable(Visible) /\ View' = Readable(Visible')
    BY <1>1 DEF View, Readable
  <1>4. CASE identity = graph
    <2>1. UNCHANGED <<memo, completed, candidates, clean, cache, identity>>
      BY <1>1, <1>4 DEF context
    <2>2. \A p \in Pairs : Lookup(p)' = Lookup(p)
      BY <2>1 DEF Lookup
    <2> QED
      BY <1>1, <1>2, <1>3, <2>1, <2>2, SameVisible
  <1>5. CASE identity # graph
    <2>1. /\ memo' = EmptyMemo /\ completed' = EmptyLayer /\ candidates' = {} /\ clean' = EmptyClean
          /\ cache' = [i \in 1..(Len(savepoints) + 1) |-> EmptyLayer]
      BY <1>1, <1>5 DEF Reset
    <2>2. View = Nothing
      BY <1>3, <1>5, ReadableStale DEF Visible
    <2>3. cache' \in Seq(Layer) /\ Len(cache') = Len(savepoints) + 1
      BY <2>1, InvFacts, ClearedCache
    <2>4. ASSUME NEW p \in Pairs PROVE Lookup(p)' = NoEntry
      <3>1. \A i \in 1..Len(cache') : cache'[i][p] = NoEntry
        BY <2>1, <2>3 DEF EmptyLayer
      <3>2. Reads(cache', Len(cache'), p, NoEntry)
        BY <3>1 DEF Reads
      <3> QED
        BY <2>3, <3>2, NextLookupReads
    <2>5. [p \in Pairs |-> Lookup(p)'] = EmptyLayer
      BY <2>4 DEF EmptyLayer
    <2>6. /\ Visible'.memo = EmptyMemo /\ Visible'.completed = EmptyLayer
          /\ Visible'.candidates = {} /\ Visible'.clean = EmptyClean /\ Visible'.cache = EmptyLayer
      BY <2>1, <2>5 DEF Visible
    <2> QED
      BY <1>2, <1>3, <2>2, <2>6, NothingReadable
  <1> QED
    BY <1>4, <1>5

LEMMA RefineUndo ==
    ASSUME TransactionInv, Undo
    PROVE  View' = View /\ Stack' = Stack
  <1>1. undoing /\ UNCHANGED <<undoing, saved, graph>>
    BY DEF Undo, layerVars, worldVars
  <1> QED
    BY <1>1, SameStack DEF View, Readable

(* Journal and layers together implement nested transactions, for any      *)
(* memos, any nesting of savepoints, any resets inside them and any change *)
(* of the type graph: what a query can read after SemanticQueryState rolls *)
(* back is what it could read at the savepoint, or nothing if the graph    *)
(* has moved on since.                                                     *)
THEOREM TransactionalAlways == Spec => Transactional
  <1> USE DEF View, Stack, Depth
  <1>1. Init => Transactions!Init
    <2> SUFFICES ASSUME Init PROVE Transactions!Init
      OBVIOUS
    <2>1. ~undoing /\ Len(saved) = 0 /\ query = FALSE /\ identity = NoIdentity /\ graph = 0
      BY EmptySeq DEF Init
    <2>2. identity # graph
      BY <2>1, BoundAssumption
    <2>3. View = Nothing
      BY <2>1, <2>2, ReadableStale DEF Visible
    <2>4. Stack = <<>>
      BY <2>1
    <2> QED
      BY <2>1, <2>3, <2>4, Zenon DEF Transactions!Init
  <1>2. TransactionInv /\ [Next]_vars => [Transactions!Next]_<<View, Stack, query>>
    <2> SUFFICES ASSUME TransactionInv, [Next]_vars
                 PROVE  Transactions!Next \/ UNCHANGED <<View, Stack, query>>
      OBVIOUS
    <2> HIDE DEF View, Stack, Depth
    <2>1. CASE UNCHANGED vars
      <3>1. UNCHANGED <<memo, completed, candidates, clean, cache, identity, graph, saved, undoing, query>>
        BY <2>1 DEF vars, context, layerVars, worldVars
      <3> QED
        BY <3>1 DEF View, Stack, Depth, Readable, Visible, Lookup
    <2>2. CASE MutateGraph
      <3>1. ~query /\ query' = query
        BY <2>2 DEF MutateGraph, Between
      <3>2. View' = Nothing /\ Stack' = [i \in DOMAIN Stack |-> Nothing]
        BY <2>2, RefineMutateGraph
      <3> QED
        BY <3>1, <3>2, Zenon DEF Transactions!Next, Transactions!Forget, View, Stack, Depth
    <2>3. ASSUME NEW value \in Settings, ChangeSetting(value) PROVE Transactions!Next
      <3>1. ~query /\ query' = query
        BY <2>3 DEF ChangeSetting, Between
      <3>2. View' = Nothing /\ Stack' = [i \in DOMAIN Stack |-> Nothing]
        BY <2>3, RefineChangeSetting
      <3> QED
        BY <3>1, <3>2, Zenon DEF Transactions!Next, Transactions!Forget, View, Stack, Depth
    <2>4. CASE Savepoint
      <3>1. ~query /\ query' = query
        BY <2>4 DEF Savepoint, Between, worldVars
      <3>2. View' = View /\ Stack' = Append(Stack, View)
        BY <2>4, RefineSavepoint
      <3> QED
        BY <3>1, <3>2, Zenon DEF Transactions!Next, Transactions!Savepoint, View, Stack, Depth
    <2>5. CASE Commit
      <3>1. ~query /\ query' = query
        BY <2>5 DEF Commit, Between, worldVars
      <3>2. Stack # <<>> /\ View' = View /\ Stack' = SubSeq(Stack, 1, Len(Stack) - 1)
        BY <2>5, RefineCommit
      <3> QED
        BY <3>1, <3>2, Zenon DEF Transactions!Next, Transactions!Commit, View, Stack, Depth
    <2>6. CASE BeginRollback
      <3>1. ~query /\ query' = query
        BY <2>6 DEF BeginRollback, Between, worldVars
      <3>2. /\ Stack # <<>> /\ View' = Stack[Len(Stack)]
            /\ Stack' = SubSeq(Stack, 1, Len(Stack) - 1)
        BY <2>6, RefineBeginRollback
      <3> QED
        BY <3>1, <3>2, Zenon DEF Transactions!Next, Transactions!Rollback, View, Stack, Depth
    <2>7. CASE Undo
      <3>1. query' = query
        BY <2>7 DEF Undo, worldVars
      <3> QED
        BY <2>7, <3>1, RefineUndo
    <2>8. CASE EndRollback
      <3>1. query' = query
        BY <2>8 DEF EndRollback, worldVars
      <3> QED
        BY <2>8, <3>1, RefineEndRollback
    <2>9. CASE OpenQuery
      <3>1. ~query /\ query' = TRUE
        BY <2>9 DEF OpenQuery, Between
      <3>2. View' = View /\ Stack' = Stack
        BY <2>9, RefineOpenQuery
      <3> QED
        BY <3>1, <3>2, Zenon DEF Transactions!Next, Transactions!Open, View, Stack, Depth
    <2>10. CASE CloseQuery
      <3>1. query /\ query' = FALSE
        BY <2>10 DEF CloseQuery
      <3>2. UNCHANGED <<memo, completed, candidates, clean, cache, identity, graph, saved, undoing>>
        BY <2>10 DEF CloseQuery, context, layerVars
      <3>3. View' = View /\ Stack' = Stack
        BY <3>2 DEF View, Stack, Depth, Readable, Visible, Lookup
      <3> QED
        BY <3>1, <3>3, Zenon DEF Transactions!Next, Transactions!Close, View, Stack, Depth
    <2>11. CASE Writes
      <3>1. query /\ query' = query /\ UNCHANGED <<graph, saved, undoing>>
        BY <2>11 DEF Writes, WriteMemo, Promote, RememberYes, RememberFirstNo, RememberSecondNo,
                     MarkClean, worldVars, layerVars
      <3>2. Stack' = Stack
        BY <3>1, SameStack
      <3> QED
        BY <3>1, <3>2, Zenon DEF Transactions!Next, Transactions!Write, View, Stack, Depth
    <2> QED
      BY <2>1, <2>2, <2>3, <2>4, <2>5, <2>6, <2>7, <2>8, <2>9, <2>10, <2>11 DEF Next, Writes
  <1> QED
    BY <1>1, <1>2, KeepInit, KeepNext, PTL DEF Spec, Transactional, Transactions!Spec
=============================================================================
