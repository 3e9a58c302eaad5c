----------------------- MODULE SemanticQueryStateProofs -----------------------
(***************************************************************************)
(* What SemanticQueryState guarantees for any memos, any nesting and any   *)
(* order of queries, resets, commits and rollbacks.                        *)
(***************************************************************************)
EXTENDS SemanticQueryState, SequenceLemmas, SequenceTheorems, TLAPS

-----------------------------------------------------------------------------
(* Types.                                                                  *)

LEMMA NowEntry ==
    ASSUME graph \in Nat, setting \in Settings
    PROVE  Now \in Entry
  BY DEF Now, Entry, Stamp

LEMMA EmptyTypes ==
    EmptyMemo \in [Slots -> Entry] /\ EmptyLayer \in Layer /\ EmptyClean \in [Roots -> Entry]
  BY DEF EmptyMemo, EmptyLayer, EmptyClean, Layer, Entry

(* What each kind of undo record holds.                                    *)
LEMMA UndoneFields ==
    ASSUME NEW r \in Undone
    PROVE  /\ r.kind \in {"memo", "completed", "inserted", "removed", "clean", "reset"}
           /\ r.kind = "memo" => r.key \in Slots /\ r.previous \in Entry
           /\ r.kind = "completed" => r.key \in Pairs /\ r.previous \in Entry
           /\ r.kind \in {"inserted", "removed"} => r.key \in Pairs
           /\ r.kind = "clean" => r.key \in Roots
           /\ r.kind = "reset" =>
                /\ r.memo \in [Slots -> Entry] /\ r.completed \in Layer
                /\ r.candidates \subseteq Pairs /\ r.clean \in [Roots -> Entry]
                /\ r.cache \in Seq(Layer) /\ r.identity \in Nat \cup {NoIdentity}
  BY DEF Undone

(* The records the actions write.                                          *)
LEMMA RecordTypes ==
    ASSUME TypeOK
    PROVE  /\ \A s \in Slots : [kind |-> "memo", key |-> s, previous |-> memo[s]] \in Undone
           /\ \A p \in Pairs : /\ [kind |-> "completed", key |-> p, previous |-> NoEntry] \in Undone
                               /\ [kind |-> "inserted", key |-> p] \in Undone
                               /\ [kind |-> "removed", key |-> p] \in Undone
           /\ \A ty \in Roots : [kind |-> "clean", key |-> ty] \in Undone
           /\ [kind |-> "reset", memo |-> memo, completed |-> completed,
               candidates |-> candidates, clean |-> clean, cache |-> cache,
               identity |-> identity] \in Undone
  <1>1. memo \in [Slots -> Entry] /\ completed \in Layer /\ candidates \subseteq Pairs
        /\ clean \in [Roots -> Entry] /\ cache \in Seq(Layer) /\ identity \in Nat \cup {NoIdentity}
    BY DEF TypeOK
  <1>2. \A s \in Slots : [kind |-> "memo", key |-> s, previous |-> memo[s]] \in Undone
    BY <1>1 DEF Undone
  <1>3. \A p \in Pairs : /\ [kind |-> "completed", key |-> p, previous |-> NoEntry] \in Undone
                         /\ [kind |-> "inserted", key |-> p] \in Undone
                         /\ [kind |-> "removed", key |-> p] \in Undone
    BY DEF Undone, Entry
  <1>4. \A ty \in Roots : [kind |-> "clean", key |-> ty] \in Undone
    BY DEF Undone
  <1>5. [kind |-> "reset", memo |-> memo, completed |-> completed,
         candidates |-> candidates, clean |-> clean, cache |-> cache,
         identity |-> identity] \in Undone
    BY <1>1 DEF Undone
  <1> QED
    BY <1>2, <1>3, <1>4, <1>5

LEMMA RecordKeepsType ==
    ASSUME TypeOK, NEW r \in Undone, Record(r)
    PROVE  journal' \in Seq(Undone)
  <1>1. journal \in Seq(Undone)
    BY DEF TypeOK
  <1>2. Append(journal, r) \in Seq(Undone)
    BY <1>1, PushProperties
  <1> QED
    BY <1>1, <1>2 DEF Record

(* One layer per savepoint, and the base.                                  *)
LEMMA ClearedCache ==
    ASSUME TypeOK
    PROVE  LET c == [i \in 1..(Len(savepoints) + 1) |-> EmptyLayer]
           IN  c \in Seq(Layer) /\ c # <<>> /\ Len(c) = Len(savepoints) + 1
  <1> DEFINE c == [i \in 1..(Len(savepoints) + 1) |-> EmptyLayer]
  <1>1. Len(savepoints) \in Nat
    BY SeqFacts DEF TypeOK
  <1>2. c \in Seq(Layer) /\ Len(c) = Len(savepoints) + 1
    BY <1>1, EmptyTypes
  <1>3. c # <<>>
    BY <1>1, <1>2, EmptySeq
  <1> QED
    BY <1>2, <1>3

LEMMA FoldedType ==
    ASSUME TypeOK, Len(cache) > 1
    PROVE  Folded \in Seq(Layer) /\ Folded # <<>> /\ Len(Folded) = Len(cache) - 1
  <1> DEFINE n == Len(cache)
             merged == [p \in Pairs |-> IF cache[n][p] # NoEntry THEN cache[n][p] ELSE cache[n - 1][p]]
             below == SubSeq(cache, 1, n - 2)
  <1>1. n \in Nat /\ n > 1 /\ cache \in Seq(Layer) /\ \A i \in 1..n : cache[i] \in Layer
    BY SeqFacts DEF TypeOK
  <1>2. n \in 1..n /\ n - 1 \in 1..n /\ n - 2 \in Nat
    BY <1>1
  <1>3. merged \in Layer
    BY <1>1, <1>2 DEF Layer
  <1>4. below \in Seq(Layer) /\ Len(below) = n - 2
    <2>1. \A i \in 1..(n - 2) : cache[i] \in Layer
      BY <1>1
    <2>2. /\ below \in Seq(Layer)
          /\ Len(below) = IF 1 <= n - 2 THEN (n - 2) - 1 + 1 ELSE 0
      BY <1>1, <1>2, <2>1, SubSeqProperties
    <2>3. \A m \in Nat : m > 1 => (IF 1 <= m - 2 THEN (m - 2) - 1 + 1 ELSE 0) = m - 2
      OBVIOUS
    <2> QED
      BY <1>1, <2>2, <2>3
  <1> HIDE DEF merged, below
  <1>5. Append(below, merged) \in Seq(Layer) /\ Append(below, merged) # <<>>
        /\ Len(Append(below, merged)) = n - 1
    BY <1>1, <1>3, <1>4, PushProperties
  <1>6. Folded = Append(below, merged)
    BY DEF Folded, below, merged
  <1> QED
    BY <1>5, <1>6

(* Every value a step can undo to has its type.                            *)
LEMMA UndoTypes ==
    ASSUME TypeOK, NEW r \in Undone,
           IF r.kind = "reset" THEN UndoReset(r) ELSE UndoEntry(r)
    PROVE  /\ memo' \in [Slots -> Entry] /\ completed' \in Layer
           /\ candidates' \subseteq Pairs /\ clean' \in [Roots -> Entry]
           /\ cache' \in Seq(Layer) /\ identity' \in Nat \cup {NoIdentity}
  <1>1. CASE r.kind = "reset"
    BY <1>1, UndoneFields DEF UndoReset
  <1>2. CASE r.kind # "reset"
    <2>1. UndoEntry(r) /\ r.kind \in {"memo", "completed", "inserted", "removed", "clean"}
      BY <1>2, UndoneFields
    <2>2. cache' \in Seq(Layer) /\ identity' \in Nat \cup {NoIdentity}
      BY <2>1 DEF UndoEntry, TypeOK
    <2>3. memo' \in [Slots -> Entry]
      BY <2>1, UndoneFields DEF UndoEntry, TypeOK
    <2>4. completed' \in Layer
      BY <2>1, UndoneFields DEF UndoEntry, TypeOK, Layer
    <2>5. candidates' \subseteq Pairs /\ clean' \in [Roots -> Entry]
      <3>1. candidates \subseteq Pairs /\ clean \in [Roots -> Entry]
        BY DEF TypeOK
      <3>2. clean' \in [Roots -> Entry]
        BY <2>1, <3>1 DEF UndoEntry, Entry
      <3>3. r.kind \in {"inserted", "removed"} => r.key \in Pairs
        BY UndoneFields
      <3>4. \/ r.kind = "inserted" /\ candidates' = candidates \ {r.key}
            \/ r.kind = "removed" /\ candidates' = candidates \cup {r.key}
            \/ candidates' = candidates
        BY <2>1 DEF UndoEntry
      <3> QED
        BY <3>1, <3>2, <3>3, <3>4
    <2> QED
      BY <2>2, <2>3, <2>4, <2>5
  <1> QED
    BY <1>1, <1>2

(* A query's write.                                                        *)
Writes ==
    \/ \E slot \in Slots : WriteMemo(slot)
    \/ \E p \in Pairs : Promote(p) \/ RememberYes(p) \/ RememberFirstNo(p) \/ RememberSecondNo(p)
    \/ \E ty \in Roots : MarkClean(ty)

LEMMA TypeWrites ==
    ASSUME TypeOK, Writes
    PROVE  TypeOK'
  <1> USE DEF worldVars, layerVars
  <1>0. Now \in Entry /\ cache \in Seq(Layer) /\ cache # <<>>
    BY NowEntry DEF TypeOK
  <1>1. ASSUME NEW slot \in Slots, WriteMemo(slot) PROVE TypeOK'
    <2>1. journal' \in Seq(Undone)
      BY <1>1, RecordTypes, RecordKeepsType DEF WriteMemo
    <2>2. memo' \in [Slots -> Entry]
      BY <1>0, <1>1 DEF WriteMemo, TypeOK
    <2> QED
      BY <1>1, <2>1, <2>2 DEF WriteMemo, TypeOK
  <1>2. ASSUME NEW p \in Pairs, Promote(p) PROVE TypeOK'
    <2>1. Len(cache) \in 1..Len(cache) /\ DOMAIN cache = 1..Len(cache)
          /\ cache[Len(cache)] \in Layer
      BY <1>0, SeqFacts, Positions
    <2>2. [cache[Len(cache)] EXCEPT ![p] = Now] \in Layer
      BY <1>0, <2>1 DEF Layer
    <2>3. cache' = [cache EXCEPT ![Len(cache)] = [cache[Len(cache)] EXCEPT ![p] = Now]]
      BY <1>2 DEF Promote
    <2>4. cache' \in Seq(Layer) /\ Len(cache') = Len(cache)
      BY <1>0, <2>1, <2>2, <2>3, ExceptSeq
    <2>5. cache' # <<>>
      BY <1>0, <2>4, SeqFacts
    <2> QED
      BY <1>2, <2>4, <2>5 DEF Promote, TypeOK
  <1>3. ASSUME NEW p \in Pairs, RememberYes(p) PROVE TypeOK'
    <2>1. journal' \in Seq(Undone)
      BY <1>3, RecordTypes, RecordKeepsType DEF RememberYes
    <2>2. completed' \in Layer
      BY <1>0, <1>3 DEF RememberYes, TypeOK, Layer
    <2> QED
      BY <1>3, <2>1, <2>2 DEF RememberYes, TypeOK
  <1>4. ASSUME NEW p \in Pairs, RememberFirstNo(p) PROVE TypeOK'
    <2>1. journal' \in Seq(Undone)
      BY <1>4, RecordTypes, RecordKeepsType DEF RememberFirstNo
    <2> QED
      BY <1>4, <2>1 DEF RememberFirstNo, TypeOK
  <1>5. ASSUME NEW p \in Pairs, RememberSecondNo(p) PROVE TypeOK'
    <2> DEFINE taken == [kind |-> "removed", key |-> p]
               inserted == [kind |-> "completed", key |-> p, previous |-> NoEntry]
    <2>1. taken \in Undone /\ inserted \in Undone
      BY RecordTypes
    <2> HIDE DEF taken, inserted
    <2>2. Append(Append(journal, taken), inserted) \in Seq(Undone)
      BY <2>1, PushProperties DEF TypeOK
    <2>3. CASE completed[p] = NoEntry
      <3>1. journal' \in Seq(Undone)
        BY <1>5, <2>2, <2>3 DEF RememberSecondNo, TypeOK, taken, inserted
      <3>2. completed' \in Layer
        BY <1>0, <1>5, <2>3 DEF RememberSecondNo, TypeOK, Layer
      <3> QED
        BY <1>5, <3>1, <3>2 DEF RememberSecondNo, TypeOK
    <2>4. CASE completed[p] # NoEntry
      <3>1. Record(taken) /\ completed' = completed
        BY <1>5, <2>4 DEF RememberSecondNo, taken
      <3>2. journal' \in Seq(Undone)
        BY <2>1, <3>1, RecordKeepsType
      <3> QED
        BY <1>5, <3>1, <3>2 DEF RememberSecondNo, TypeOK
    <2> QED
      BY <2>3, <2>4
  <1>6. ASSUME NEW ty \in Roots, MarkClean(ty) PROVE TypeOK'
    <2>1. journal' \in Seq(Undone)
      BY <1>6, RecordTypes, RecordKeepsType DEF MarkClean
    <2>2. clean' \in [Roots -> Entry]
      BY <1>0, <1>6 DEF MarkClean, TypeOK
    <2> QED
      BY <1>6, <2>1, <2>2 DEF MarkClean, TypeOK
  <1> QED
    BY <1>1, <1>2, <1>3, <1>4, <1>5, <1>6 DEF Writes

-----------------------------------------------------------------------------
(* Layers and marks.                                                       *)

LEMMA Lengths ==
    ASSUME TypeOK
    PROVE  /\ Len(cache) \in Nat /\ Len(savepoints) \in Nat /\ Len(journal) \in Nat /\ mark \in Nat
           /\ DOMAIN savepoints = 1..Len(savepoints) /\ DOMAIN journal = 1..Len(journal)
           /\ \A i \in 1..Len(savepoints) : savepoints[i] \in Nat
           /\ \A j \in 1..Len(journal) : journal[j] \in Undone
           /\ savepoints # <<>> <=> Len(savepoints) > 0
  BY SeqFacts DEF TypeOK

(* A longer journal does not disturb the marks.                            *)
LEMMA LayersGrow ==
    ASSUME TypeOK, LayersSuffice, UNCHANGED <<savepoints, undoing, mark>>,
           Len(cache') > Len(savepoints) + (IF undoing THEN 1 ELSE 0),
           Len(journal') \in Nat, Len(journal') >= Len(journal)
    PROVE  LayersSuffice'
  BY Lengths DEF LayersSuffice

(* Appending a record: a reset record must be as deep as the nesting.      *)
LEMMA DeepPush ==
    ASSUME TypeOK, NEW J \in Seq(Undone), Deep(J), NEW r \in Undone,
           r.kind = "reset" => ~undoing /\ Len(r.cache) > Len(savepoints)
    PROVE  Deep(Append(J, r))
  <1> DEFINE K == Append(J, r)
  <1>1. DOMAIN K = 1..(Len(J) + 1) /\ DOMAIN J = 1..Len(J) /\ Len(J) \in Nat
        /\ (\A i \in 1..Len(J) : K[i] = J[i]) /\ K[Len(J) + 1] = r
    BY PushProperties, SeqFacts
  <1> HIDE DEF K
  <1> SUFFICES ASSUME NEW j \in DOMAIN K, K[j].kind = "reset"
               PROVE  /\ \A i \in DOMAIN savepoints : savepoints[i] < j => Len(K[j].cache) > i
                      /\ undoing /\ mark < j => Len(K[j].cache) > Len(savepoints) + 1
    BY DEF Deep, K
  <1>2. CASE j \in 1..Len(J)
    BY <1>1, <1>2 DEF Deep
  <1>3. CASE j = Len(J) + 1
    <2>1. K[j] = r /\ ~undoing /\ Len(r.cache) > Len(savepoints)
      BY <1>1, <1>3
    <2>2. Len(r.cache) \in Nat
      BY <2>1, UndoneFields, SeqFacts
    <2> QED
      BY <2>1, <2>2, Lengths
  <1> QED
    BY <1>1, <1>2, <1>3

LEMMA RecordDeep ==
    ASSUME LayerInv, NEW r \in Undone, Record(r), UNCHANGED <<savepoints, undoing, mark>>,
           r.kind = "reset" => ~undoing /\ Len(r.cache) > Len(savepoints)
    PROVE  Deep(journal)' /\ Len(journal') \in Nat /\ Len(journal') >= Len(journal)
  <1>0. TypeOK /\ Deep(journal) /\ journal \in Seq(Undone) /\ Len(journal) \in Nat
    BY Lengths DEF LayerInv, TypeOK
  <1>1. CASE journal' = journal
    BY <1>0, <1>1 DEF Deep
  <1>2. CASE journal' = Append(journal, r)
    <2>1. Deep(Append(journal, r))
      BY <1>0, DeepPush
    <2>2. Len(journal') = Len(journal) + 1
      BY <1>0, <1>2, PushProperties
    <2> QED
      BY <1>0, <1>2, <2>1, <2>2 DEF Deep
  <1> QED
    BY <1>1, <1>2 DEF Record

LEMMA LayersWrites ==
    ASSUME LayerInv, Writes
    PROVE  LayersSuffice' /\ Deep(journal)'
  <1> USE DEF layerVars
  <1>0. /\ TypeOK /\ LayersSuffice /\ Deep(journal) /\ journal \in Seq(Undone)
        /\ Len(journal) \in Nat /\ cache \in Seq(Layer) /\ cache # <<>>
        /\ Len(cache) > Len(savepoints) + (IF undoing THEN 1 ELSE 0)
    BY Lengths DEF LayerInv, TypeOK, LayersSuffice
  <1>1. ASSUME NEW r \in Undone, Record(r), r.kind # "reset", cache' = cache,
               UNCHANGED <<savepoints, undoing, mark>>
        PROVE  LayersSuffice' /\ Deep(journal)'
    BY <1>0, <1>1, RecordDeep, LayersGrow
  <1>2. ASSUME NEW slot \in Slots, WriteMemo(slot) PROVE LayersSuffice' /\ Deep(journal)'
    <2> DEFINE r == [kind |-> "memo", key |-> slot, previous |-> memo[slot]]
    <2>1. r \in Undone /\ r.kind # "reset"
      BY <1>0, RecordTypes
    <2>2. Record(r) /\ cache' = cache /\ UNCHANGED <<savepoints, undoing, mark>>
      BY <1>2 DEF WriteMemo
    <2> HIDE DEF r
    <2> QED
      BY <1>1, <2>1, <2>2
  <1>3. ASSUME NEW p \in Pairs, Promote(p) PROVE LayersSuffice' /\ Deep(journal)'
    <2>1. Len(cache) \in 1..Len(cache) /\ cache[Len(cache)] \in Layer
      BY <1>0, SeqFacts, Positions
    <2>2. Now \in Entry
      BY <1>0, NowEntry DEF TypeOK
    <2>3. [cache[Len(cache)] EXCEPT ![p] = Now] \in Layer
      BY <2>1, <2>2 DEF Layer
    <2>4. cache' = [cache EXCEPT ![Len(cache)] = [cache[Len(cache)] EXCEPT ![p] = Now]]
      BY <1>3 DEF Promote
    <2>5. Len(cache') = Len(cache)
      BY <1>0, <2>1, <2>3, <2>4, ExceptSeq
    <2>6. UNCHANGED <<journal, savepoints, undoing, mark>>
      BY <1>3 DEF Promote
    <2>7. LayersSuffice'
      BY <1>0, <2>5, <2>6, LayersGrow
    <2> QED
      BY <1>0, <2>6, <2>7 DEF Deep
  <1>4. ASSUME NEW p \in Pairs, RememberYes(p) PROVE LayersSuffice' /\ Deep(journal)'
    <2> DEFINE r == [kind |-> "completed", key |-> p, previous |-> NoEntry]
    <2>1. r \in Undone /\ r.kind # "reset"
      BY <1>0, RecordTypes
    <2>2. Record(r) /\ cache' = cache /\ UNCHANGED <<savepoints, undoing, mark>>
      BY <1>4 DEF RememberYes
    <2> HIDE DEF r
    <2> QED
      BY <1>1, <2>1, <2>2
  <1>5. ASSUME NEW p \in Pairs, RememberFirstNo(p) PROVE LayersSuffice' /\ Deep(journal)'
    <2> DEFINE r == [kind |-> "inserted", key |-> p]
    <2>1. r \in Undone /\ r.kind # "reset"
      BY <1>0, RecordTypes
    <2>2. Record(r) /\ cache' = cache /\ UNCHANGED <<savepoints, undoing, mark>>
      BY <1>5 DEF RememberFirstNo
    <2> HIDE DEF r
    <2> QED
      BY <1>1, <2>1, <2>2
  <1>6. ASSUME NEW p \in Pairs, RememberSecondNo(p) PROVE LayersSuffice' /\ Deep(journal)'
    <2> DEFINE taken == [kind |-> "removed", key |-> p]
               inserted == [kind |-> "completed", key |-> p, previous |-> NoEntry]
    <2>1. taken \in Undone /\ inserted \in Undone /\ taken.kind # "reset" /\ inserted.kind # "reset"
      BY <1>0, RecordTypes
    <2>2. cache' = cache /\ UNCHANGED <<savepoints, undoing, mark>>
      BY <1>6 DEF RememberSecondNo
    <2>3. \/ Record(taken)
          \/ journal' = journal
          \/ journal' = Append(Append(journal, taken), inserted)
      BY <1>6 DEF RememberSecondNo
    <2> HIDE DEF taken, inserted
    <2>4. CASE Record(taken)
      BY <1>1, <2>1, <2>2, <2>4
    <2>5. CASE journal' = journal
      BY <1>0, <2>2, <2>5, LayersGrow DEF Deep
    <2>6. CASE journal' = Append(Append(journal, taken), inserted)
      <3>1. Append(journal, taken) \in Seq(Undone) /\ Len(Append(journal, taken)) = Len(journal) + 1
        BY <1>0, <2>1, PushProperties
      <3>2. Len(journal') = Len(journal) + 1 + 1
        BY <2>1, <2>6, <3>1, PushProperties
      <3>3. LayersSuffice'
        BY <1>0, <2>2, <3>2, LayersGrow
      <3>4. Deep(Append(Append(journal, taken), inserted))
        BY <1>0, <2>1, <3>1, DeepPush
      <3> QED
        BY <2>2, <2>6, <3>3, <3>4 DEF Deep
    <2> QED
      BY <2>3, <2>4, <2>5, <2>6
  <1>7. ASSUME NEW ty \in Roots, MarkClean(ty) PROVE LayersSuffice' /\ Deep(journal)'
    <2> DEFINE r == [kind |-> "clean", key |-> ty]
    <2>1. r \in Undone /\ r.kind # "reset"
      BY <1>0, RecordTypes
    <2>2. Record(r) /\ cache' = cache /\ UNCHANGED <<savepoints, undoing, mark>>
      BY <1>7 DEF MarkClean
    <2> HIDE DEF r
    <2> QED
      BY <1>1, <2>1, <2>2
  <1> QED
    BY <1>2, <1>3, <1>4, <1>5, <1>6, <1>7 DEF Writes

LEMMA LayerSavepoint ==
    ASSUME LayerInv, Savepoint
    PROVE  LayerInv'
  <1> USE DEF worldVars
  <1>0. TypeOK /\ LayersSuffice /\ Deep(journal) /\ ~undoing
    BY DEF LayerInv, Savepoint, Between
  <1>1. cache' = Append(cache, EmptyLayer) /\ savepoints' = Append(savepoints, Len(journal))
        /\ UNCHANGED <<journal, undoing, mark>>
    BY DEF Savepoint
  <1>2. cache' \in Seq(Layer) /\ cache' # <<>> /\ Len(cache') = Len(cache) + 1
    <2>1. cache \in Seq(Layer) /\ EmptyLayer \in Layer
      BY <1>0, EmptyTypes DEF TypeOK
    <2> QED
      BY <1>1, <2>1, PushProperties
  <1>3. /\ savepoints' \in Seq(Nat) /\ Len(savepoints') = Len(savepoints) + 1
        /\ DOMAIN savepoints' = 1..(Len(savepoints) + 1)
        /\ \A i \in 1..Len(savepoints) : savepoints'[i] = savepoints[i]
        /\ savepoints'[Len(savepoints) + 1] = Len(journal)
    BY <1>0, <1>1, Lengths, PushProperties DEF TypeOK
  <1>4. TypeOK'
    BY <1>0, <1>1, <1>2, <1>3 DEF TypeOK, Savepoint
  <1>5. LayersSuffice'
    <2>1. Len(cache') > Len(savepoints')
      BY <1>0, <1>2, <1>3, Lengths DEF LayersSuffice
    <2>2. \A i \in DOMAIN savepoints' : savepoints'[i] \in Nat /\ savepoints'[i] <= Len(journal)
      <3> SUFFICES ASSUME NEW i \in DOMAIN savepoints'
                   PROVE  savepoints'[i] \in Nat /\ savepoints'[i] <= Len(journal)
        OBVIOUS
      <3>1. i \in 1..Len(savepoints) \/ i = Len(savepoints) + 1
        BY <1>0, <1>3, Lengths
      <3> QED
        BY <1>0, <1>3, <3>1, Lengths DEF LayersSuffice
    <2>3. ASSUME NEW i \in DOMAIN savepoints', NEW j \in DOMAIN savepoints', i <= j
          PROVE  savepoints'[i] <= savepoints'[j]
      <3>1. CASE j = Len(savepoints) + 1
        BY <1>3, <2>2, <3>1
      <3>2. CASE j # Len(savepoints) + 1
        <4>1. i \in 1..Len(savepoints) /\ j \in 1..Len(savepoints)
          BY <1>0, <1>3, <2>3, <3>2, Lengths
        <4> QED
          BY <1>0, <1>3, <2>3, <4>1, Lengths DEF LayersSuffice
      <3> QED
        BY <3>1, <3>2
    <2> QED
      BY <1>0, <1>1, <2>1, <2>2, <2>3 DEF LayersSuffice
  <1>6. Deep(journal)'
    <2> SUFFICES ASSUME NEW j \in DOMAIN journal, journal[j].kind = "reset",
                        NEW i \in DOMAIN savepoints', savepoints'[i] < j
                 PROVE  Len(journal[j].cache) > i
      BY <1>0, <1>1 DEF Deep
    <2>1. i # Len(savepoints) + 1
      BY <1>0, <1>3, Lengths
    <2>2. i \in 1..Len(savepoints)
      BY <1>0, <1>3, <2>1, Lengths
    <2> QED
      BY <1>0, <1>3, <2>2, Lengths DEF Deep
  <1> QED
    BY <1>4, <1>5, <1>6 DEF LayerInv

(* What is left of the marks after one is popped.                          *)
LEMMA PoppedMarks ==
    ASSUME TypeOK, Speculative, savepoints' = SubSeq(savepoints, 1, Len(savepoints) - 1)
    PROVE  /\ savepoints' \in Seq(Nat) /\ Len(savepoints') = Len(savepoints) - 1
           /\ DOMAIN savepoints' = 1..(Len(savepoints) - 1)
           /\ \A i \in DOMAIN savepoints' : i \in DOMAIN savepoints /\ savepoints'[i] = savepoints[i]
           /\ Len(savepoints) \in DOMAIN savepoints
           /\ \A i \in DOMAIN savepoints' : i <= Len(savepoints)
  <1>1. savepoints \in Seq(Nat) /\ savepoints # <<>>
    BY DEF TypeOK, Speculative
  <1>2. /\ savepoints' \in Seq(Nat) /\ Len(savepoints') = Len(savepoints) - 1
        /\ \A i \in 1..(Len(savepoints) - 1) : savepoints'[i] = savepoints[i]
        /\ Len(savepoints) \in Nat \ {0}
    BY <1>1, PopProperties
  <1>3. DOMAIN savepoints' = 1..(Len(savepoints) - 1) /\ DOMAIN savepoints = 1..Len(savepoints)
    BY <1>1, <1>2, SeqFacts
  <1> QED
    BY <1>2, <1>3

LEMMA LayerCommit ==
    ASSUME LayerInv, Commit
    PROVE  LayerInv'
  <1> USE DEF worldVars
  <1>0. TypeOK /\ LayersSuffice /\ Deep(journal) /\ ~undoing /\ Speculative
    BY DEF LayerInv, Commit, Between
  <1>1. /\ cache' = Folded /\ savepoints' = SubSeq(savepoints, 1, Len(savepoints) - 1)
        /\ journal' = (IF Len(savepoints) = 1 THEN <<>> ELSE journal)
        /\ UNCHANGED <<undoing, mark>>
    BY DEF Commit
  <1>2. Len(cache) > 1
    BY <1>0, Lengths DEF LayersSuffice, Speculative
  <1>3. cache' \in Seq(Layer) /\ cache' # <<>> /\ Len(cache') = Len(cache) - 1
    BY <1>0, <1>1, <1>2, FoldedType
  <1>4. journal' \in Seq(Undone)
    BY <1>0, <1>1 DEF TypeOK
  <1>5. TypeOK'
    BY <1>0, <1>1, <1>3, <1>4, PoppedMarks DEF TypeOK, Commit
  <1>6. LayersSuffice'
    <2>1. Len(cache') > Len(savepoints')
      BY <1>0, <1>1, <1>3, Lengths, PoppedMarks DEF LayersSuffice
    <2>2. \A i \in DOMAIN savepoints' : savepoints'[i] <= Len(journal')
      <3>1. CASE Len(savepoints) = 1
        <4>1. DOMAIN savepoints' = {}
          BY <1>0, <1>1, <3>1, PoppedMarks
        <4> QED
          BY <4>1
      <3>2. CASE Len(savepoints) # 1
        BY <1>0, <1>1, <3>2, PoppedMarks DEF LayersSuffice
      <3> QED
        BY <3>1, <3>2
    <2>3. \A i, j \in DOMAIN savepoints' : i <= j => savepoints'[i] <= savepoints'[j]
      BY <1>0, <1>1, PoppedMarks DEF LayersSuffice
    <2> QED
      BY <1>0, <1>1, <2>1, <2>2, <2>3 DEF LayersSuffice
  <1>7. Deep(journal)'
    <2>1. CASE Len(savepoints) = 1
      BY <1>1, <2>1 DEF Deep
    <2>2. CASE Len(savepoints) # 1
      BY <1>0, <1>1, <2>2, PoppedMarks DEF Deep
    <2> QED
      BY <2>1, <2>2
  <1> QED
    BY <1>5, <1>6, <1>7 DEF LayerInv

LEMMA LayerBeginRollback ==
    ASSUME LayerInv, BeginRollback
    PROVE  LayerInv'
  <1> USE DEF worldVars, context
  <1>0. TypeOK /\ LayersSuffice /\ Deep(journal) /\ ~undoing /\ Speculative
    BY DEF LayerInv, BeginRollback, Between
  <1>1. /\ savepoints' = SubSeq(savepoints, 1, Len(savepoints) - 1)
        /\ mark' = savepoints[Len(savepoints)] /\ undoing' = TRUE
        /\ UNCHANGED <<cache, journal>>
    BY DEF BeginRollback
  <1>2. mark' \in Nat /\ mark' <= Len(journal)
    BY <1>0, <1>1, Lengths, PoppedMarks DEF LayersSuffice
  <1>3. TypeOK'
    BY <1>0, <1>1, <1>2, PoppedMarks DEF TypeOK, BeginRollback
  <1>4. LayersSuffice'
    <2>1. Len(cache') > Len(savepoints') + 1
      BY <1>0, <1>1, Lengths, PoppedMarks DEF LayersSuffice
    <2>2. \A i \in DOMAIN savepoints' : savepoints'[i] <= Len(journal) /\ savepoints'[i] <= mark'
      BY <1>0, <1>1, PoppedMarks DEF LayersSuffice
    <2>3. \A i, j \in DOMAIN savepoints' : i <= j => savepoints'[i] <= savepoints'[j]
      BY <1>0, <1>1, PoppedMarks DEF LayersSuffice
    <2> QED
      BY <1>1, <1>2, <2>1, <2>2, <2>3 DEF LayersSuffice
  <1>5. Deep(journal)'
    <2>1. Len(savepoints') + 1 = Len(savepoints) /\ Len(savepoints) \in DOMAIN savepoints
      BY <1>0, <1>1, Lengths, PoppedMarks
    <2> QED
      BY <1>0, <1>1, <2>1, PoppedMarks DEF Deep
  <1> QED
    BY <1>3, <1>4, <1>5 DEF LayerInv

(* A journal without its last record.                                      *)
LEMMA PoppedJournal ==
    ASSUME TypeOK, Len(journal) > 0, journal' = SubSeq(journal, 1, Len(journal) - 1)
    PROVE  /\ journal' \in Seq(Undone) /\ Len(journal') = Len(journal) - 1
           /\ DOMAIN journal' = 1..(Len(journal) - 1)
           /\ \A j \in DOMAIN journal' : j \in DOMAIN journal /\ journal'[j] = journal[j]
           /\ Len(journal) \in DOMAIN journal /\ journal[Len(journal)] \in Undone
           /\ \A j \in DOMAIN journal : j \in DOMAIN journal' \/ j = Len(journal)
  <1>1. journal \in Seq(Undone) /\ journal # <<>> /\ Len(journal) \in Nat
    BY Lengths, SeqFacts DEF TypeOK
  <1>2. /\ journal' \in Seq(Undone) /\ Len(journal') = Len(journal) - 1
        /\ \A i \in 1..(Len(journal) - 1) : journal'[i] = journal[i]
        /\ Len(journal) \in Nat \ {0} /\ journal[Len(journal)] \in Undone
    BY <1>1, PopProperties
  <1>3. DOMAIN journal' = 1..(Len(journal) - 1) /\ DOMAIN journal = 1..Len(journal)
    BY <1>1, <1>2, SeqFacts
  <1> QED
    BY <1>2, <1>3

LEMMA LayerUndo ==
    ASSUME LayerInv, Undo
    PROVE  LayerInv'
  <1> USE DEF worldVars, layerVars
  <1> DEFINE r == journal[Len(journal)]
  <1>0. TypeOK /\ LayersSuffice /\ Deep(journal) /\ undoing /\ Len(journal) > mark
    BY DEF LayerInv, Undo
  <1>1. /\ journal' = SubSeq(journal, 1, Len(journal) - 1)
        /\ UNCHANGED <<savepoints, undoing, mark>>
        /\ IF r.kind = "reset" THEN UndoReset(r) ELSE UndoEntry(r)
    BY DEF Undo
  <1>2. Len(journal) > 0 /\ Len(journal) \in Nat /\ mark \in Nat
    BY <1>0, Lengths
  <1>3. r \in Undone
    BY <1>0, <1>1, <1>2, PoppedJournal
  <1> HIDE DEF r
  <1>4. /\ memo' \in [Slots -> Entry] /\ completed' \in Layer
        /\ candidates' \subseteq Pairs /\ clean' \in [Roots -> Entry]
        /\ cache' \in Seq(Layer) /\ identity' \in Nat \cup {NoIdentity}
    BY <1>0, <1>1, <1>3, UndoTypes
  <1>5. Len(cache') > Len(savepoints) + 1
    <2>1. CASE r.kind = "reset"
      <3>1. cache' = r.cache
        BY <1>1, <2>1 DEF UndoReset
      <3>2. Len(journal) \in DOMAIN journal /\ mark < Len(journal)
        BY <1>0, <1>1, <1>2, PoppedJournal
      <3> QED
        BY <1>0, <2>1, <3>1, <3>2 DEF Deep, r
    <2>2. CASE r.kind # "reset"
      BY <1>0, <1>1, <2>2 DEF UndoEntry, LayersSuffice
    <2> QED
      BY <2>1, <2>2
  <1>6. cache' # <<>>
    <2>1. Len(cache') \in Nat /\ (cache' = <<>> <=> Len(cache') = 0)
      BY <1>4, SeqFacts
    <2> QED
      BY <1>0, <1>5, <2>1, Lengths
  <1>7. TypeOK'
    BY <1>0, <1>1, <1>2, <1>4, <1>6, PoppedJournal DEF TypeOK, Undo
  <1>8. LayersSuffice'
    <2>1. mark <= Len(journal')
      BY <1>0, <1>1, <1>2, PoppedJournal
    <2>2. \A i \in DOMAIN savepoints : savepoints[i] <= Len(journal')
      BY <1>0, <1>1, <1>2, PoppedJournal, Lengths DEF LayersSuffice
    <2> QED
      BY <1>0, <1>1, <1>5, <2>1, <2>2 DEF LayersSuffice
  <1>9. Deep(journal)'
    BY <1>0, <1>1, <1>2, PoppedJournal DEF Deep
  <1> QED
    BY <1>7, <1>8, <1>9 DEF LayerInv

LEMMA LayerEndRollback ==
    ASSUME LayerInv, EndRollback
    PROVE  LayerInv'
  <1> USE DEF worldVars
  <1>0. TypeOK /\ LayersSuffice /\ Deep(journal) /\ undoing /\ Len(journal) <= mark
    BY DEF LayerInv, EndRollback
  <1>1. /\ cache' = SubSeq(cache, 1, Len(cache) - 1) /\ undoing' = FALSE /\ mark' = 0
        /\ UNCHANGED <<savepoints, journal>>
    BY DEF EndRollback
  <1>2. cache' \in Seq(Layer) /\ Len(cache') = Len(cache) - 1 /\ Len(cache) \in Nat \ {0}
    BY <1>0, <1>1, PopProperties DEF TypeOK
  <1>3. Len(cache') > Len(savepoints)
    BY <1>0, <1>2, Lengths DEF LayersSuffice
  <1>4. cache' # <<>>
    <2>1. cache' = <<>> <=> Len(cache') = 0
      BY <1>2, SeqFacts
    <2> QED
      BY <1>0, <1>3, <2>1, Lengths
  <1>5. TypeOK'
    <2>1. UNCHANGED <<memo, completed, candidates, clean, identity, setting, journal, savepoints,
                      query, graph>>
      BY DEF EndRollback
    <2>2. undoing' \in BOOLEAN /\ mark' \in Nat
      BY <1>1
    <2>3. cache' \in Seq(Layer) /\ cache' # <<>>
      BY <1>2, <1>4
    <2> QED
      BY <1>0, <2>1, <2>2, <2>3, Zenon DEF TypeOK
  <1>6. LayersSuffice'
    BY <1>0, <1>1, <1>3 DEF LayersSuffice
  <1>7. Deep(journal)'
    BY <1>0, <1>1 DEF Deep
  <1> QED
    BY <1>5, <1>6, <1>7 DEF LayerInv

LEMMA LayerOpenQuery ==
    ASSUME LayerInv, OpenQuery
    PROVE  LayerInv'
  <1> USE DEF layerVars, context
  <1>0. TypeOK /\ LayersSuffice /\ Deep(journal) /\ ~undoing
    BY DEF LayerInv, OpenQuery, Between
  <1>1. CASE identity # graph
    <2> DEFINE r == [kind |-> "reset", memo |-> memo, completed |-> completed,
                     candidates |-> candidates, clean |-> clean, cache |-> cache,
                     identity |-> identity]
               c == [i \in 1..(Len(savepoints) + 1) |-> EmptyLayer]
    <2>1. r \in Undone /\ r.cache = cache
      BY <1>0, RecordTypes
    <2>2. c \in Seq(Layer) /\ c # <<>> /\ Len(c) = Len(savepoints) + 1
      BY <1>0, ClearedCache
    <2>3. Record(r) /\ cache' = c /\ UNCHANGED <<savepoints, undoing, mark>>
      BY <1>1 DEF OpenQuery, Reset
    <2> HIDE DEF r, c
    <2>4. Len(r.cache) > Len(savepoints)
      BY <1>0, <2>1 DEF LayersSuffice
    <2>5. Deep(journal)' /\ Len(journal') \in Nat /\ Len(journal') >= Len(journal)
      BY <1>0, <2>1, <2>3, <2>4, RecordDeep
    <2>6. Len(cache') > Len(savepoints)
      BY <1>0, <2>2, <2>3, Lengths
    <2>7. LayersSuffice'
      BY <1>0, <2>3, <2>5, <2>6, LayersGrow, Lengths
    <2>8. journal' \in Seq(Undone)
      BY <1>0, <2>1, <2>3, RecordKeepsType
    <2>9. TypeOK'
      BY <1>0, <1>1, <2>2, <2>3, <2>8, EmptyTypes DEF TypeOK, OpenQuery, Reset
    <2> QED
      BY <2>5, <2>7, <2>9 DEF LayerInv
  <1>2. CASE identity = graph
    BY <1>0, <1>2 DEF OpenQuery, LayerInv, TypeOK, LayersSuffice, Deep
  <1> QED
    BY <1>1, <1>2

LEMMA LayerChangeSetting ==
    ASSUME LayerInv, NEW value \in Settings, ChangeSetting(value)
    PROVE  LayerInv'
  <1> USE DEF layerVars
  <1>0. TypeOK /\ ~undoing /\ savepoints = <<>>
    BY DEF LayerInv, ChangeSetting, Between, Speculative
  <1>1. cache' = <<EmptyLayer>> /\ journal' = <<>> /\ UNCHANGED <<savepoints, undoing, mark>>
    BY DEF ChangeSetting
  <1>2. cache' \in Seq(Layer) /\ Len(cache') = 1 /\ cache' # <<>>
    BY <1>1, EmptyTypes
  <1>3. TypeOK'
    BY <1>0, <1>1, <1>2, EmptyTypes DEF TypeOK, ChangeSetting
  <1>4. LayersSuffice' /\ Deep(journal)'
    BY <1>0, <1>1, <1>2 DEF LayersSuffice, Deep
  <1> QED
    BY <1>3, <1>4 DEF LayerInv

LEMMA LayerInit == Init => LayerInv
  <1> SUFFICES ASSUME Init PROVE LayerInv
    OBVIOUS
  <1>1. cache \in Seq(Layer) /\ Len(cache) = 1 /\ cache # <<>>
    BY EmptyTypes DEF Init
  <1>2. TypeOK
    <2>1. memo \in [Slots -> Entry] /\ completed \in Layer
      BY EmptyTypes DEF Init
    <2>2. candidates \subseteq Pairs /\ clean \in [Roots -> Entry]
          /\ identity \in Nat \cup {NoIdentity} /\ setting \in Settings
      BY EmptyTypes DEF Init
    <2>3. journal \in Seq(Undone) /\ savepoints \in Seq(Nat)
      BY DEF Init
    <2>4. undoing \in BOOLEAN /\ mark \in Nat /\ query \in BOOLEAN /\ graph \in Nat
      BY DEF Init
    <2> QED
      BY <1>1, <2>1, <2>2, <2>3, <2>4 DEF TypeOK
  <1>3. LayersSuffice /\ Deep(journal)
    BY <1>1 DEF Init, LayersSuffice, Deep
  <1> QED
    BY <1>2, <1>3 DEF LayerInv

LEMMA LayerNext == LayerInv /\ [Next]_vars => LayerInv'
  <1> SUFFICES ASSUME LayerInv, [Next]_vars PROVE LayerInv'
    OBVIOUS
  <1>1. CASE UNCHANGED vars
    BY <1>1 DEF LayerInv, TypeOK, LayersSuffice, Deep, vars, context, layerVars, worldVars
  <1>2. CASE MutateGraph
    BY <1>2 DEF MutateGraph, LayerInv, TypeOK, LayersSuffice, Deep, context, layerVars
  <1>3. CASE CloseQuery
    BY <1>3 DEF CloseQuery, LayerInv, TypeOK, LayersSuffice, Deep, context, layerVars
  <1>4. CASE Writes
    BY <1>4, TypeWrites, LayersWrites DEF LayerInv
  <1>5. CASE \E value \in Settings : ChangeSetting(value)
    BY <1>5, LayerChangeSetting
  <1>6. CASE Savepoint \/ Commit \/ BeginRollback \/ Undo \/ EndRollback \/ OpenQuery
    BY <1>6, LayerSavepoint, LayerCommit, LayerBeginRollback, LayerUndo, LayerEndRollback,
       LayerOpenQuery
  <1> QED
    BY <1>1, <1>2, <1>3, <1>4, <1>5, <1>6 DEF Next, Writes

LEMMA LayerInvariant == Spec => []LayerInv
  BY LayerInit, LayerNext, PTL DEF Spec

(* The types of the query state are kept by every operation.               *)
THEOREM StateTypeCorrect == Spec => []TypeOK
  <1>1. LayerInv => TypeOK
    BY DEF LayerInv
  <1> QED
    BY <1>1, LayerInvariant, PTL

(* The layer protocol never closes a layer that is not there: the expects  *)
(* of commit, rollback and take_savepoint_base cannot fail, however        *)
(* savepoints, resets, commits and rollbacks are nested.                   *)
THEOREM LayersAlwaysSuffice == Spec => []LayersSuffice
  <1>1. LayerInv => LayersSuffice
    BY DEF LayerInv
  <1> QED
    BY <1>1, LayerInvariant, PTL
-----------------------------------------------------------------------------
(* The journal is empty outside every layer.                               *)

(* A write adds to the journal only inside a layer.                        *)
LEMMA WritesJournal ==
    ASSUME Writes \/ OpenQuery \/ MutateGraph \/ CloseQuery
    PROVE  UNCHANGED <<savepoints, undoing, mark>> /\ (savepoints = <<>> => journal' = journal)
  <1> USE DEF layerVars, context, Record, Speculative
  <1>1. ASSUME NEW slot \in Slots, WriteMemo(slot)
        PROVE  UNCHANGED <<savepoints, undoing, mark>> /\ (savepoints = <<>> => journal' = journal)
    BY <1>1 DEF WriteMemo
  <1>2. ASSUME NEW p \in Pairs, Promote(p) \/ RememberYes(p) \/ RememberFirstNo(p) \/ RememberSecondNo(p)
        PROVE  UNCHANGED <<savepoints, undoing, mark>> /\ (savepoints = <<>> => journal' = journal)
    BY <1>2 DEF Promote, RememberYes, RememberFirstNo, RememberSecondNo
  <1>3. ASSUME NEW ty \in Roots, MarkClean(ty)
        PROVE  UNCHANGED <<savepoints, undoing, mark>> /\ (savepoints = <<>> => journal' = journal)
    BY <1>3 DEF MarkClean
  <1>4. CASE OpenQuery \/ MutateGraph \/ CloseQuery
    BY <1>4 DEF OpenQuery, Reset, MutateGraph, CloseQuery
  <1> QED
    BY <1>1, <1>2, <1>3, <1>4 DEF Writes

LEMMA GroundNext ==
    ASSUME LayerInv, Grounded, Next
    PROVE  Grounded'
  <1>0. /\ TypeOK /\ savepoints \in Seq(Nat) /\ journal \in Seq(Undone)
        /\ Len(savepoints) \in Nat /\ Len(journal) \in Nat /\ mark \in Nat
    BY Lengths DEF LayerInv, TypeOK
  <1>1. CASE Writes \/ OpenQuery \/ MutateGraph \/ CloseQuery
    BY <1>1, WritesJournal DEF Grounded
  <1>2. ASSUME NEW value \in Settings, ChangeSetting(value) PROVE Grounded'
    BY <1>2 DEF ChangeSetting, layerVars, Between, Speculative, Grounded
  <1>3. CASE Savepoint
    <2>1. savepoints' = Append(savepoints, Len(journal)) /\ ~undoing
      BY <1>3 DEF Savepoint, Between
    <2>2. /\ savepoints' # <<>> /\ savepoints'[Len(savepoints) + 1] = Len(journal)
          /\ \A i \in 1..Len(savepoints) : savepoints'[i] = savepoints[i]
      BY <1>0, <2>1, PushProperties
    <2>3. CASE savepoints = <<>>
      <3>1. Len(savepoints) + 1 = 1 /\ Len(journal) = 0
        BY <1>0, <2>1, <2>3, SeqFacts DEF Grounded
      <3> QED
        BY <2>2, <3>1 DEF Grounded
    <2>4. CASE savepoints # <<>>
      <3>1. 1 \in 1..Len(savepoints)
        BY <1>0, <2>4, SeqFacts
      <3> QED
        BY <2>2, <2>4, <3>1 DEF Grounded
    <2> QED
      BY <2>3, <2>4
  <1>4. CASE Commit \/ BeginRollback
    <2>1. savepoints' = SubSeq(savepoints, 1, Len(savepoints) - 1) /\ Speculative /\ ~undoing
      BY <1>4 DEF Commit, BeginRollback, Between
    <2>2. /\ savepoints' \in Seq(Nat) /\ Len(savepoints') = Len(savepoints) - 1
          /\ \A i \in 1..Len(savepoints') : savepoints'[i] = savepoints[i]
          /\ savepoints # <<>>
      BY <1>0, <2>1, PopProperties DEF Speculative
    <2>3. savepoints' = <<>> <=> Len(savepoints) = 1
      BY <1>0, <2>2, SeqFacts
    <2>4. savepoints' # <<>> => savepoints'[1] = 0
      <3> SUFFICES ASSUME savepoints' # <<>> PROVE savepoints'[1] = 0
        OBVIOUS
      <3>1. 1 \in 1..Len(savepoints')
        BY <2>2, SeqFacts
      <3> QED
        BY <2>2, <3>1 DEF Grounded
    <2>5. CASE Commit
      <3>1. undoing' = undoing /\ (Len(savepoints) = 1 => journal' = <<>>)
        BY <2>5 DEF Commit
      <3> QED
        BY <2>1, <2>3, <2>4, <3>1 DEF Grounded
    <2>6. CASE BeginRollback
      <3>1. undoing' = TRUE /\ mark' = savepoints[Len(savepoints)]
        BY <2>6 DEF BeginRollback
      <3>2. Len(savepoints) = 1 => mark' = 0
        BY <2>2, <3>1 DEF Grounded
      <3> QED
        BY <2>3, <2>4, <3>1, <3>2 DEF Grounded
    <2> QED
      BY <1>4, <2>5, <2>6
  <1>5. CASE Undo
    BY <1>5 DEF Undo, layerVars, Grounded
  <1>6. CASE EndRollback
    <2>1. UNCHANGED <<savepoints, journal>> /\ undoing /\ Len(journal) <= mark
      BY <1>6 DEF EndRollback
    <2>2. savepoints = <<>> => journal = <<>>
      BY <1>0, <2>1, SeqFacts DEF Grounded
    <2> QED
      BY <2>1, <2>2, <1>6 DEF Grounded, EndRollback
  <1> QED
    BY <1>1, <1>2, <1>3, <1>4, <1>5, <1>6 DEF Next, Writes

-----------------------------------------------------------------------------
(* Freshness.                                                              *)

(* Appending a record that is not a reset.                                 *)
LEMMA ReplayPush ==
    ASSUME NEW J \in Seq(Undone), NEW r \in Undone, NEW id, Replayable(J, id), ~IsReset(r),
           HasPrevious(r) => r.previous \in Stamped(id)
    PROVE  Replayable(Append(J, r), id)
  <1> DEFINE K == Append(J, r)
  <1>1. DOMAIN K = 1..(Len(J) + 1) /\ DOMAIN J = 1..Len(J) /\ Len(J) \in Nat
        /\ (\A i \in 1..Len(J) : K[i] = J[i]) /\ K[Len(J) + 1] = r
    BY PushProperties, SeqFacts
  <1> HIDE DEF K
  <1>2. \A j \in DOMAIN K : (j \in DOMAIN J /\ K[j] = J[j] /\ j < Len(J) + 1) \/ j = Len(J) + 1
    BY <1>1
  <1>3. \A j \in DOMAIN J : j \in DOMAIN K /\ K[j] = J[j]
    BY <1>1
  <1> SUFFICES ASSUME NEW j \in DOMAIN K
               PROVE  /\ IsReset(K[j]) =>
                           Fresh(K[j].memo, K[j].completed, K[j].clean, K[j].cache, K[j].identity)
                      /\ HasPrevious(K[j]) =>
                           /\ (\A k \in DOMAIN K : j < k => ~IsReset(K[k])) =>
                                K[j].previous \in Stamped(id)
                           /\ \A m \in DOMAIN K :
                                NextReset(K, j, m) => K[j].previous \in Stamped(K[m].identity)
    BY DEF Replayable, K
  <1>4. CASE j = Len(J) + 1
    <2>1. K[j] = r /\ \A m \in DOMAIN K : ~(j < m)
      BY <1>1, <1>4
    <2> QED
      BY <2>1 DEF NextReset
  <1>5. CASE j \in DOMAIN J /\ K[j] = J[j]
    <2>1. IsReset(J[j]) => Fresh(J[j].memo, J[j].completed, J[j].clean, J[j].cache, J[j].identity)
      BY <1>5 DEF Replayable
    <2>2. ASSUME HasPrevious(J[j]), \A k \in DOMAIN K : j < k => ~IsReset(K[k])
          PROVE  J[j].previous \in Stamped(id)
      <3>1. \A k \in DOMAIN J : j < k => ~IsReset(J[k])
        BY <1>3, <2>2
      <3> QED
        BY <1>5, <2>2, <3>1 DEF Replayable
    <2>3. ASSUME HasPrevious(J[j]), NEW m \in DOMAIN K, NextReset(K, j, m)
          PROVE  J[j].previous \in Stamped(K[m].identity)
      <3>1. m \in DOMAIN J /\ K[m] = J[m]
        BY <1>1, <1>2, <2>3 DEF NextReset
      <3>2. NextReset(J, j, m)
        BY <1>3, <2>3, <3>1 DEF NextReset
      <3> QED
        BY <1>5, <2>3, <3>1, <3>2 DEF Replayable
    <2> QED
      BY <1>5, <2>1, <2>2, <2>3
  <1> QED
    BY <1>2, <1>4, <1>5

(* Appending a reset: the records below it are held to the identity it put *)
(* aside, whatever the identity is now.                                    *)
LEMMA ReplayReset ==
    ASSUME NEW J \in Seq(Undone), NEW r \in Undone, NEW id, Replayable(J, r.identity), IsReset(r),
           Fresh(r.memo, r.completed, r.clean, r.cache, r.identity)
    PROVE  Replayable(Append(J, r), id)
  <1> DEFINE K == Append(J, r)
  <1>1. DOMAIN K = 1..(Len(J) + 1) /\ DOMAIN J = 1..Len(J) /\ Len(J) \in Nat
        /\ (\A i \in 1..Len(J) : K[i] = J[i]) /\ K[Len(J) + 1] = r
    BY PushProperties, SeqFacts
  <1> HIDE DEF K
  <1>2. \A j \in DOMAIN K : (j \in DOMAIN J /\ K[j] = J[j] /\ j < Len(J) + 1) \/ j = Len(J) + 1
    BY <1>1
  <1>3. \A j \in DOMAIN J : j \in DOMAIN K /\ K[j] = J[j]
    BY <1>1
  <1> SUFFICES ASSUME NEW j \in DOMAIN K
               PROVE  /\ IsReset(K[j]) =>
                           Fresh(K[j].memo, K[j].completed, K[j].clean, K[j].cache, K[j].identity)
                      /\ HasPrevious(K[j]) =>
                           /\ (\A k \in DOMAIN K : j < k => ~IsReset(K[k])) =>
                                K[j].previous \in Stamped(id)
                           /\ \A m \in DOMAIN K :
                                NextReset(K, j, m) => K[j].previous \in Stamped(K[m].identity)
    BY DEF Replayable, K
  <1>4. CASE j = Len(J) + 1
    <2>1. K[j] = r /\ ~HasPrevious(r)
      BY <1>1, <1>4 DEF IsReset, HasPrevious
    <2> QED
      BY <2>1
  <1>5. CASE j \in DOMAIN J /\ K[j] = J[j] /\ j < Len(J) + 1
    <2>1. IsReset(J[j]) => Fresh(J[j].memo, J[j].completed, J[j].clean, J[j].cache, J[j].identity)
      BY <1>5 DEF Replayable
    <2>2. ~(\A k \in DOMAIN K : j < k => ~IsReset(K[k]))
      BY <1>1, <1>5
    <2>3. ASSUME HasPrevious(J[j]), NEW m \in DOMAIN K, NextReset(K, j, m)
          PROVE  J[j].previous \in Stamped(K[m].identity)
      <3>1. CASE m \in DOMAIN J /\ K[m] = J[m]
        <4>1. NextReset(J, j, m)
          BY <1>3, <2>3, <3>1 DEF NextReset
        <4> QED
          BY <1>5, <2>3, <3>1, <4>1 DEF Replayable
      <3>2. CASE m = Len(J) + 1
        <4>1. \A k \in DOMAIN J : k \in DOMAIN K /\ K[k] = J[k] /\ k < m
          BY <1>1, <3>2
        <4>2. \A k \in DOMAIN J : j < k => ~IsReset(J[k])
          BY <2>3, <4>1 DEF NextReset
        <4> QED
          BY <1>1, <1>5, <2>3, <3>2, <4>2 DEF Replayable
      <3> QED
        BY <1>2, <3>1, <3>2
    <2> QED
      BY <1>5, <2>1, <2>2, <2>3
  <1> QED
    BY <1>2, <1>4, <1>5

(* Taking the last record off: undoing a reset brings its identity back.   *)
LEMMA ReplayPop ==
    ASSUME NEW J \in Seq(Undone), J # <<>>, NEW id, Replayable(J, id)
    PROVE  Replayable(SubSeq(J, 1, Len(J) - 1),
                      IF IsReset(J[Len(J)]) THEN J[Len(J)].identity ELSE id)
  <1> DEFINE K == SubSeq(J, 1, Len(J) - 1)
             n == Len(J)
             new == IF IsReset(J[n]) THEN J[n].identity ELSE id
  <1>1. K \in Seq(Undone) /\ Len(K) = n - 1 /\ n \in Nat \ {0}
        /\ \A i \in 1..(n - 1) : K[i] = J[i]
    BY PopProperties
  <1>2. DOMAIN K = 1..(n - 1) /\ DOMAIN J = 1..n
    BY <1>1, SeqFacts
  <1> HIDE DEF K, n
  <1>3. /\ \A j \in DOMAIN K : j \in DOMAIN J /\ K[j] = J[j] /\ j < n
        /\ \A j \in DOMAIN J : j \in DOMAIN K \/ j = n
        /\ n \in DOMAIN J
    BY <1>1, <1>2
  <1> SUFFICES ASSUME NEW j \in DOMAIN K
               PROVE  /\ IsReset(K[j]) =>
                           Fresh(K[j].memo, K[j].completed, K[j].clean, K[j].cache, K[j].identity)
                      /\ HasPrevious(K[j]) =>
                           /\ (\A k \in DOMAIN K : j < k => ~IsReset(K[k])) =>
                                K[j].previous \in Stamped(new)
                           /\ \A m \in DOMAIN K :
                                NextReset(K, j, m) => K[j].previous \in Stamped(K[m].identity)
    BY DEF Replayable, K, n
  <1>4. j \in DOMAIN J /\ K[j] = J[j] /\ j < n
    BY <1>3
  <1>5. IsReset(J[j]) => Fresh(J[j].memo, J[j].completed, J[j].clean, J[j].cache, J[j].identity)
    BY <1>4 DEF Replayable
  <1>6. ASSUME HasPrevious(J[j]), \A k \in DOMAIN K : j < k => ~IsReset(K[k])
        PROVE  J[j].previous \in Stamped(new)
    <2>1. CASE IsReset(J[n])
      <3>1. NextReset(J, j, n)
        BY <1>2, <1>3, <1>4, <1>6, <2>1 DEF NextReset
      <3> QED
        BY <1>3, <1>4, <1>6, <2>1, <3>1 DEF Replayable
    <2>2. CASE ~IsReset(J[n])
      <3>1. \A k \in DOMAIN J : j < k => ~IsReset(J[k])
        BY <1>3, <1>6, <2>2
      <3> QED
        BY <1>4, <1>6, <2>2, <3>1 DEF Replayable
    <2> QED
      BY <2>1, <2>2
  <1>7. ASSUME HasPrevious(J[j]), NEW m \in DOMAIN K, NextReset(K, j, m)
        PROVE  J[j].previous \in Stamped(K[m].identity)
    <2>1. m \in DOMAIN J /\ K[m] = J[m] /\ m < n
      BY <1>3
    <2>2. NextReset(J, j, m)
      <3> SUFFICES ASSUME NEW k \in DOMAIN J, j < k, k < m PROVE ~IsReset(J[k])
        BY <1>7, <2>1 DEF NextReset
      <3>1. k # n
        BY <1>1, <1>2, <2>1
      <3> QED
        BY <1>3, <1>7, <3>1 DEF NextReset
    <2> QED
      BY <1>4, <1>7, <2>1, <2>2 DEF Replayable
  <1> QED
    BY <1>4, <1>5, <1>6, <1>7

(* The setting is part of every stamp: while it stays, the predicates may  *)
(* be read of the new state with the old setting.                          *)
LEMMA SameSetting ==
    ASSUME setting' = setting
    PROVE  /\ Fresh(memo', completed', clean', cache', identity') =>
                Fresh(memo, completed, clean, cache, identity)'
           /\ Replayable(journal', identity') => Replayable(journal, identity)'
  BY DEF Fresh, Replayable, NextReset, IsReset, HasPrevious, Stamped

LEMMA EmptyFresh ==
    ASSUME NEW layers, NEW id, \A i \in DOMAIN layers : layers[i] = EmptyLayer
    PROVE  Fresh(EmptyMemo, EmptyLayer, EmptyClean, layers, id)
  <1>1. NoEntry \in Stamped(id)
    BY DEF Stamped
  <1> QED
    BY <1>1 DEF Fresh, EmptyMemo, EmptyLayer, EmptyClean

(* A step that keeps the journal, the identity and the setting.            *)
LEMMA FreshQuiet ==
    ASSUME FreshInv, LayerInv', Grounded', QueryCurrent', UNCHANGED <<journal, identity, setting>>,
           Fresh(memo', completed', clean', cache', identity)
    PROVE  FreshInv'
  <1>1. Replayable(journal, identity)'
    BY SameSetting DEF FreshInv
  <1>2. Fresh(memo, completed, clean, cache, identity)'
    BY SameSetting
  <1> QED
    BY <1>1, <1>2 DEF FreshInv

(* Layers drawn from fresh layers are fresh.                               *)
LEMMA FreshLayers ==
    ASSUME NEW m, NEW c, NEW k, NEW layers, NEW id, Fresh(m, c, k, layers, id), NEW other,
           \A i \in DOMAIN other : \A p \in Pairs :
             other[i][p] = NoEntry \/ \E l \in DOMAIN layers : other[i][p] = layers[l][p]
    PROVE  Fresh(m, c, k, other, id)
  <1>1. NoEntry \in Stamped(id)
    BY DEF Stamped
  <1>2. \A i \in DOMAIN other : \A p \in Pairs : other[i][p] \in Stamped(id)
    BY <1>1 DEF Fresh
  <1> QED
    BY <1>2 DEF Fresh

LEMMA FreshSavepoint ==
    ASSUME FreshInv, Savepoint
    PROVE  FreshInv'
  <1> USE DEF worldVars
  <1>0. LayerInv' /\ Grounded' /\ cache \in Seq(Layer) /\ EmptyLayer \in Layer
    BY LayerSavepoint, GroundNext, EmptyTypes DEF FreshInv, LayerInv, TypeOK, Next
  <1>1. cache' = Append(cache, EmptyLayer)
        /\ UNCHANGED <<memo, completed, clean, identity, journal, setting, query, graph, undoing>>
    BY DEF Savepoint
  <1>2. DOMAIN cache' = 1..(Len(cache) + 1) /\ DOMAIN cache = 1..Len(cache) /\ Len(cache) \in Nat
        /\ (\A i \in 1..Len(cache) : cache'[i] = cache[i]) /\ cache'[Len(cache) + 1] = EmptyLayer
    BY <1>0, <1>1, PushProperties, SeqFacts
  <1>3. ASSUME NEW i \in DOMAIN cache', NEW p \in Pairs
        PROVE  cache'[i][p] = NoEntry \/ \E k \in DOMAIN cache : cache'[i][p] = cache[k][p]
    <2>1. CASE i \in 1..Len(cache)
      BY <1>2, <2>1
    <2>2. CASE i = Len(cache) + 1
      BY <1>2, <2>2 DEF EmptyLayer
    <2> QED
      BY <1>2, <1>3, <2>1, <2>2
  <1>4. Fresh(memo', completed', clean', cache', identity)
    <2>1. Fresh(memo, completed, clean, cache, identity)
      BY DEF FreshInv
    <2>2. Fresh(memo, completed, clean, cache', identity)
      BY <1>3, <2>1, FreshLayers
    <2> QED
      BY <1>1, <2>2
  <1>5. QueryCurrent'
    BY <1>1 DEF FreshInv, QueryCurrent
  <1> QED
    BY <1>0, <1>1, <1>4, <1>5, FreshQuiet

(* Folding leaves the layers below the two innermost alone and merges      *)
(* these, the innermost first.                                             *)
LEMMA FoldedShape ==
    ASSUME TypeOK, Len(cache) > 1
    PROVE  /\ DOMAIN Folded = 1..(Len(cache) - 1)
           /\ \A i \in 1..(Len(cache) - 2) : Folded[i] = cache[i]
           /\ \A p \in Pairs : Folded[Len(cache) - 1][p] =
                IF cache[Len(cache)][p] # NoEntry THEN cache[Len(cache)][p]
                ELSE cache[Len(cache) - 1][p]
  <1> DEFINE n == Len(cache)
             merged == [p \in Pairs |-> IF cache[n][p] # NoEntry THEN cache[n][p] ELSE cache[n - 1][p]]
             below == SubSeq(cache, 1, n - 2)
  <1>1. n \in Nat /\ n > 1 /\ cache \in Seq(Layer) /\ DOMAIN cache = 1..n
        /\ \A i \in 1..n : cache[i] \in Layer
    BY SeqFacts DEF TypeOK
  <1>2. n \in 1..n /\ n - 1 \in 1..n /\ n - 2 \in Nat
    BY <1>1
  <1>3. merged \in Layer
    BY <1>1, <1>2 DEF Layer
  <1>4. below \in Seq(Layer) /\ Len(below) = n - 2 /\ \A i \in 1..(n - 2) : below[i] = cache[i]
    <2>1. \A i \in 1..(n - 2) : cache[i] \in Layer
      BY <1>1
    <2>2. /\ below \in Seq(Layer)
          /\ Len(below) = IF 1 <= n - 2 THEN (n - 2) - 1 + 1 ELSE 0
          /\ \A i \in 1..((n - 2) - 1 + 1) : below[i] = cache[1 + i - 1]
      BY <1>1, <1>2, <2>1, SubSeqProperties
    <2>3. \A m \in Nat : m > 1 => (IF 1 <= m - 2 THEN (m - 2) - 1 + 1 ELSE 0) = m - 2
      OBVIOUS
    <2>4. ASSUME NEW i \in 1..(n - 2) PROVE below[i] = cache[i]
      <3>1. i \in 1..((n - 2) - 1 + 1) /\ 1 + i - 1 = i
        BY <1>1
      <3> QED
        BY <2>2, <3>1
    <2> QED
      BY <1>1, <2>2, <2>3, <2>4
  <1>5. \A p \in Pairs : merged[p] = IF cache[n][p] # NoEntry THEN cache[n][p] ELSE cache[n - 1][p]
    OBVIOUS
  <1> HIDE DEF merged, below
  <1>6. Folded = Append(below, merged)
    BY DEF Folded, below, merged
  <1>7. /\ DOMAIN Folded = 1..((n - 2) + 1) /\ Folded[(n - 2) + 1] = merged
        /\ \A i \in 1..(n - 2) : Folded[i] = below[i]
    BY <1>3, <1>4, <1>6, PushProperties
  <1>8. (n - 2) + 1 = n - 1
    BY <1>1
  <1> QED
    BY <1>4, <1>5, <1>7, <1>8

(* Every entry of the folded cache comes from one of its layers.           *)
LEMMA FoldedEntries ==
    ASSUME TypeOK, Len(cache) > 1
    PROVE  \A i \in DOMAIN Folded : \A p \in Pairs :
             \E k \in DOMAIN cache : Folded[i][p] = cache[k][p]
  <1> DEFINE n == Len(cache)
  <1>1. n \in Nat /\ n > 1 /\ DOMAIN cache = 1..n
    BY SeqFacts DEF TypeOK
  <1>2. n \in DOMAIN cache /\ n - 1 \in DOMAIN cache
    BY <1>1
  <1> SUFFICES ASSUME NEW i \in DOMAIN Folded, NEW p \in Pairs
               PROVE  \E k \in DOMAIN cache : Folded[i][p] = cache[k][p]
    OBVIOUS
  <1>3. i \in 1..(n - 2) \/ i = n - 1
    BY <1>1, FoldedShape
  <1>4. CASE i \in 1..(n - 2)
    <2>1. Folded[i] = cache[i] /\ i \in DOMAIN cache
      BY <1>1, <1>4, FoldedShape
    <2> QED
      BY <2>1
  <1>5. CASE i = n - 1
    <2>1. Folded[i][p] = cache[n][p] \/ Folded[i][p] = cache[n - 1][p]
      BY <1>5, FoldedShape
    <2> QED
      BY <1>2, <2>1
  <1> QED
    BY <1>3, <1>4, <1>5

LEMMA FreshCommit ==
    ASSUME FreshInv, Commit
    PROVE  FreshInv'
  <1> USE DEF worldVars
  <1>0. LayerInv' /\ Grounded' /\ TypeOK /\ Len(cache) > 1
    <2>1. LayerInv /\ TypeOK /\ LayersSuffice /\ savepoints # <<>> /\ ~undoing
      BY DEF FreshInv, LayerInv, Commit, Speculative, Between
    <2>2. Len(cache) > 1
      BY <2>1, Lengths DEF LayersSuffice
    <2> QED
      BY <2>1, <2>2, LayerCommit, GroundNext DEF FreshInv, Next
  <1>1. cache' = Folded /\ UNCHANGED <<memo, completed, clean, identity, setting, query, graph, undoing>>
        /\ journal' = (IF Len(savepoints) = 1 THEN <<>> ELSE journal)
    BY DEF Commit
  <1>2. Fresh(memo', completed', clean', cache', identity')
    BY <1>0, <1>1, FoldedEntries, FreshLayers DEF FreshInv
  <1>3. Replayable(journal', identity')
    BY <1>1 DEF Replayable, FreshInv
  <1>4. QueryCurrent'
    BY <1>1 DEF FreshInv, QueryCurrent
  <1> QED
    BY <1>0, <1>1, <1>2, <1>3, <1>4, SameSetting DEF FreshInv

LEMMA FreshUndo ==
    ASSUME FreshInv, Undo
    PROVE  FreshInv'
  <1> USE DEF worldVars, layerVars
  <1> DEFINE r == journal[Len(journal)]
  <1>0. LayerInv' /\ Grounded' /\ TypeOK
    BY LayerUndo, GroundNext DEF FreshInv, LayerInv, Next
  <1>7. Len(journal) > mark /\ Len(journal) > 0 /\ journal \in Seq(Undone)
    BY <1>0, Lengths DEF Undo, TypeOK
  <1>1. /\ journal' = SubSeq(journal, 1, Len(journal) - 1)
        /\ UNCHANGED <<setting, query, graph, undoing>>
        /\ IF r.kind = "reset" THEN UndoReset(r) ELSE UndoEntry(r)
    BY DEF Undo
  <1>2. journal # <<>> /\ Len(journal) \in DOMAIN journal /\ r \in Undone
    BY <1>0, <1>7, <1>1, PoppedJournal, SeqFacts
  <1>3. Replayable(journal', IF IsReset(r) THEN r.identity ELSE identity)
    BY <1>7, <1>1, <1>2, ReplayPop DEF FreshInv
  <1>4. Replayable(journal', identity')
    <2>1. CASE IsReset(r)
      BY <1>1, <1>3, <2>1 DEF IsReset, UndoReset
    <2>2. CASE ~IsReset(r)
      BY <1>1, <1>3, <2>2 DEF IsReset, UndoEntry
    <2> QED
      BY <2>1, <2>2
  <1>5. Fresh(memo', completed', clean', cache', identity')
    <2>1. CASE IsReset(r)
      <3>1. Fresh(r.memo, r.completed, r.clean, r.cache, r.identity)
        BY <1>2, <2>1 DEF FreshInv, Replayable
      <3>2. /\ memo' = r.memo /\ completed' = r.completed /\ clean' = r.clean
            /\ cache' = r.cache /\ identity' = r.identity
        BY <1>1, <2>1 DEF IsReset, UndoReset
      <3> QED
        BY <3>1, <3>2
    <2>2. CASE ~IsReset(r)
      <3>1. /\ memo' = (IF r.kind = "memo" THEN [memo EXCEPT ![r.key] = r.previous] ELSE memo)
            /\ completed' = (IF r.kind = "completed" THEN [completed EXCEPT ![r.key] = r.previous]
                             ELSE completed)
            /\ clean' = (IF r.kind = "clean" THEN [clean EXCEPT ![r.key] = NoEntry] ELSE clean)
            /\ cache' = cache /\ identity' = identity
        BY <1>1, <2>2 DEF IsReset, UndoEntry
      <3>2. HasPrevious(r) => r.previous \in Stamped(identity)
        <4>1. \A k \in DOMAIN journal : ~(Len(journal) < k)
          BY <1>0, Lengths
        <4> QED
          BY <1>2, <4>1 DEF FreshInv, Replayable
      <3>3. Fresh(memo, completed, clean, cache, identity)
            /\ memo \in [Slots -> Entry] /\ completed \in [Pairs -> Entry]
            /\ clean \in [Roots -> Entry] /\ NoEntry \in Stamped(identity)
        BY <1>0 DEF FreshInv, TypeOK, Layer, Stamped
      <3> HIDE DEF r
      <3>4. \A s \in Slots : memo'[s] \in Stamped(identity)
        BY <3>1, <3>2, <3>3 DEF Fresh, HasPrevious
      <3>5. \A p \in Pairs : completed'[p] \in Stamped(identity)
        BY <3>1, <3>2, <3>3 DEF Fresh, HasPrevious
      <3>6. \A ty \in Roots : clean'[ty] \in Stamped(identity)
        BY <3>1, <3>3 DEF Fresh
      <3> QED
        BY <3>1, <3>3, <3>4, <3>5, <3>6 DEF Fresh
    <2> QED
      BY <2>1, <2>2
  <1>6. QueryCurrent'
    <2>1. ~query
      BY DEF FreshInv, QueryCurrent, Undo
    <2> QED
      BY <1>1, <2>1 DEF QueryCurrent
  <1> QED
    BY <1>0, <1>1, <1>4, <1>5, <1>6, SameSetting DEF FreshInv

LEMMA FreshEndRollback ==
    ASSUME FreshInv, EndRollback
    PROVE  FreshInv'
  <1> USE DEF worldVars
  <1>0. LayerInv' /\ Grounded' /\ cache \in Seq(Layer) /\ cache # <<>>
    BY LayerEndRollback, GroundNext DEF FreshInv, LayerInv, TypeOK, Next
  <1>1. cache' = SubSeq(cache, 1, Len(cache) - 1)
        /\ UNCHANGED <<memo, completed, clean, identity, journal, setting, query, graph>>
    BY DEF EndRollback
  <1>2. /\ cache' \in Seq(Layer) /\ Len(cache') = Len(cache) - 1 /\ Len(cache) \in Nat \ {0}
        /\ \A i \in 1..(Len(cache) - 1) : cache'[i] = cache[i]
    BY <1>0, <1>1, PopProperties
  <1>3. DOMAIN cache' = 1..(Len(cache) - 1) /\ DOMAIN cache = 1..Len(cache)
    BY <1>0, <1>2, SeqFacts
  <1>4. \A i \in DOMAIN cache' : i \in DOMAIN cache /\ cache'[i] = cache[i]
    BY <1>2, <1>3
  <1>5. Fresh(memo', completed', clean', cache', identity)
    BY <1>1, <1>4, FreshLayers DEF FreshInv
  <1>6. QueryCurrent'
    BY <1>1 DEF FreshInv, QueryCurrent, EndRollback
  <1> QED
    BY <1>0, <1>1, <1>5, <1>6, FreshQuiet

LEMMA FreshOpenQuery ==
    ASSUME FreshInv, OpenQuery
    PROVE  FreshInv'
  <1> USE DEF layerVars, context
  <1>0. LayerInv' /\ Grounded' /\ TypeOK /\ journal \in Seq(Undone) /\ ~undoing
    BY LayerOpenQuery, GroundNext DEF FreshInv, LayerInv, TypeOK, OpenQuery, Between, Next
  <1>1. UNCHANGED <<setting, graph, undoing>>
    BY DEF OpenQuery
  <1>2. CASE identity = graph
    <2>1. UNCHANGED <<memo, completed, clean, cache, identity, journal>>
      BY <1>2 DEF OpenQuery
    <2>2. QueryCurrent'
      BY <1>0, <1>1, <1>2, <2>1 DEF QueryCurrent
    <2>3. Fresh(memo', completed', clean', cache', identity)
      BY <2>1 DEF FreshInv
    <2> QED
      BY <1>0, <1>1, <2>1, <2>2, <2>3, FreshQuiet
  <1>3. CASE identity # graph
    <2> DEFINE r == [kind |-> "reset", memo |-> memo, completed |-> completed,
                     candidates |-> candidates, clean |-> clean, cache |-> cache,
                     identity |-> identity]
    <2>1. /\ Record(r) /\ memo' = EmptyMemo /\ completed' = EmptyLayer
          /\ clean' = EmptyClean /\ identity' = graph
          /\ cache' = [i \in 1..(Len(savepoints) + 1) |-> EmptyLayer]
      BY <1>3 DEF OpenQuery, Reset
    <2>2. r \in Undone /\ IsReset(r) /\ r.identity = identity
          /\ Fresh(r.memo, r.completed, r.clean, r.cache, r.identity)
      BY <1>0, RecordTypes DEF FreshInv, IsReset
    <2> HIDE DEF r
    <2>3. Replayable(journal', identity')
      <3>1. CASE journal' = Append(journal, r)
        BY <1>0, <2>2, <3>1, ReplayReset DEF FreshInv
      <3>2. CASE journal' = journal /\ ~Speculative
        <4>1. journal' = <<>>
          BY <1>0, <3>2 DEF FreshInv, Grounded, Speculative
        <4> QED
          BY <4>1 DEF Replayable
      <3> QED
        BY <2>1, <3>1, <3>2 DEF Record
    <2>4. Fresh(memo', completed', clean', cache', identity')
      BY <2>1, EmptyFresh
    <2>5. QueryCurrent'
      BY <1>0, <1>1, <2>1 DEF QueryCurrent
    <2> QED
      BY <1>0, <1>1, <2>3, <2>4, <2>5, SameSetting DEF FreshInv
  <1> QED
    BY <1>2, <1>3

(* An open query stamps what it writes with the identity it compared.      *)
LEMMA StampNow ==
    ASSUME FreshInv, query
    PROVE  Now \in Stamped(identity) /\ Stamped(identity) = {Now, NoEntry}
  <1>1. identity = graph /\ graph # NoIdentity
    BY BoundAssumption DEF FreshInv, LayerInv, TypeOK, QueryCurrent
  <1> QED
    BY <1>1 DEF Stamped, Now

LEMMA FreshRecord ==
    ASSUME FreshInv, NEW r \in Undone, Record(r), ~IsReset(r),
           HasPrevious(r) => r.previous \in Stamped(identity)
    PROVE  Replayable(journal', identity)
  <1>1. journal \in Seq(Undone) /\ Replayable(journal, identity)
    BY DEF FreshInv, LayerInv, TypeOK
  <1> QED
    BY <1>1, ReplayPush DEF Record

LEMMA FreshWrites ==
    ASSUME FreshInv, Writes
    PROVE  FreshInv'
  <1> USE DEF worldVars, layerVars
  <1>0. /\ LayerInv' /\ TypeOK /\ Grounded'
        /\ memo \in [Slots -> Entry] /\ completed \in [Pairs -> Entry]
        /\ clean \in [Roots -> Entry]
        /\ cache \in Seq(Layer) /\ cache # <<>> /\ journal \in Seq(Undone)
    BY TypeWrites, LayersWrites, GroundNext DEF FreshInv, LayerInv, TypeOK, Layer, Next, Writes
  <1>1. Fresh(memo, completed, clean, cache, identity) /\ NoEntry \in Stamped(identity)
    BY DEF FreshInv, Stamped
  <1>2. ASSUME UNCHANGED <<identity, setting, query, graph, undoing>>,
               Replayable(journal', identity), Fresh(memo', completed', clean', cache', identity)
        PROVE  FreshInv'
    <2>1. QueryCurrent'
      BY <1>2 DEF FreshInv, QueryCurrent
    <2> QED
      BY <1>0, <1>2, <2>1, SameSetting DEF FreshInv
  <1>3. ASSUME NEW slot \in Slots, WriteMemo(slot) PROVE FreshInv'
    <2> DEFINE r == [kind |-> "memo", key |-> slot, previous |-> memo[slot]]
    <2>1. r \in Undone /\ ~IsReset(r) /\ r.previous \in Stamped(identity)
      BY <1>0, <1>1, RecordTypes DEF IsReset, Fresh
    <2>2. Record(r) /\ query
      BY <1>3 DEF WriteMemo
    <2> HIDE DEF r
    <2>3. Replayable(journal', identity)
      BY <2>1, <2>2, FreshRecord
    <2>4. UNCHANGED <<identity, setting, query, graph, undoing, completed, clean, cache>>
          /\ memo' = [memo EXCEPT ![slot] = Now]
      BY <1>3 DEF WriteMemo
    <2>5. Fresh(memo', completed', clean', cache', identity)
      BY <1>0, <1>1, <2>2, <2>4, StampNow DEF Fresh
    <2> QED
      BY <1>2, <2>3, <2>4, <2>5
  <1>4. ASSUME NEW p \in Pairs, Promote(p) PROVE FreshInv'
    <2>1. Len(cache) \in 1..Len(cache) /\ DOMAIN cache = 1..Len(cache)
          /\ cache[Len(cache)] \in [Pairs -> Entry]
      BY <1>0, SeqFacts, Positions DEF Layer
    <2> DEFINE top == [cache[Len(cache)] EXCEPT ![p] = Now]
    <2>2. cache' = [cache EXCEPT ![Len(cache)] = top] /\ query
          /\ UNCHANGED <<identity, setting, query, graph, undoing, memo, completed, clean, journal>>
      BY <1>4 DEF Promote
    <2>3. \A q \in Pairs : top[q] \in Stamped(identity)
      BY <1>1, <2>1, <2>2, StampNow DEF Fresh
    <2> HIDE DEF top
    <2>4. DOMAIN cache' = DOMAIN cache
          /\ \A i \in DOMAIN cache : cache'[i] = IF i = Len(cache) THEN top ELSE cache[i]
      BY <2>1, <2>2
    <2>5. \A i \in DOMAIN cache' : \A q \in Pairs : cache'[i][q] \in Stamped(identity)
      BY <1>1, <2>3, <2>4 DEF Fresh
    <2>6. Fresh(memo', completed', clean', cache', identity)
      BY <1>1, <2>2, <2>5 DEF Fresh
    <2> QED
      BY <1>2, <2>2, <2>6 DEF FreshInv
  <1>5. ASSUME NEW p \in Pairs, RememberYes(p) PROVE FreshInv'
    <2> DEFINE r == [kind |-> "completed", key |-> p, previous |-> NoEntry]
    <2>1. r \in Undone /\ ~IsReset(r) /\ r.previous \in Stamped(identity)
      BY <1>0, <1>1, RecordTypes DEF IsReset
    <2>2. Record(r) /\ query
      BY <1>5 DEF RememberYes
    <2> HIDE DEF r
    <2>3. Replayable(journal', identity)
      BY <2>1, <2>2, FreshRecord
    <2>4. UNCHANGED <<identity, setting, query, graph, undoing, memo, clean, cache>>
          /\ completed' = [completed EXCEPT ![p] = Now]
      BY <1>5 DEF RememberYes
    <2>5. Fresh(memo', completed', clean', cache', identity)
      BY <1>0, <1>1, <2>2, <2>4, StampNow DEF Fresh
    <2> QED
      BY <1>2, <2>3, <2>4, <2>5
  <1>6. ASSUME NEW p \in Pairs, RememberFirstNo(p) PROVE FreshInv'
    <2> DEFINE r == [kind |-> "inserted", key |-> p]
    <2>1. r \in Undone /\ ~IsReset(r) /\ ~HasPrevious(r)
      BY <1>0, RecordTypes DEF IsReset, HasPrevious
    <2>2. Record(r) /\ UNCHANGED <<identity, setting, query, graph, undoing, memo, completed, clean,
                                  cache>>
      BY <1>6 DEF RememberFirstNo
    <2> HIDE DEF r
    <2>3. Replayable(journal', identity)
      BY <2>1, <2>2, FreshRecord
    <2> QED
      BY <1>1, <1>2, <2>2, <2>3
  <1>7. ASSUME NEW p \in Pairs, RememberSecondNo(p) PROVE FreshInv'
    <2> DEFINE taken == [kind |-> "removed", key |-> p]
               inserted == [kind |-> "completed", key |-> p, previous |-> NoEntry]
    <2>1. /\ taken \in Undone /\ ~IsReset(taken) /\ ~HasPrevious(taken)
          /\ inserted \in Undone /\ ~IsReset(inserted) /\ inserted.previous \in Stamped(identity)
      BY <1>0, <1>1, RecordTypes DEF IsReset, HasPrevious
    <2>2. UNCHANGED <<identity, setting, query, graph, undoing, memo, clean, cache>> /\ query
      BY <1>7 DEF RememberSecondNo
    <2>3. /\ \/ Record(taken)
             \/ journal' = journal
             \/ journal' = Append(Append(journal, taken), inserted)
          /\ completed' = completed \/ completed' = [completed EXCEPT ![p] = Now]
      BY <1>7 DEF RememberSecondNo
    <2> HIDE DEF taken, inserted
    <2>4. Append(journal, taken) \in Seq(Undone) /\ Replayable(Append(journal, taken), identity)
      BY <1>0, <2>1, PushProperties, ReplayPush DEF FreshInv
    <2>5. Replayable(Append(Append(journal, taken), inserted), identity)
      BY <2>1, <2>4, ReplayPush
    <2>6. Replayable(journal', identity)
      BY <2>1, <2>3, <2>5, FreshRecord DEF FreshInv
    <2>7. Fresh(memo', completed', clean', cache', identity)
      BY <1>0, <1>1, <2>2, <2>3, StampNow DEF Fresh
    <2> QED
      BY <1>2, <2>2, <2>6, <2>7
  <1>8. ASSUME NEW ty \in Roots, MarkClean(ty) PROVE FreshInv'
    <2> DEFINE r == [kind |-> "clean", key |-> ty]
    <2>1. r \in Undone /\ ~IsReset(r) /\ ~HasPrevious(r)
      BY <1>0, RecordTypes DEF IsReset, HasPrevious
    <2>2. Record(r) /\ query /\ clean' = [clean EXCEPT ![ty] = Now]
          /\ UNCHANGED <<identity, setting, query, graph, undoing, memo, completed, cache>>
      BY <1>8 DEF MarkClean
    <2> HIDE DEF r
    <2>3. Replayable(journal', identity)
      BY <2>1, <2>2, FreshRecord
    <2>4. Fresh(memo', completed', clean', cache', identity)
      BY <1>0, <1>1, <2>2, StampNow DEF Fresh
    <2> QED
      BY <1>2, <2>2, <2>3, <2>4
  <1> QED
    BY <1>3, <1>4, <1>5, <1>6, <1>7, <1>8 DEF Writes

(* A step that touches no context.                                         *)
LEMMA FreshIdle ==
    ASSUME FreshInv, MutateGraph \/ BeginRollback \/ CloseQuery
    PROVE  FreshInv'
  <1> USE DEF worldVars, layerVars, context
  <1>1. LayerInv' /\ Grounded'
    BY LayerNext, GroundNext DEF FreshInv, Next
  <1>2. UNCHANGED <<memo, completed, clean, cache, identity, journal, setting>>
    BY DEF MutateGraph, BeginRollback, CloseQuery
  <1>3. ~query'
    BY DEF MutateGraph, BeginRollback, CloseQuery, Between
  <1>4. QueryCurrent'
    BY <1>3 DEF QueryCurrent
  <1>5. Fresh(memo', completed', clean', cache', identity)
    BY <1>2 DEF FreshInv
  <1> QED
    BY <1>1, <1>2, <1>4, <1>5, FreshQuiet

LEMMA FreshChangeSetting ==
    ASSUME FreshInv, NEW value \in Settings, ChangeSetting(value)
    PROVE  FreshInv'
  <1> USE DEF layerVars
  <1>1. LayerInv' /\ Grounded'
    BY LayerNext, GroundNext DEF FreshInv, Next
  <1>2. /\ memo' = EmptyMemo /\ completed' = EmptyLayer /\ clean' = EmptyClean
        /\ cache' = <<EmptyLayer>>
        /\ identity' = NoIdentity /\ journal' = <<>> /\ query' = FALSE
    BY DEF ChangeSetting, Between, FreshInv, LayerInv, TypeOK
  <1>3. Fresh(memo, completed, clean, cache, identity)'
    BY <1>2 DEF Fresh, Stamped, EmptyMemo, EmptyLayer, EmptyClean
  <1>4. Replayable(journal, identity)' /\ QueryCurrent'
    BY <1>2 DEF Replayable, QueryCurrent
  <1> QED
    BY <1>1, <1>3, <1>4 DEF FreshInv

LEMMA FreshInit == Init => FreshInv
  <1> SUFFICES ASSUME Init PROVE FreshInv
    OBVIOUS
  <1>1. LayerInv /\ Grounded /\ QueryCurrent
    BY LayerInit DEF Init, Grounded, QueryCurrent
  <1>2. Fresh(memo, completed, clean, cache, identity)
    BY EmptyFresh DEF Init
  <1>3. Replayable(journal, identity)
    BY DEF Init, Replayable
  <1> QED
    BY <1>1, <1>2, <1>3 DEF FreshInv

LEMMA FreshNext == FreshInv /\ [Next]_vars => FreshInv'
  <1> SUFFICES ASSUME FreshInv, [Next]_vars PROVE FreshInv'
    OBVIOUS
  <1>1. CASE UNCHANGED vars
    <2>1. /\ UNCHANGED <<memo, completed, clean, cache, identity, journal, setting>>
          /\ UNCHANGED <<savepoints, undoing, mark, query, graph>>
      BY <1>1 DEF vars, context, layerVars, worldVars
    <2>2. LayerInv'
      BY <1>1, LayerNext DEF FreshInv
    <2>3. Grounded' /\ QueryCurrent'
      BY <2>1 DEF FreshInv, Grounded, QueryCurrent
    <2>4. Fresh(memo', completed', clean', cache', identity)
      BY <2>1 DEF FreshInv
    <2> QED
      BY <2>1, <2>2, <2>3, <2>4, FreshQuiet
  <1>2. CASE MutateGraph \/ BeginRollback \/ CloseQuery
    BY <1>2, FreshIdle
  <1>3. CASE Writes
    BY <1>3, FreshWrites
  <1>4. CASE \E value \in Settings : ChangeSetting(value)
    BY <1>4, FreshChangeSetting
  <1>5. CASE Savepoint \/ Commit \/ Undo \/ EndRollback \/ OpenQuery
    BY <1>5, FreshSavepoint, FreshCommit, FreshUndo, FreshEndRollback, FreshOpenQuery
  <1> QED
    BY <1>1, <1>2, <1>3, <1>4, <1>5 DEF Next, Writes

(* The layer a lookup reads is one of the cache's.                         *)
LEMMA LookupFresh ==
    ASSUME FreshInv, NEW p \in Pairs
    PROVE  Lookup(p) \in Stamped(identity)
  <1> DEFINE hits == {i \in DOMAIN cache : cache[i][p] # NoEntry}
  <1>1. Len(cache) \in Nat /\ DOMAIN cache = 1..Len(cache)
    BY SeqFacts DEF FreshInv, LayerInv, TypeOK
  <1>2. CASE hits = {}
    BY <1>2 DEF Lookup, Stamped
  <1>3. CASE hits # {}
    <2>1. hits \in SUBSET (1..Len(cache))
      BY <1>1
    <2>2. \E i \in hits : \A j \in hits : j <= i
      BY <1>1, <1>3, <2>1, LastPosition
    <2> DEFINE last == CHOOSE i \in hits : \A j \in hits : j <= i
    <2>3. last \in hits
      BY <2>2
    <2>4. Lookup(p) = cache[last][p]
      BY <1>3 DEF Lookup
    <2>5. last \in DOMAIN cache
      BY <2>3
    <2> HIDE DEF last
    <2> QED
      BY <2>4, <2>5 DEF FreshInv, Fresh
  <1> QED
    BY <1>2, <1>3

(* No query reads an entry that was computed under another type graph,     *)
(* other published classes or another setting, for any nesting of          *)
(* savepoints, any resets inside them and any rollback across a reset.     *)
THEOREM FreshReadsAlways == Spec => []FreshReads
  <1>1. FreshInv => FreshReads
    <2> SUFFICES ASSUME FreshInv, query
                 PROVE  /\ \A s \in Slots : memo[s] \in {Now, NoEntry}
                        /\ \A p \in Pairs : completed[p] \in {Now, NoEntry} /\ Lookup(p) \in {Now, NoEntry}
                        /\ \A ty \in Roots : clean[ty] \in {Now, NoEntry}
      BY DEF FreshReads
    <2>1. Stamped(identity) = {Now, NoEntry}
      BY StampNow
    <2>2. \A p \in Pairs : Lookup(p) \in Stamped(identity)
      BY LookupFresh
    <2>3. /\ \A s \in Slots : memo[s] \in Stamped(identity)
          /\ \A p \in Pairs : completed[p] \in Stamped(identity)
          /\ \A ty \in Roots : clean[ty] \in Stamped(identity)
      BY DEF FreshInv, Fresh
    <2> QED
      BY <2>1, <2>2, <2>3
  <1> QED
    BY <1>1, FreshInit, FreshNext, PTL DEF Spec
=============================================================================
