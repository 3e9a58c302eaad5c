-------------------------- MODULE SemanticQueryState --------------------------
(***************************************************************************)
(* The pass-local memos of the semantic-query coordinator and their        *)
(* speculative layers.  The checker opens savepoints around overload       *)
(* candidates, inference and narrowing, and nests them; writes made inside *)
(* are journaled, the relation cache is layered, and a change of the type  *)
(* graph or of the published classes resets everything at the next query.  *)
(*                                                                         *)
(* A stored entry is modelled by the context it was computed in, which is  *)
(* what decides whether it may still be read.                              *)
(***************************************************************************)
EXTENDS Naturals, Sequences

CONSTANTS
    Slots,         \* keys of projection_memo, evaluation_memo, completed_identities
    Pairs,         \* keys of relation_cache, completed_relations and its No candidates
    Roots,         \* keys of publication_clean: types all of whose classes are published
    Settings,      \* values of array_definitely_lacks_then / library_object_context
    NoEntry,
    NoIdentity,
    MaxDepth,      \* bound: open savepoints
    MaxGraph,      \* bound: changes of the graph's identity
    MaxJournal,    \* bound: undo records
    MaxLayers      \* bound: cache layers at a savepoint

ASSUME BoundAssumption ==
    /\ MaxDepth \in Nat /\ MaxGraph \in Nat /\ MaxJournal \in Nat
    /\ MaxLayers \in Nat
    /\ Settings # {}
    /\ NoIdentity \notin Nat
    /\ NoEntry \notin [graph : Nat, setting : Settings]

VARIABLES
    memo,        \* projection_memo, evaluation_memo and completed_identities
    completed,   \* completed_relations
    candidates,  \* completed_relation_no_candidates
    clean,       \* publication_clean
    cache,       \* relation_cache: its layers, the settled base first
    identity,    \* publication_store_identity and publication_snapshot_identity
    setting,     \* array_definitely_lacks_then and library_object_context
    journal,     \* the undo records of the open layers
    savepoints,  \* the journal length at each open savepoint
    undoing,     \* a rollback is replaying the journal
    mark,        \* the journal length that rollback goes back to
    query,       \* a coordinator is open
    graph,       \* the identities the store and the published classes have now
    saved        \* history: what was visible at each open savepoint

context   == <<memo, completed, candidates, clean, cache, identity>>
layerVars == <<savepoints, undoing, mark, saved>>
worldVars == <<query, graph, setting>>
vars      == <<context, journal, layerVars, worldVars>>

Stamp == [graph : Nat, setting : Settings]
Entry == Stamp \cup {NoEntry}
Layer == [Pairs -> Entry]

EmptyLayer == [p \in Pairs |-> NoEntry]
EmptyMemo  == [s \in Slots |-> NoEntry]
EmptyClean == [ty \in Roots |-> NoEntry]

Now == [graph |-> graph, setting |-> setting]
Speculative == savepoints # <<>>

(* RelationCache::lookup: the innermost layer that has the key decides.    *)
Lookup(p) ==
    LET hits == {i \in DOMAIN cache : cache[i][p] # NoEntry}
    IN  IF hits = {} THEN NoEntry
        ELSE cache[CHOOSE i \in hits : \A j \in hits : j <= i][p]

Visible == [memo |-> memo, completed |-> completed, candidates |-> candidates, clean |-> clean,
            cache |-> [p \in Pairs |-> Lookup(p)], identity |-> identity]

Init ==
    /\ memo = EmptyMemo /\ completed = EmptyLayer /\ candidates = {} /\ clean = EmptyClean
    /\ cache = <<EmptyLayer>>
    /\ identity = NoIdentity
    /\ setting \in Settings
    /\ journal = <<>> /\ savepoints = <<>> /\ undoing = FALSE /\ mark = 0
    /\ query = FALSE /\ graph = 0
    /\ saved = <<>>

-----------------------------------------------------------------------------
(* What the checker does between queries.                                  *)

Between == ~query /\ ~undoing

(* mark_semantic_graph_mutation, or another publication snapshot: the      *)
(* identity is fresh every time.                                           *)
MutateGraph ==
    /\ Between
    /\ graph < MaxGraph
    /\ graph' = graph + 1
    /\ UNCHANGED <<context, journal, layerVars, query, setting>>

(* set_array_definitely_lacks_then and set_library_object_context: ignored *)
(* while a layer is open.                                                  *)
ChangeSetting(value) ==
    /\ Between
    /\ value # setting /\ ~Speculative
    /\ memo' = EmptyMemo /\ completed' = EmptyLayer /\ candidates' = {} /\ clean' = EmptyClean
    /\ cache' = <<EmptyLayer>>
    /\ identity' = NoIdentity
    /\ journal' = <<>>
    /\ setting' = value
    /\ UNCHANGED <<layerVars, query, graph>>

Savepoint ==
    /\ Between
    /\ Len(savepoints) < MaxDepth /\ Len(cache) < MaxLayers
    /\ savepoints' = Append(savepoints, Len(journal))
    /\ cache' = Append(cache, EmptyLayer)
    /\ saved' = Append(saved, Visible)
    /\ UNCHANGED <<memo, completed, candidates, clean, identity, journal, undoing, mark, worldVars>>

(* RelationCache::commit folds the innermost layer into the one below it.  *)
Folded ==
    LET n == Len(cache)
    IN  Append(SubSeq(cache, 1, n - 2),
               [p \in Pairs |-> IF cache[n][p] # NoEntry THEN cache[n][p] ELSE cache[n - 1][p]])

(* Faulty variant of Commit: the outer layer's undo records are dropped.   *)
CommitForgetting ==
    /\ Between
    /\ Speculative
    /\ savepoints' = SubSeq(savepoints, 1, Len(savepoints) - 1)
    /\ cache' = Folded
    /\ journal' = <<>>
    /\ saved' = SubSeq(saved, 1, Len(saved) - 1)
    /\ UNCHANGED <<memo, completed, candidates, clean, identity, undoing, mark, worldVars>>

Commit ==
    /\ Between
    /\ Speculative
    /\ savepoints' = SubSeq(savepoints, 1, Len(savepoints) - 1)
    /\ cache' = Folded
    /\ journal' = IF Len(savepoints) = 1 THEN <<>> ELSE journal
    /\ saved' = SubSeq(saved, 1, Len(saved) - 1)
    /\ UNCHANGED <<memo, completed, candidates, clean, identity, undoing, mark, worldVars>>

(* Faulty variant of BeginRollback: the cache layer is dropped twice.      *)
BeginRollbackDropping ==
    /\ Between
    /\ Speculative
    /\ mark' = savepoints[Len(savepoints)]
    /\ savepoints' = SubSeq(savepoints, 1, Len(savepoints) - 1)
    /\ cache' = SubSeq(cache, 1, Len(cache) - 1)
    /\ undoing' = TRUE
    /\ UNCHANGED <<memo, completed, candidates, clean, identity, journal, saved, worldVars>>

(* rollback pops its mark, replays the journal down to it, newest record   *)
(* first, and then drops the innermost layer of whatever cache it holds.   *)
BeginRollback ==
    /\ Between
    /\ Speculative
    /\ mark' = savepoints[Len(savepoints)]
    /\ savepoints' = SubSeq(savepoints, 1, Len(savepoints) - 1)
    /\ undoing' = TRUE
    /\ UNCHANGED <<context, journal, saved, worldVars>>

UndoEntry(r) ==
    /\ memo' = IF r.kind = "memo" THEN [memo EXCEPT ![r.key] = r.previous] ELSE memo
    /\ completed' = IF r.kind = "completed" THEN [completed EXCEPT ![r.key] = r.previous]
                    ELSE completed
    /\ candidates' = CASE r.kind = "inserted" -> candidates \ {r.key}
                       [] r.kind = "removed"  -> candidates \cup {r.key}
                       [] OTHER               -> candidates
    /\ clean' = IF r.kind = "clean" THEN [clean EXCEPT ![r.key] = NoEntry] ELSE clean
    /\ UNCHANGED <<cache, identity>>

(* Faulty variant of UndoReset: the current identity is kept.              *)
UndoResetInPlace(r) ==
    /\ memo' = r.memo /\ completed' = r.completed
    /\ candidates' = r.candidates /\ clean' = r.clean
    /\ cache' = r.cache
    /\ UNCHANGED identity

(* The stale identities come back too, so the next query resets again.     *)
UndoReset(r) ==
    /\ memo' = r.memo /\ completed' = r.completed
    /\ candidates' = r.candidates /\ clean' = r.clean
    /\ cache' = r.cache
    /\ identity' = r.identity

Undo ==
    /\ undoing
    /\ Len(journal) > mark
    /\ LET r == journal[Len(journal)]
       IN  IF r.kind = "reset" THEN UndoReset(r) ELSE UndoEntry(r)
    /\ journal' = SubSeq(journal, 1, Len(journal) - 1)
    /\ UNCHANGED <<layerVars, worldVars>>

EndRollback ==
    /\ undoing
    /\ Len(journal) <= mark
    /\ cache' = SubSeq(cache, 1, Len(cache) - 1)
    /\ undoing' = FALSE /\ mark' = 0
    /\ saved' = SubSeq(saved, 1, Len(saved) - 1)
    /\ UNCHANGED <<memo, completed, candidates, clean, identity, journal, savepoints, worldVars>>

-----------------------------------------------------------------------------
(* What a coordinator does.                                                *)

(* record: an undo step is kept only while a layer can still discard it.   *)
Record(r) ==
    /\ Speculative => Len(journal) < MaxJournal
    /\ journal' = IF Speculative THEN Append(journal, r) ELSE journal

(* Faulty variant of Reset: the replacement cache has only its base.       *)
ResetFlat ==
    /\ Record([kind |-> "reset", memo |-> memo, completed |-> completed,
               candidates |-> candidates, clean |-> clean, cache |-> cache,
               identity |-> identity])
    /\ memo' = EmptyMemo /\ completed' = EmptyLayer /\ candidates' = {} /\ clean' = EmptyClean
    /\ cache' = <<EmptyLayer>>
    /\ identity' = graph

(* reset_semantic_context: the replacement cache is rebuilt to one layer   *)
(* per open savepoint, and the old context moves into the journal.         *)
Reset ==
    /\ Record([kind |-> "reset", memo |-> memo, completed |-> completed,
               candidates |-> candidates, clean |-> clean, cache |-> cache,
               identity |-> identity])
    /\ memo' = EmptyMemo /\ completed' = EmptyLayer /\ candidates' = {} /\ clean' = EmptyClean
    /\ cache' = [i \in 1..(Len(savepoints) + 1) |-> EmptyLayer]
    /\ identity' = graph

(* SemanticQueryCoordinator::new and its refresh_semantic_context.         *)
OpenQuery ==
    /\ Between
    /\ query' = TRUE
    /\ IF identity # graph THEN Reset ELSE UNCHANGED <<context, journal>>
    /\ UNCHANGED <<layerVars, graph, setting>>

CloseQuery ==
    /\ query
    /\ query' = FALSE
    /\ UNCHANGED <<context, journal, layerVars, graph, setting>>

(* commit_cache_entries, for each committed key, and remember_identity.    *)
WriteMemo(s) ==
    /\ query
    /\ memo' = [memo EXCEPT ![s] = Now]
    /\ Record([kind |-> "memo", key |-> s, previous |-> memo[s]])
    /\ UNCHANGED <<completed, candidates, clean, cache, identity, layerVars, worldVars>>

(* RelationCache::promote writes the innermost layer and is not journaled. *)
Promote(p) ==
    /\ query
    /\ cache' = [cache EXCEPT ![Len(cache)][p] = Now]
    /\ UNCHANGED <<memo, completed, candidates, clean, identity, journal, layerVars, worldVars>>

(* remember_relation, for a Yes: a remembered outcome is not replaced.     *)
RememberYes(p) ==
    /\ query
    /\ completed[p] = NoEntry
    /\ completed' = [completed EXCEPT ![p] = Now]
    /\ Record([kind |-> "completed", key |-> p, previous |-> NoEntry])
    /\ UNCHANGED <<memo, candidates, clean, cache, identity, layerVars, worldVars>>

(* The first No of a pair makes it a candidate, the second remembers it.   *)
RememberFirstNo(p) ==
    /\ query
    /\ p \notin candidates
    /\ candidates' = candidates \cup {p}
    /\ Record([kind |-> "inserted", key |-> p])
    /\ UNCHANGED <<memo, completed, clean, cache, identity, layerVars, worldVars>>

RememberSecondNo(p) ==
    /\ query
    /\ p \in candidates
    /\ candidates' = candidates \ {p}
    /\ LET taken == [kind |-> "removed", key |-> p]
           inserted == [kind |-> "completed", key |-> p, previous |-> NoEntry]
       IN  IF completed[p] = NoEntry
           THEN /\ completed' = [completed EXCEPT ![p] = Now]
                /\ Speculative => Len(journal) + 1 < MaxJournal
                /\ journal' = IF Speculative THEN Append(Append(journal, taken), inserted)
                              ELSE journal
           ELSE UNCHANGED completed /\ Record(taken)
    /\ UNCHANGED <<memo, clean, cache, identity, layerVars, worldVars>>

(* mark_publication_clean, for each type that publication_exhaustion saw.  *)
MarkClean(ty) ==
    /\ query
    /\ clean[ty] = NoEntry
    /\ clean' = [clean EXCEPT ![ty] = Now]
    /\ Record([kind |-> "clean", key |-> ty])
    /\ UNCHANGED <<memo, completed, candidates, cache, identity, layerVars, worldVars>>

-----------------------------------------------------------------------------
Next ==
    \/ MutateGraph \/ (\E value \in Settings : ChangeSetting(value))
    \/ Savepoint \/ Commit \/ BeginRollback \/ Undo \/ EndRollback
    \/ OpenQuery \/ CloseQuery
    \/ \E s \in Slots : WriteMemo(s)
    \/ \E p \in Pairs : Promote(p) \/ RememberYes(p) \/ RememberFirstNo(p) \/ RememberSecondNo(p)
    \/ \E ty \in Roots : MarkClean(ty)

Spec == Init /\ [][Next]_vars
-----------------------------------------------------------------------------
(* Properties.                                                             *)

Undone ==
    [kind : {"memo"}, key : Slots, previous : Entry]
    \cup [kind : {"completed"}, key : Pairs, previous : Entry]
    \cup [kind : {"inserted", "removed"}, key : Pairs]
    \cup [kind : {"clean"}, key : Roots]
    \cup [kind : {"reset"}, memo : [Slots -> Entry], completed : Layer,
          candidates : SUBSET Pairs, clean : [Roots -> Entry], cache : Seq(Layer),
          identity : Nat \cup {NoIdentity}]

TypeOK ==
    /\ memo \in [Slots -> Entry] /\ completed \in Layer
    /\ candidates \subseteq Pairs /\ clean \in [Roots -> Entry]
    /\ cache \in Seq(Layer) /\ cache # <<>>
    /\ identity \in Nat \cup {NoIdentity} /\ setting \in Settings
    /\ journal \in Seq(Undone) /\ savepoints \in Seq(Nat)
    /\ undoing \in BOOLEAN /\ mark \in Nat /\ query \in BOOLEAN /\ graph \in Nat

(* The two "expect"s of the layer protocol hold: a rollback or a commit    *)
(* always finds a cache layer to close, and every open mark lies within    *)
(* the journal, also after resets, nested commits and interrupted layers.  *)
LayersSuffice ==
    /\ Len(cache) > Len(savepoints) + (IF undoing THEN 1 ELSE 0)
    /\ \A i \in DOMAIN savepoints :
         /\ savepoints[i] <= Len(journal)
         /\ undoing => savepoints[i] <= mark
         /\ \A j \in DOMAIN savepoints : i <= j => savepoints[i] <= savepoints[j]
    /\ undoing => mark <= Len(journal)

(* A query never reads an entry computed under another type graph, other   *)
(* published classes or another setting, whatever was committed, rolled    *)
(* back or left over in between; nor does it skip a type that was found    *)
(* clean then.                                                             *)
FreshReads ==
    query => /\ \A s \in Slots : memo[s] \in {Now, NoEntry}
             /\ \A p \in Pairs : completed[p] \in {Now, NoEntry} /\ Lookup(p) \in {Now, NoEntry}
             /\ \A ty \in Roots : clean[ty] \in {Now, NoEntry}

(* What LayersSuffice and FreshReads rest on.                              *)

(* The context a reset set aside has a layer for every savepoint that can  *)
(* still bring it back.                                                    *)
Deep(J) ==
    \A j \in DOMAIN J : J[j].kind = "reset" =>
        /\ \A i \in DOMAIN savepoints : savepoints[i] < j => Len(J[j].cache) > i
        /\ undoing /\ mark < j => Len(J[j].cache) > Len(savepoints) + 1

LayerInv == TypeOK /\ LayersSuffice /\ Deep(journal)

(* The entries a context of this identity may hold.                        *)
Stamped(id) ==
    {NoEntry} \cup (IF id = NoIdentity THEN {} ELSE {[graph |-> id, setting |-> setting]})

Fresh(m, c, k, layers, id) ==
    /\ \A s \in Slots : m[s] \in Stamped(id)
    /\ \A ty \in Roots : k[ty] \in Stamped(id)
    /\ \A p \in Pairs : c[p] \in Stamped(id)
    /\ \A i \in DOMAIN layers : \A p \in Pairs : layers[i][p] \in Stamped(id)

IsReset(r) == r.kind = "reset"
HasPrevious(r) == r.kind \in {"memo", "completed"}

(* The record at m is the first reset after the record at j.               *)
NextReset(J, j, m) ==
    j < m /\ IsReset(J[m]) /\ \A k \in DOMAIN J : j < k /\ k < m => ~IsReset(J[k])

(* Whatever a rollback puts back was computed under the identity that is   *)
(* in force when it is put back; id is the identity in force now.          *)
Replayable(J, id) ==
    \A j \in DOMAIN J :
        /\ IsReset(J[j]) => Fresh(J[j].memo, J[j].completed, J[j].clean,
                                 J[j].cache, J[j].identity)
        /\ HasPrevious(J[j]) =>
             /\ (\A k \in DOMAIN J : j < k => ~IsReset(J[k])) => J[j].previous \in Stamped(id)
             /\ \A m \in DOMAIN J : NextReset(J, j, m) => J[j].previous \in Stamped(J[m].identity)

(* The outermost savepoint opens on an empty journal, and closing it, by   *)
(* commit or by rollback, leaves the journal empty again.                  *)
Grounded ==
    /\ savepoints # <<>> => savepoints[1] = 0
    /\ savepoints = <<>> => IF undoing THEN mark = 0 ELSE journal = <<>>

(* An open query has compared its identities.                              *)
QueryCurrent == query => identity = graph /\ ~undoing

FreshInv ==
    /\ LayerInv /\ Grounded /\ QueryCurrent
    /\ Replayable(journal, identity) /\ Fresh(memo, completed, clean, cache, identity)

(* What a query could read of a context: nothing, unless it belongs to the *)
(* identities of now.                                                      *)
Nothing == [memo |-> EmptyMemo, completed |-> EmptyLayer, candidates |-> {}, clean |-> EmptyClean,
            cache |-> EmptyLayer]
Readable(v) ==
    IF v.identity = graph THEN [field \in DOMAIN Nothing |-> v[field]] ELSE Nothing

(* While the journal is replayed the caller already sees what was saved.   *)
Transactions == INSTANCE NestedTransactions WITH
    Blank   <- Nothing,
    open    <- query,
    visible <- Readable(IF undoing THEN saved[Len(saved)] ELSE Visible),
    stack   <- [i \in 1..(Len(saved) - (IF undoing THEN 1 ELSE 0)) |-> Readable(saved[i])]

(* Journal and layers together implement nested transactions, wherever the *)
(* type graph changes: what a query can read after a rollback is what it   *)
(* could read at the savepoint, or nothing if the graph moved on since.    *)
Transactional == Transactions!Spec
=============================================================================
