-------------------------- MODULE NestedTransactions --------------------------
(***************************************************************************)
(* What a caller of SemanticQueryState may rely on: only an open query     *)
(* changes what queries read, savepoints nest, a commit keeps what its     *)
(* layer wrote, a rollback leaves no trace of it.  How the layers are      *)
(* represented is left open.                                               *)
(***************************************************************************)
EXTENDS Sequences, Naturals

CONSTANT Blank   \* what is visible once everything is forgotten

VARIABLES
    visible,   \* what a query would read
    stack,     \* what was visible when each open savepoint was taken
    open       \* a query is running

Init == visible = Blank /\ stack = <<>> /\ open = FALSE

Open  == ~open /\ open' = TRUE /\ UNCHANGED <<visible, stack>>
Write == open /\ UNCHANGED <<stack, open>>
Close == open /\ open' = FALSE /\ UNCHANGED <<visible, stack>>

(* Between queries the world may change.  Then everything remembered is    *)
(* forgotten for good, what a rollback would bring back included.          *)
Forget ==
    /\ ~open
    /\ visible' = Blank /\ stack' = [i \in DOMAIN stack |-> Blank]
    /\ UNCHANGED open

Savepoint ==
    /\ ~open
    /\ stack' = Append(stack, visible)
    /\ UNCHANGED <<visible, open>>

Commit ==
    /\ ~open /\ stack # <<>>
    /\ stack' = SubSeq(stack, 1, Len(stack) - 1)
    /\ UNCHANGED <<visible, open>>

Rollback ==
    /\ ~open /\ stack # <<>>
    /\ visible' = stack[Len(stack)]
    /\ stack' = SubSeq(stack, 1, Len(stack) - 1)
    /\ UNCHANGED open

Next == Open \/ Write \/ Close \/ Forget \/ Savepoint \/ Commit \/ Rollback

Spec == Init /\ [][Next]_<<visible, stack, open>>
=============================================================================
