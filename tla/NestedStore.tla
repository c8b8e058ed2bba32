---------------------------- MODULE NestedStore ----------------------------
(***************************************************************************)
(* What StateManager (src/src/state/state-manager.ts) promises its callers *)
(* when the comments of its methods are taken together: a key-value store  *)
(* with one block open at a time and nested checkpoints inside the block.  *)
(* A level is a complete picture of the accounts, so undoing is dropping a *)
(* picture and committing is replacing one.  There is no cache here, no    *)
(* journal and no step that takes more than an instant.                    *)
(***************************************************************************)
EXTENDS Naturals, Sequences

CONSTANTS Addr, Value, NoAccount

VARIABLES
    committed,  \* the accounts as the last committed block left them
    levels,     \* the open pictures, outermost first; <<>> between blocks
    torn        \* the last commit failed or was cut short

storeVars == <<committed, levels, torn>>

Accounts == [Addr -> Value \cup {NoAccount}]

Top == levels[Len(levels)]
Outer == SubSeq(levels, 1, Len(levels) - 1)

StoreInit ==
    /\ committed \in Accounts
    /\ levels = <<>>
    /\ torn = FALSE

Begin ==
    /\ levels = <<>>
    /\ levels' = <<committed>>
    /\ torn' = FALSE
    /\ UNCHANGED committed

Write(a, v) ==
    /\ levels # <<>>
    /\ levels' = Append(Outer, [Top EXCEPT ![a] = v])
    /\ UNCHANGED <<committed, torn>>

Nest ==
    /\ levels # <<>>
    /\ levels' = Append(levels, Top)
    /\ UNCHANGED <<committed, torn>>

Keep ==
    /\ Len(levels) > 1
    /\ levels' = [Outer EXCEPT ![Len(Outer)] = Top]
    /\ UNCHANGED <<committed, torn>>

Undo ==
    /\ Len(levels) > 1
    /\ levels' = Outer
    /\ UNCHANGED <<committed, torn>>

Commit ==
    /\ Len(levels) = 1
    /\ committed' = Top
    /\ levels' = <<>>
    /\ UNCHANGED torn

\* A commit that fails or is cut short keeps some accounts and loses others.
Tear ==
    /\ Len(levels) = 1
    /\ committed' \in Accounts
    /\ \A a \in Addr : committed'[a] \in {committed[a], Top[a]}
    /\ levels' = <<>>
    /\ torn' = TRUE

Abandon ==
    /\ levels # <<>>
    /\ levels' = <<>>
    /\ UNCHANGED <<committed, torn>>

StoreNext ==
    \/ Begin
    \/ \E a \in Addr, v \in Value : Write(a, v)
    \/ Nest
    \/ Keep
    \/ Undo
    \/ Commit
    \/ Tear
    \/ Abandon

StoreSpec == StoreInit /\ [][StoreNext]_storeVars
=============================================================================
