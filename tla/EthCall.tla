------------------------------ MODULE EthCall ------------------------------
(***************************************************************************)
(* ContractService.callContract (src/src/contract/contract.service.ts):    *)
(* eth_call opens a checkpoint, lets an EVM of its own run the call and    *)
(* reverts.  The EVM is its own, the StateManager under it is the one the  *)
(* block is executed on, and every step is awaited: steps of a block and   *)
(* of other calls come in between.                                         *)
(***************************************************************************)
EXTENDS BlockExecution

CONSTANT Caller       \* eth_call requests

VARIABLES
    call,             \* where each request is in callContract
    own,              \* history: the pictures the block's own steps give
    overlapped        \* history: a request was under way at a step of this
                      \* block or at the beginning of another request, or
                      \* an account was late when the block began

callVars == <<vars, call, own, overlapped>>
callHistory == <<own, overlapped>>

UnderWay == {c \in Caller : call[c] # "none"}

CallInit ==
    /\ Init
    /\ call = [c \in Caller |-> "none"]
    /\ own = <<>>
    /\ overlapped = FALSE

-----------------------------------------------------------------------------
(* callContract *)

\* evmState.checkpoint()
CallOpens(c) ==
    /\ call[c] = "none"
    /\ Checkpoint
    /\ call' = [call EXCEPT ![c] = "open"]
    /\ overlapped' = (overlapped \/ UnderWay # {})
    /\ UNCHANGED <<cacheAndRepo, blockVars, own>>

\* There is a latest block and runCall opens its own checkpoint.
CallRuns(c) ==
    /\ call[c] = "open"
    /\ Checkpoint
    /\ call' = [call EXCEPT ![c] = "running"]
    /\ UNCHANGED <<cacheAndRepo, blockVars, callHistory>>

\* The call stores an account; it at least writes back the one it is made to.
CallWrites(c, a, v) ==
    /\ call[c] = "running"
    /\ SetAccount(a, v)
    /\ UNCHANGED <<cacheAndRepo, blockVars, call, callHistory>>

\* runCall returns: its checkpoint is committed, or reverted when the
\* contract reverts.
CallReturns(c) ==
    /\ call[c] = "running"
    /\ CommitCheckpoint \/ RevertCheckpoint
    /\ call' = [call EXCEPT ![c] = "open"]
    /\ UNCHANGED <<cacheAndRepo, blockVars, callHistory>>

\* runCall fails because the stack is empty: somebody cleared it.
CallThrows(c) ==
    /\ call[c] = "running"
    /\ journalStack = <<>>
    /\ call' = [call EXCEPT ![c] = "open"]
    /\ UNCHANGED <<vars, callHistory>>

\* Mutation: the checkpoint is left open.
CallEnds(c) ==
    /\ call[c] = "open"
    /\ call' = [call EXCEPT ![c] = "none"]
    /\ UNCHANGED <<vars, callHistory>>

\* evmState.revert(), after runCall or in the catch.  On an empty stack it
\* throws, and the catch reverts once more.
CallReverts(c) ==
    /\ call[c] = "open"
    /\ \/ /\ RevertCheckpoint
          /\ call' = [call EXCEPT ![c] = "none"]
       \/ /\ journalStack = <<>>
          /\ call' = [call EXCEPT ![c] = "thrown"]
          /\ UNCHANGED journalStack
    /\ UNCHANGED <<cacheAndRepo, blockVars, callHistory>>

\* The second revert takes whatever level is there by then.
CallRevertsAgain(c) ==
    /\ call[c] = "thrown"
    /\ RevertCheckpoint \/ (journalStack = <<>> /\ UNCHANGED journalStack)
    /\ call' = [call EXCEPT ![c] = "none"]
    /\ UNCHANGED <<cacheAndRepo, blockVars, callHistory>>

CallStep ==
    \E c \in Caller :
        \/ CallOpens(c)
        \/ CallRuns(c)
        \/ \E a \in Addr, v \in Value : CallWrites(c, a, v)
        \/ CallReturns(c)
        \/ CallThrows(c)
        \/ CallReverts(c)
        \/ CallRevertsAgain(c)

-----------------------------------------------------------------------------
(* The block's steps, each with what it does to the block's own pictures *)

BlockStep ==
    /\ UNCHANGED call
    /\ \/ /\ BeginBlock
          /\ own' = <<Stored>>
          /\ overlapped' = (UnderWay # {} \/ late # {})
       \/ /\ \/ \E a \in Addr, v \in Value :
                   /\ PutAccount(a, v)
                   /\ own' = [own EXCEPT ![Len(own)][a] = v]
             \/ OpenFrame /\ own' = Append(own, own[Len(own)])
             \/ /\ CommitFrame
                /\ own' = [SubSeq(own, 1, Len(own) - 1) EXCEPT
                              ![Len(own) - 1] = own[Len(own)]]
             \/ RevertFrame /\ own' = SubSeq(own, 1, Len(own) - 1)
             \/ BeginCommit /\ UNCHANGED own
          /\ overlapped' = (overlapped \/ UnderWay # {})
       \/ /\ EndCommit \/ SaveFails \/ AbandonBlock
          /\ own' = <<>>
          /\ UNCHANGED overlapped
       \/ /\ \/ \E r \in Reader, a \in Addr : ReadMiss(r, a)
             \/ \E r \in Reader : ReadReturns(r)
             \/ \E a \in Addr : SaveAccount(a)
             \/ AccountPersisted
             \/ AccountSaved
             \/ OtherCached
             \/ OtherCredited
          /\ UNCHANGED callHistory

\* commitBlock on an empty stack returns at once.
CommitNothing ==
    /\ phase = "block"
    /\ frames = 0
    /\ journalStack = <<>>
    /\ phase' = "idle"
    /\ own' = <<>>
    /\ UNCHANGED <<stateVars, frames, history, call, overlapped>>

\* The EVM's commit or revert finds an empty stack and throws, and so does
\* runTx's own revert: createBlock records the transaction as failed.
FramesLost ==
    /\ phase = "block"
    /\ frames > 0
    /\ journalStack = <<>>
    /\ frames' = 0
    /\ own' = <<own[1]>>
    /\ UNCHANGED <<stateVars, phase, history, call, overlapped>>

CallNext == CallStep \/ BlockStep \/ CommitNothing \/ FramesLost

CallSpec == CallInit /\ [][CallNext]_callVars

-----------------------------------------------------------------------------
(* Properties *)

\* When no block is open and every call has returned there is no entry left on
\* the journal stack, however calls, blocks and the levels that credits open
\* were interleaved: no write of a call is left for a later reader to find.
CallsLeaveNothing ==
    phase = "idle" /\ (\A c \in Caller : call[c] = "none") =>
        \A i \in DOMAIN journalStack : journalStack[i] = EmptyJournal

\* eth_call changes no state: what a block saves when it commits is what its
\* own steps wrote, however calls were interleaved with them.
BlockCommitsItsOwnWrites ==
    phase = "saving" =>
        \A a \in Addr :
            Stored[a] = own[1][a] \/ unsaved[a] = own[1][a]

\* It does change none as long as each request opens, runs and reverts between
\* two steps of the block, one request at a time: the block then reads and
\* commits what it wrote, also when calls run while it is being saved.  (Of an
\* account that is late the cache shows an older one, calls or none.)
CallsInTurnAreIsolated ==
    ~overlapped =>
        /\ phase = "block" /\ UnderWay = {} =>
              Picture(Len(journalStack)) = own[Len(own)]
        /\ late = {} => BlockCommitsItsOwnWrites
=============================================================================
