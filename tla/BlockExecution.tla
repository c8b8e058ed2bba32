-------------------------- MODULE BlockExecution ---------------------------
(***************************************************************************)
(* One block at a time through StateManager: BlockProducer.produceBlock    *)
(* (src/src/block/producer/block.producer.ts) opens it, the EVM writes and *)
(* nests through CustomStateManager (src/src/state/                        *)
(* custom-state-manager.ts), and the block is committed or rolled back,    *)
(* while API requests read accounts at any moment.                         *)
(*                                                                         *)
(* CustomStateManager.putAccount stores a new Account every time and reads *)
(* are copied out (toOurAccount, toEthAccount), so here an Object is its   *)
(* value.  putContractCode, putContractStorage and modifyAccountFields     *)
(* change the Account they find in place; they are not modelled here.      *)
(*                                                                         *)
(* Addr are accounts that nobody credits in place.  AccountService has     *)
(* those of rewards and of add-balance requests; of them this module shows *)
(* what they do to everybody else: they take room in the cache             *)
(* (OtherCached) and leave a journal level where there was none            *)
(* (OtherCredited).                                                        *)
(***************************************************************************)
EXTENDS StateManager

CONSTANTS
    MaxFrames,      \* bound: frames the EVM has open at once
    MayFail         \* LevelDB may fail to read or to put an account

ASSUME ObjectAssumption == Object = Value
ASSUME BlockConstantsAssumption ==
    /\ MaxFrames \in Nat
    /\ MayFail \in BOOLEAN

VARIABLES
    phase,          \* "idle", "block" (executing) or "saving" (commitBlock)
    frames,         \* the EVM's open checkpoints
    before,         \* history: the accounts before the commit in progress
    torn,           \* history: the last commit failed or was cut short
    late            \* history: accounts saved last while a read of them was
                    \* under way, which will bring, or has brought, an older one

history == <<before, torn, late>>
blockVars == <<phase, frames, history>>
vars == <<stateVars, blockVars>>

cacheAndRepo == <<cache, cacheKeys, repo, fetch, unsaved, save>>

Accounts == [Addr -> Value \cup {NoAccount}]
NoAccounts == [a \in Addr |-> NoAccount]

\* The accounts under the journal.
Stored == [a \in Addr |-> IF cache[a] # NoEntry THEN cache[a] ELSE repo[a]]

Init ==
    /\ StateInit
    /\ phase = "idle"
    /\ frames = 0
    /\ before = NoAccounts
    /\ torn = FALSE
    /\ late = {}

\* produceBlock calls startBlock.
BeginBlock ==
    /\ phase = "idle"
    /\ StartBlock
    /\ phase' = "block"
    /\ torn' = FALSE
    /\ UNCHANGED <<cacheAndRepo, frames, before, late>>

\* The EVM stores an account (putAccount, deleteAccount); it does so inside
\* the frame that runTx opens.
PutAccount(a, v) ==
    /\ phase = "block"
    /\ frames > 0
    /\ SetAccount(a, v)
    /\ UNCHANGED <<cacheAndRepo, blockVars>>

\* The EVM opens a frame: one for the transaction, one for each call in it.
OpenFrame ==
    /\ phase = "block"
    /\ frames < MaxFrames
    /\ Checkpoint
    /\ frames' = frames + 1
    /\ UNCHANGED <<cacheAndRepo, phase, history>>

\* The EVM closes the frames it opened.
CommitFrame ==
    /\ phase = "block"
    /\ frames > 0
    /\ CommitCheckpoint
    /\ frames' = frames - 1
    /\ UNCHANGED <<cacheAndRepo, phase, history>>

RevertFrame ==
    /\ phase = "block"
    /\ frames > 0
    /\ RevertCheckpoint
    /\ frames' = frames - 1
    /\ UNCHANGED <<cacheAndRepo, phase, history>>

\* Anybody reads an account at any time; a hit changes nothing.
ReadMiss(r, a) ==
    /\ \E fails \in {FALSE, MayFail} : Fetch(r, a, fails)
    /\ UNCHANGED blockVars

\* The repository builds a new Account from what it read.
ReadReturns(r) ==
    /\ FetchDone(r, fetch[r].value)
    /\ UNCHANGED <<journalStack, repo, unsaved, save, blockVars>>

\* The attestations suffice and every frame is closed: commitBlock.
BeginCommit ==
    /\ phase = "block"
    /\ frames = 0
    /\ CommitStart
    /\ phase' = "saving"
    /\ before' = Stored
    /\ UNCHANGED <<frames, torn, late>>

SaveAccount(a) ==
    /\ phase = "saving"
    /\ Encode(a, unsaved[a])
    /\ UNCHANGED blockVars

\* A read of the account is under way, and its answer is another than this.
AnswerIsOlder(a, value) ==
    \E r \in Reader :
        fetch[r].addr = a /\ fetch[r].value \notin {value, NoAccount}

AccountPersisted ==
    /\ phase = "saving"
    /\ Persist
    /\ late' = IF AnswerIsOlder(save.addr, save.value)
               THEN late \cup {save.addr} ELSE late
    /\ UNCHANGED <<phase, frames, before, torn>>

AccountSaved ==
    /\ phase = "saving"
    /\ SaveDone
    /\ late' = IF AnswerIsOlder(save.addr, save.value)
               THEN late ELSE late \ {save.addr}
    /\ UNCHANGED <<phase, frames, before, torn>>

EndCommit ==
    /\ phase = "saving"
    /\ CommitEnd
    /\ phase' = "idle"
    /\ before' = NoAccounts
    /\ UNCHANGED <<frames, torn, late>>

SaveFails ==
    /\ MayFail
    /\ phase = "saving"
    /\ CommitFails
    /\ phase' = "idle"
    /\ before' = NoAccounts
    /\ torn' = TRUE
    /\ UNCHANGED <<frames, late>>

\* Too few attestations, or an error in the middle of a transaction.
AbandonBlock ==
    /\ phase = "block"
    /\ RollbackBlock
    /\ phase' = "idle"
    /\ frames' = 0
    /\ UNCHANGED <<cacheAndRepo, history>>

\* An account that is not in Addr goes to a full cache.
OtherCached ==
    /\ cacheKeys # <<>>
    /\ cacheKeys' = Tail(cacheKeys)
    /\ cache' = [cache EXCEPT ![Head(cacheKeys)] = NoEntry]
    /\ UNCHANGED <<journalStack, repo, fetch, unsaved, save, blockVars>>

\* distributeRewards after a commit, and add-balance requests at any time:
\* addBalance calls setAccount, which opens a level on an empty stack.
OtherCredited ==
    /\ journalStack = <<>>
    /\ journalStack' = <<EmptyJournal>>
    /\ UNCHANGED <<cacheAndRepo, blockVars>>

Next ==
    \/ BeginBlock
    \/ \E a \in Addr, v \in Value : PutAccount(a, v)
    \/ OpenFrame
    \/ CommitFrame
    \/ RevertFrame
    \/ \E r \in Reader, a \in Addr : ReadMiss(r, a)
    \/ \E r \in Reader : ReadReturns(r)
    \/ BeginCommit
    \/ \E a \in Addr : SaveAccount(a)
    \/ AccountPersisted
    \/ AccountSaved
    \/ EndCommit
    \/ SaveFails
    \/ AbandonBlock
    \/ OtherCached
    \/ OtherCredited

Spec == Init /\ [][Next]_vars

\* LevelDB answers what it is asked and an awaiting callback is run.
FairSpec ==
    /\ Spec
    /\ \A a \in Addr : WF_vars(SaveAccount(a))
    /\ WF_vars(AccountPersisted)
    /\ WF_vars(AccountSaved)
    /\ WF_vars(EndCommit)
    /\ \A r \in Reader : WF_vars(ReadReturns(r))

-----------------------------------------------------------------------------
(* Properties *)

\* Every variable has its type, and the journal stack has the block's level
\* and one for each open EVM frame, no more; between blocks none but the one
\* that credits leave.  The callers of startBlock, checkpoint, commitBlock and
\* rollbackBlock never leave a level behind.
TypeOK ==
    /\ StateTypeOK
    /\ phase \in {"idle", "block", "saving"}
    /\ frames \in 0..MaxFrames
    /\ before \in Accounts
    /\ torn \in BOOLEAN
    /\ late \subseteq Addr
    /\ IF phase = "idle" THEN journalStack \in {<<>>, <<EmptyJournal>>}
                         ELSE Len(journalStack) = frames + 1
    /\ phase # "block" => frames = 0
    /\ phase # "saving" => unsaved = EmptyJournal /\ save = NoSave

\* A cached account is another than the stored one only while its save is
\* being answered, or after it was saved while an older answer was on its way
\* to a reader; the next save of the account then mends it.  No eviction,
\* failed save, rollback or other order of answers leaves a stale account for
\* later reads to find.
StaleOnlyByLateAnswer ==
    \A a \in Addr :
        cache[a] # NoEntry /\ cache[a] # repo[a] =>
            \/ save.addr = a /\ save.persisted
            \/ a \in late

\* The cache stays within its limit and its key order is that of its entries,
\* through re-insertion of a key into a full cache.
CacheWithinLimit ==
    /\ Len(cacheKeys) <= CacheSizeLimit
    /\ \A i, j \in DOMAIN cacheKeys : cacheKeys[i] = cacheKeys[j] => i = j
    /\ \A a \in Addr : cache[a] # NoEntry <=>
                         \E i \in DOMAIN cacheKeys : cacheKeys[i] = a

\* Once commitBlock starts to save it ends, with every account saved or with
\* an error.
CommitFinishes == (phase = "saving") ~> (phase = "idle")

\* The picture that the first k levels give on top of the stored accounts.
Picture(k) ==
    LET m == Merged(SubSeq(journalStack, 1, k))
    IN  [a \in Addr |-> IF m[a] # NoEntry THEN m[a] ELSE Stored[a]]

\* The journal, the cache and the slow commit together behave as the nested
\* store: an undone frame or block leaves no trace, a block's writes are
\* stored all at once when its commit ends, and a commit that fails leaves
\* each account as it was or as the block left it.  Steps at which an account
\* is late are excepted: the cache may then show it as it was before.
Store == INSTANCE NestedStore WITH
    committed <- IF phase = "saving" THEN before ELSE Stored,
    levels <- IF phase = "idle"
              THEN <<>>
              ELSE [k \in 1..Len(journalStack) |-> Picture(k)]

NoneIsLate == late = {} /\ late' = {}

ImplementsStore ==
    /\ Store!StoreInit
    /\ [][NoneIsLate => Store!StoreNext]_(Store!storeVars)
=============================================================================
