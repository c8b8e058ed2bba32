# Dustin-Chain: a verification development

Dustin-Chain is a single-node Ethereum-like chain in TypeScript (NestJS,
LevelDB, `@ethereumjs/vm`). This directory holds TLA+ models of its core, the
TLC runs that check them and the TLAPS proofs about them. Paths such as
`state-manager.ts:76` are relative to `src/src/`.

The program has one thread. What makes it hard is `await`: everything between
two awaits is atomic, and at every await any other callback - an HTTP request,
the block timer, an `eth_call` - may run against the same in-memory state.

## 1. Inventory

| Component | State | Operations | Correct when |
|---|---|---|---|
| `state/state-manager.ts` | `journalStack` (stack of Maps), `cache` (bounded Map) over LevelDB | `getAccount`, `setAccount`, `startBlock`, `checkpoint`, `commitCheckpoint`, `revertCheckpoint`, `commitBlock`, `rollbackBlock` | it behaves as a nested transactional store; the cache shows no account that is not stored, but for one that a late answer brought |
| `state/custom-state-manager.ts` | code and storage keys in LevelDB | the EVM's interface: accounts and checkpoints mapped to StateManager, code and storage written directly | code is found under every hash that names it, a slot reads as it was left |
| `account/account.service.ts`, `account.entity.ts` | the Account objects the Maps refer to | `addBalance`, `subtractBalance`, `transfer` change the object, then set it | each credit counts once, a transfer has both sides, no balance below 0 |
| `transaction/pool/transaction.pool.ts` | `pending`, `queued` | `add`, `getPending`, `promoteQueuedToPending`, `remove` | one transaction per sender and nonce; what can run is pending |
| `transaction/transaction.service.ts` | none | `submitTransaction`: signature, nonce, gas, balance, nonce again, add | what is accepted will be tried by a block |
| `block/block.service.ts` | latest block (through the repository), VM | genesis, restore, `createBlock`, `executeTransaction`, `saveBlock` | transactions of a sender succeed in nonce order, each once; chain and accounts agree |
| `block/producer/block.producer.ts` | `genesisTime`, `isRunning`, `currentTimeout` | bootstrap, `start`, `stop`, `scheduleNextBlock`, `produceBlock`, `distributeRewards` | one block at a time, one per slot, and always another one |
| `contract/contract.service.ts` | a VM of its own over the shared state | `callContract` (eth_call); deploy and execute sign and submit a transaction | a call changes no state; the nonces it signs leave no gap |
| `consensus/`, `validator/` | genesis time | attestations, `hasSupermajority`; proposer and committee by seeded shuffle | two thirds of the committee; selection is a function of the slot |
| `storage/repositories/block-leveldb` | headers, bodies, lookups, receipts, `LastBlock` | `save` (one batch), `saveReceipt`, finds | a saved block is found whole |
| `storage/repositories/state-leveldb` | account keys, state trie and its root | `getAccount`, `saveAccount`, `setStateRoot` | a read after a save finds it; the root is that of the accounts |
| `block/entities`, `transaction/entities` | none | construction, header and body, JSON | what is read back says what was made |
| `common/crypto` | none | signatures, hashes, RLP and trie roots | what is signed verifies |
| `bot/`, DTOs, controllers | timers of the bot | clients of the above | - |
| units, constants, scripts, memory repository | none that matters here | pure functions, files | - |

Interactions. The timer of BlockProducer calls `produceBlock`: startBlock ->
createBlock (takes the pending transactions, runs each on the VM, which reads
and writes through CustomStateManager -> StateManager, removes it from the pool
and promotes the next) -> attestations -> commitBlock -> saveBlock -> rewards
(AccountService -> StateManager), or rollbackBlock on an error or too few
attestations. HTTP requests submit transactions (TransactionService -> pool),
credit accounts, call contracts (a checkpoint on the same journal stack), and
start or stop the producer. All of them share StateManager.

Hard behaviours: interleavings at awaits (eth_call against a block, two
requests, a reader against a commit), a late LevelDB answer, eviction from a
full cache, nested checkpoints, Account objects changed in place, a step of
`produceBlock` that fails, blocks longer than a slot, stop and start during a
block, crash and restart between `commitBlock` and `saveBlock`. `PROJECT.json`
lists each under "hazards" at its line with the properties that watch it.

## 2. Modules

| Module | Models | State |
|---|---|---|
| `StateManager` | every method of StateManager over LevelDB, awaits split | `journalStack`, `cache` and its key order `cacheKeys`, `repo`, one `fetch` per reader, `unsaved` and `save` of a commit in progress |
| `BlockExecution` | one block at a time: producer, EVM frames, readers; what credits to other accounts do to stack and cache | + `phase`, `frames`, histories `before`, `torn`, `late` |
| `NestedStore` | what StateManager promises (abstract) | `committed`, `levels`, `torn` |
| `ContractState` | CustomStateManager beside BlockExecution: code, code hashes, slots, creation of contracts, crashes | + `codeStore`, `accountCode`, `slots`, `evm` (the awaited put), `creating`, histories `codeOf`, `written`, `spoiled` |
| `EthCall` | `callContract` beside BlockExecution | + `call`, histories `own`, `overlapped` |
| `AccountService` | callers that change Account objects in place | + `heap` of objects, `task` per caller, histories `owed`, `inBlock` |
| `TransactionPool` | submission, pool, createBlock | `pending`, `queued`, `nonce`, the block's phases, `request` per client |
| `Wallet` | transactions the node signs itself, beside TransactionPool; signatures, `normalizeData` | + `signing` per client, history `refused` |
| `BlockProducer` | bootstrap, slots, timers, start and stop | `loop` per chain of timers, `journalOf`, the fields of the class |
| `Consensus` | proposer, committee, attestations, supermajority and rewards, in the steps of BlockProducer | + `duty` per chain, histories `blocks`, `attestations` |
| `BlockCodec` | entities, their JSON, RLP as used, headers, bodies, lookups, receipts and roots | - (operators) |
| `ChainStore` | what is on disk and how it gets there: genesis, restore, createBlock, commitBlock, saveBlock, receipts, finds, header cache; failed writes, crashes and restarts | `accounts` and `chaindata` (disk), `headerCache`, `trie`, `currentRoot`, `boot`, `toCopy`, `step`, `unsaved`, `putting`, `receiptsSaved`, histories `created`, `faults`, `crashes` |
| `Ledger` | what BlockService promises a reader of blocks and accounts (abstract) | `chain`, `state` |
| `BlockExecutionProofs` | theorems about BlockExecution, alone and beside EthCall | - |
| `ContractStateProofs`, `AccountProofs`, `ConsensusProofs`, `PoolProofs`, `ChainStoreProofs` | theorems about ContractState; AccountService; Consensus with BlockProducer; Wallet with TransactionPool; ChainStore with BlockCodec | - |
| `StateManagerProofs` | what the methods of StateManager do to stack and cache, for the proofs about their callers | - |
| `CountingUp` | induction up to a number, for those proofs | - |
| `MC*` | values of the constants for TLC | - |

Composition. ContractState and EthCall extend BlockExecution, which extends
StateManager; AccountService extends StateManager. Wallet extends
TransactionPool, Consensus extends BlockProducer, ChainStore extends
BlockCodec. The extensions only add conjuncts to the steps they extend, so what
the lower module promises is still checked in the composition and, where a
theorem is listed for it, proved there. ChainStore does not repeat what the others have in
detail: a block is executed in one step by one producer, and an account is what
was done to it (`alloc`, `nonce`, `received`).

Correspondence. A synchronous stretch of code is one action; a method that
awaits is several, and what it remembers across the await is a variable
(`fetch[r]`, `save`, `request[c]`, `signing[c]`, `task[t]`, `evm`, `putting`).
`getAccount` on a miss is `Fetch` (LevelDB reads, or fails and answers null) and
`FetchDone` (the answer is cached, whatever happened meanwhile). `commitBlock`
is `CommitStart`, then for each entry `Encode`, `Persist`, `SaveDone`, then
`CommitEnd`; `CommitFails` leaves it in the middle and rolls back as the
caller's catch does. A journal is a function from addresses to entries with
`NoEntry` for an absent key. The order in which a merged journal is saved is
left open.

In ChainStore `saveAccount` is split where it can be cut: the put into the trie
(`PutInTrie`), then the account key with the new root (`PutAccount`). The batch
of `save` is one action since LevelDB writes a batch whole. `chaindata` has one
field for each prefix of the keys: `H` (number to hash), `n` (hash to number),
`h` and `b` (headers and bodies), `last`, `l` (lookups), `r` (receipts).
A restart keeps these and `accounts` and nothing else.

Bytes. BlockCodec models each conversion by what it keeps. RLP turns null, ""
and "0x" into the same empty bytes; `ensureHexString` turns those into "0x";
`v` is stored as big-endian bytes and read with `parseInt`, so it comes back as
whatever number these bytes begin with as text (`LeadingNumber`, any function of
`v`; for signatures of chain 999 it is 0); only `contractAddress` is made null
again. So what a found block says is not what was made, in two fields of its
transactions, and there code and comments disagree:

- `v`, "number로 변환" (converted to a number, `block-leveldb.repository.ts:474`),
  mostly comes back as 0;
- a deployment's missing `to` comes back as "0x", while the comments say
  "빈 문자열이면 null로 변환" (an empty string is converted to null, line 479),
  "null 가능" (may be null, 484) and "컨트랙트 배포 시 null" (null for a deployment,
  `transaction.entity.ts:219`).

No run shows these two; they follow from `DeserializeBody` at once. FoundAsMade
says that everything else is as made, and leaves both out: it compares without
`v`, and takes whatever stands for a missing recipient for null on both sides.

Refinement. `ImplementsStore` maps the store's levels to the pictures that the
first 1, 2, ... journals give over cache and LevelDB, and `committed` to what
cache and LevelDB hold, or, while a commit is in progress, to what they held
when it began (`before`). Steps at which an account is late (below) are excepted. So a commit takes effect at `CommitEnd`; `CommitFails`
maps to `Tear`, in which every account is as it was or as the block left it. The
same mapping holds over ContractState (theorem StoreIsImplementedThroughRestarts),
where a crash maps to `Abandon` while a block executes, to `Tear` while it is
committed and to no step otherwise.

`ImplementsLedger` maps the ledger's chain to what `findByNumber` answers for
0, 1, ..., each with the transactions that were executed for it, and its state to
the accounts on disk or, while those of a block are being stored, to what they
were when the block was made (a field `before` that each made block carries and
no action reads). A block thus comes with its effect at the batch of `save`; a
block that a crash or a failed write cuts off maps to `Lose`, in which each
account is as it was or as the block would have left it.

Late answers. Nothing in the repository orders a read of an account before a
put of it: LevelDB may answer `getAccount` with the older account after
`commitBlock` has saved and cached a newer one, and `getAccount` then caches the
older. BlockExecution lets it happen, and `late` is the set of accounts that
were put while an older answer was on its way, until a save of the account
finds no such answer. StaleOnlyByLateAnswer says that nothing else makes cache
and LevelDB differ.

Objects and values. A Map holds references. Where nobody changes an Account
after storing it (`putAccount` always stores a new one, reads are copied) an
object is its value: BlockExecution, EthCall and ContractState (whose comment
says why that is enough for `putContractCode`). AccountService has a heap, and
with it rewards, transfers and add-balance requests, which change the object
that the cache or an outer level holds: in the other modules `Addr` are accounts
that nobody credits in place. Of the accounts that are credited (the genesis
validators by every block) those modules have what the credits do to the rest:
they push other accounts out of the cache (`OtherCached`) and open a level on an
empty stack (`OtherCredited`). For a credited account itself cache and LevelDB
differ after every reward, and what becomes of it is in `accounts` and
`account_rewards`.

Definitions whose comment begins with "Mutation" are not part of the model:
each is a plausible bug, in place of a definition that follows it, under which
one property fails.

## 3. Runs

| Run | Checks | Shows |
|---|---|---|
| `block_execution` | TypeOK, StaleOnlyByLateAnswer, CacheWithinLimit, ImplementsStore, CommitFinishes | journal, cache and slow commit together refine the nested store, whose commits are whole, or torn account by account when LevelDB fails; only an answer that comes late makes the cache stale; commits end |
| `accounts` | TypeOK, BalancesAreOwed, NoCreditTwice, CommitSavesTransfers | in-place changes lose no side of a transfer in undisturbed blocks; with rejects, rewards, requests and LevelDB errors no credit counts twice |
| `contract_state` | CodeHashesResolve, DeployedCodeIsFound, StorageIsKept | through undone creations, eviction, rejected blocks and crashes a code hash has its code, a deployed contract its own code though later changes drop the hash from its account, and a slot reads as it was left unless a write of that contract was undone |
| `eth_call` | CallsLeaveNothing, CallsInTurnAreIsolated | any interleaving of two calls with a block leaves no entry on the stack; calls that each fit between two steps of the block, one at a time, change nothing of what it reads and commits |
| `pool` | TypeOK, PendingIsNext, QueuedIsAhead, OneTxPerNonceInTurn, SuccessesAreConsecutive, LeavesForABlock, WalletsLeaveNoGap, PendingIsTaken | executions are consecutive under every interleaving; pool placement is right when requests come in turn; wallets that sign at once leave no gap; nothing pending starves |
| `producer` | TypeOK, ContextIsItsOwnUntilStopped, RunningIsAlive, SlotsAdvance, CommitteesAreSound, OneBlockPerSlot, BlocksEnd | one block per slot and at a time until a stop; nobody attests two blocks of a slot, however slow a block; the chain of timers never dies |
| `chain_store` | TypeOK, ChainIsLinked, FoundAsMade, ChainIsApplied, AccountsAreOfTheChain, TransactionsAreFound, ReceiptsAreOfTheChain, RootIsOfTheAccounts, BlocksAreForever, ImplementsLedger | through failed writes, crashes, restarts and evictions: one chain, whose blocks never change and say what was made (but for `v` and how a missing recipient is written); no transaction of it can be executed again; its accounts, lookups, receipts and root belong to it; chain and accounts together are a ledger whose blocks come with their effect at once |
| `account_rewards` (violation) | CommitSavesWhatIsOwed | rewards of a block are not saved by the next commit |
| `eth_call_isolation` (violation) | BlockCommitsItsOwnWrites | a block commits writes of an eth_call |
| `pool_duplicate` (violation) | OneTxPerNonce | two concurrent submissions with one nonce both enter the pool |
| `producer_overlap` (violation) | ContextIsItsOwn | after stop and start during a block two chains share the journal stack |
| `state_root` (violation) | LatestRootIsOfTheState | a block has the state root of the state before it |

The five violations are disagreements between the code and its own comments,
quoted in PROJECT.json under "findings". Each has a passing sibling that says
what does hold: NoCreditTwice, CallsInTurnAreIsolated, OneTxPerNonceInTurn with
SuccessesAreConsecutive, ContextIsItsOwnUntilStopped, and RootIsOfTheAccounts.

Some properties have a condition because the code does less without it:

- AccountsAreOfTheChain is given up after `halfCommit`: a failure or crash
  after some accounts of a block are stored and before the block is. Nothing
  repairs this; genesis accounts may then be credited twice. ChainIsApplied, the
  other direction, needs no such condition.
- RootIsOfTheAccounts is given up after `strayNode`, a put of the account key
  that fails after the trie has the account, until the next restart.
- WalletsLeaveNoGap is given up when blocks are rejected or a transaction is
  refused in its block: the wallet goes on above the pool's highest nonce.
- ImplementsStore excepts the steps before or after which an account is late: the
  cache may then show it as it was before its last save.
- CallsInTurnAreIsolated is given up for a block (`overlapped`) when a request is
  under way at one of its steps up to the beginning of its commit, when one
  begins while another is under way, or when an account was late as the block
  began; and what it says of the commit, while an account is late. Requests that run while the block is saved,
  one at a time, are within it.
- StorageIsKept leaves out contracts of which a write was undone: slots are put
  in LevelDB at once and `revert` does not take them back.

### Bounds

- `block_execution`: 2 accounts and a cache of 1, so that every insertion
  evicts; 2 values (a write is seen or not); 1 reader, whose answer may come
  at any later moment (the theorems cover any number of readers); 2
  EVM frames over the block's level (a commit into a level that is itself
  undone). LevelDB may fail at any read and any put.
- `accounts`: 2 accounts, a cache of 1, two API tasks beside the producer,
  balances up to 2 (`RoomFor` keeps credits within it), transfers of 1, at most
  10 objects alive (more than the Maps and tasks can refer to). `Modes` makes
  two runs in one: transfers alone, and everything else together. Transfers
  are not combined with rollbacks: `rollbackBlock` does not undo in-place
  changes, so balances are then not what they should be.
- `account_rewards`: the same with a cache of 2, rewards and nothing else.
- `contract_state`: 2 contracts, a cache of 1, 2 codes, 1 value to write, 2
  frames (a creation within a call), crashes anywhere; LevelDB does not fail
  (failures are in `block_execution`). Symmetry in contracts and codes.
- `eth_call`: 1 account, 2 values, 1 reader, 2 calls, 1 frame, failures on;
  symmetry in addresses, values and calls (there is no liveness here).
  `eth_call_isolation` has 2 accounts and 1 call.
- `pool`: 3 transactions of one sender, two with the same nonce and different
  prices, 2 clients. `Modes` makes four runs in one: requests in turn, in turn
  with rejected blocks, overlapping with rejected blocks, and the node's own
  wallets overlapping. `pool_duplicate` adds a second sender.
- `producer`: 2 chains (the second needs a stop), slots of 2 ticks, 2 bootstrap
  attempts, clock up to 8, that is 4 slots; 5 validators, committees of 3, a
  small generator. When the clock is at its bound all chains wait for ever: only
  there deadlock is not checked. A start request is not offered when both chains
  are in use.
- `chain_store`, `state_root`: 2 accounts and 4 transactions, so that a block
  can transfer, deploy, revert and call, in batches of up to 2 that may be
  included twice; `MaxMade` = 3 blocks are made (genesis made again after a
  crash counts), `MaxCrashes` = 2 crashes, so that a crash can hit what the last
  one left. The theorems cover every number of each.

### Fairness

- `BlockExecution.FairSpec`: every LevelDB request is answered and every
  awaiting continuation runs (SaveAccount, AccountPersisted, AccountSaved,
  EndCommit, ReadReturns). Nothing forces a block to begin.
- `Wallet.FairWalletSpec`: weak fairness of the block's steps together,
  because `produceBlock(...).then(scheduleNextBlock)` arms the timer whatever
  became of the block and `produceBlock` catches everything. Clients are not
  fair.
- `Consensus.FairConsensusSpec`: every awaited step of `produceBlock` is
  answered. Requests, failures and the clock are not fair.
- ChainStore and ContractState state safety only: the process may end at any
  step.

## 4. Proofs

Every theorem holds for all values of the constants that satisfy the named
ASSUMEs of its modules (members are not marks, limits are positive, hashes of a
batch differ, and the like; TLC evaluates them in each run). The induction is
always the same: an invariant `...Inv`, one lemma for each group of actions,
and a temporal step.

`BlockExecutionProofs`, for all sets of accounts, values and readers, every
CacheSizeLimit >= 1 and every MaxFrames, with LevelDB failing or not:

- `TypeCorrectness`: `Spec => []TypeOK`. TypeOK is not inductive: that a saved
  entry may go to the cache needs that it is an entry. `TypeInv` adds
  `FetchTyped` (a waiting reader waits for an account) and `SaveMatches` (the
  awaited save is of an entry of `unsaved`, with its value).
- `OnlyLateAnswersMakeStale`: `Spec => []StaleOnlyByLateAnswer`. `CoherenceInv`
  adds, of accounts that are not late, `FetchIsCurrent` (what a reader will be
  given is what the repository still holds, or null), and `PersistedIsStored` (a
  performed save is in the repository). `OnlyLateAnswersMakeStaleBesideCalls` is
  the same for CallSpec: an eth_call changes the stack only, but may leave the
  commit of a block with a stack of any height, so `TypeOK` is replaced by what
  is typed whatever the stack (`DiskTyped`).
- `CacheBound`: `Spec => []CacheWithinLimit`, by induction over `AddToCache`
  on the key order.
- `StoreIsImplemented`: `Spec => ImplementsStore`, with one lemma for each
  abstract step (`WriteRefines`, `NestRefines`, `KeepRefines`,
  `UndoRefines`, `BeginRefines`, `EndRefines`, `AbandonRefines`, `QuietRefines`).
  The mapping is recursive in the stack; `PicturesAppend` says what a new level
  does to it and `PicturesSplit` what the merge of the last two does. That a read
  or an eviction is a stutter is coherence of the cache, which it has while no
  account is late. While a commit is under way, `StoreInv` says of each account
  that is not late that it is saved, or still as it was in
  `before` and with its entry in `unsaved`.
- `NothingIsLeft`: `CallSpec => []CallsLeaveNothing`. `CallsInv` counts: with no
  block open, a level that has an entry, and those above it, are at most one for
  each call that has opened its checkpoint and one more for each in which runCall
  has. It is "at most", since a block's commit empties the stack under a call,
  whose write then makes one level; the level of a credit below has no entry.
- `CallsInTurnLeaveTheBlockAlone`: `CallSpec => []CallsInTurnAreIsolated`.
  `TurnInv` says that, as long as no request has overlapped the
  block, the levels of the request under way are on top of the block's
  (`InTurn`), so that the block's own levels show what `own` says; during the
  commit each account is `own`'s in `unsaved` or, when it is not there, in the
  store (`OwnIsSaved`). For the block's own steps the lemmas of StoreIsImplemented
  are used again: with no request under way `own` is the nested store's `levels`.

`ContractStateProofs`, about ContractSpec, with readers, frames and crashes:

- `HashesResolve` and `CodeIsFound`, from `CodeInv`. What the cache or a read under
  way has of an account may be an older account, so the invariant speaks of every
  account known for an address (`Known`: in journal, cache, repository, a read or
  a save): its hash is that of the code put for the address last, which is on
  disk, or was dropped, and the address has that code (`AccountsAreContracts`).
  A contract under construction has all its accounts in the frame that creates it
  (`CreationIsInItsFrame`), so undoing the frame leaves none. Steps of
  BlockExecution only ever make less known (`BlockStepsAre`).
- `StoreIsImplementedThroughRestarts`: `ContractSpec => ImplementsStore`.
  ContractState adds three things to BlockExecution: the puts of
  code and slots, which the store does not show; the accounts it creates, gives
  code and drops code from, each a `Write`; and crashes. `CrashRefines` shows that a
  crash is an `Abandon`, a `Tear` (`SavingInv` says account by account what is on
  disk by then) or a stutter (the cache it drops was coherent). The mapping is
  costly to evaluate over ContractState, so no run has this one: TLC checks it in
  `block_execution`, where LevelDB fails but nothing crashes.
- `SlotsAreKept`, from `SlotsInv`: one picture of the slots for what is committed,
  one for the block and one for each open frame.

`AccountProofs`, about AccountService's Spec:

- `ObjectsHaveOneOwner`: no Account object is held for two accounts, whoever holds
  it (`ObjectsInv`). Everything changed in place rests on it: a credit through one
  reference is never a credit of another account. `ObjectsInv` also ties each task
  to the read it waits for and each save to the object it encodes.
- `NoCreditIsAppliedTwice`, from `CreditInv`: each copy of a balance, in an object,
  on its way or on disk, is at most what is owed.
- `TransfersAreKept` and `CommitsAreComplete`, from `TransfersInv`: in undisturbed
  blocks the object found has what is owed (`MemoryIsOwed`), but for the account
  that the transfer under way has not reached (`TransferOK`); an account that the
  journal does not have is owed as the repository has it; and in a commit, what is
  no longer in `unsaved` is owed on disk (`SavingIsOwed`).
- `AccountsAreTyped`: `Spec => []TypeOK`, with balances between 0 and the bound, in
  an object, on its way or on disk. Where there are transfers the balances are
  what is owed (`TransfersInv`); elsewhere they are at most that (`CreditInv`), and
  what is owed stays within the bound since `BoundInv` counts the credits under
  way (`Capped`: there is still room for all of them). It has two hypotheses.
  `IsFiniteSet(Api)`: the count is one of tasks, and a node has finitely many
  requests in progress. `ModesAreSeparate`: where transfers are looked at blocks
  are kept and nothing else changes balances, as in the run (see Bounds).

`ConsensusProofs`, about ConsensusSpec:

- `ProducerTypeCorrect`, `BlocksAreApart`, `ProducerStaysAlive` and
  `SlotsDoAdvance`. `ProducerInv` adds to the properties that until the first stop
  one chain at most is armed (`OneChain`), that genesis is not of the future, and
  that an armed timer is for the start of a slot later than the last block's
  (`SlotIsLater`); the rest is division by the slot's length.
- `NobodyAttestsTwice` (`NamedBefore`: a block under way was begun in a later slot
  than any that an attestation names) and `CommitteesAreAlwaysSound` (each turn of
  the shuffle permutes, so the first COMMITTEE_SIZE of the result differ).
- `SupermajoritiesMeet` and `RequiredOf128` about `ceil(2n/3)`,
  `RewardsAreBounded` about the integer division of rewards.

`PoolProofs`, about WalletSpec: `PoolTypeCorrect`, `ExecutedInOrder`
(`Counted`: a sender's nonce is the number of its executed transactions, which
have the nonces below it), `OneAtATime`, `PendingAreNext`, `QueuedAreAhead`
(`OrderInv`: pending transactions follow on the nonce that the block in progress
will leave, and what a request has read is not yet stale), `NothingIsLost`, and
of the pure functions `SignedIsVerified`, `LegacyIsVerified`,
`NormalizedStays`. `WalletIsPool` shows that WalletSpec implements the pool's
own Spec.
`NoGapIsLeft` states WalletsLeaveNoGap. Of two wallets that sign at once one may
be refused, or its request be overtaken by blocks, so `GapInv` says of everything
that has a nonce, in the pool, in a request or just signed, that each nonce from
the account's up to it is the pool's (`NoneIsMissing`), as long as no transaction
was refused in its block. It needs that what is pending has had its turn
(`NoneIsAhead`), that no account's nonce has gone back since somebody was told it
(`NoncesAreReached`) and that the pool has a highest nonce (`PoolIsBounded`),
which are so even if one was refused.

`ChainStoreProofs`, about ChainStore's Spec, for all accounts, batches, numbers
of blocks and of crashes, with writes of LevelDB failing or not:

- `StoreTypeCorrect` and `RootFollowsAccounts` from `RootInv`: while accounts are
  copied, each is either in the new trie or still to be returned
  (`CopyIsFaithful`), and blocks made meanwhile change nothing
  (`EmptyBlockChangesNothing`); afterwards trie and accounts differ at most where
  `saveAccount` is between its two puts (`TrieAgrees`).
- `StoredForEver`, `StoredIsAChain`, `ReceiptsAreOfStoredBlocks` and
  `StoredTransactionsAreFound` from `StoreInv`: a stored block is one that was
  made and is on disk byte for byte (`StoredInv`), the cache has its header
  (`CacheInv`), the block being made is the next one (`MakingInv`), lookups and
  receipts point into stored blocks (`TxInv`); `StoredStays` says that steps do
  not change any of it. Codec lemmas (`HeaderComesBack`, `HexIsKept`) turn bytes
  back into blocks. `BlocksAreLinked` is ChainIsLinked without findAll;
  `StoredIsFoundWhole` adds it: the loop of findByRange appends each number once
  (`RangeIsFound`), and the count that findAll begins with is the height
  (`CountIsHeight`).
- `StoredSaysWhatWasMade` states FoundAsMade. Equality of records needs that they
  have the same fields, so `ShapeInv` says that every block made has those of the
  constructor and no other; `TransactionComesBack` says that a transaction, its
  bytes read back, is the same but for `v` and the sign of a missing recipient.
- `AccountsAreReplayed` states AccountsAreOfTheChain. `ReplayInv` says where the
  next block's effects are, step by step: nowhere yet, in the journal (which over
  the accounts on disk gives the replayed chain with that block), partly on disk
  and partly in `unsaved`, or on disk. Replayed is a recursive function of the
  stored blocks: `ReplayIsThere`, `ReplayIsOne` and `ReplayGoesOn` say that there
  is one, that it is the only one, and that one more block adds what that block
  does.
- `StoredIsApplied` from `AppliedInv`: the transactions of stored blocks that had
  success are below the nonce of their sender on disk, those of the block being
  made below that in the journal or on disk, and no step lets a nonce go back
  (`GoesOn`). `RunGoesOn` is the induction over the transactions of a block.
- `StoreIsALedger`: `Spec => ImplementsLedger`. `SettledInv` says what the block
  being made has done to the accounts it was made on: nothing, with its effect in
  the journal; or a part, with the rest in `unsaved`. From it and `StoreInv` each
  step is a `Grow` (`LedgerGrows`: the batch of `save`, once nothing is left in
  `unsaved`), a `Lose` (`LedgerLoses`: crash, failed write, rollback) or
  a stutter (`LedgerRests`). `ChainIsEntries` says that what is found by number is
  the chain of entries, `LedgerChainStays` that no other step changes it.
- These but the first item have the hypothesis `NullIsNoBlock` (and one
  `NullIsNoTransaction`): null is not a block, nor an answer of getTransaction.
  It is a hypothesis and not an ASSUME only because TLC cannot evaluate it.

A recursive function is a CHOOSE of one that satisfies its equation; that there
is one, and what it computes, is shown by counting up in a set (`CountingUp`),
since induction rules with an operator parameter are beyond the provers.

Model-checked only:

- liveness (CommitFinishes, PendingIsTaken, BlocksEnd), since liveness under
  fairness and ENABLED are beyond the prover;
- the five violations.

## 5. What is not modelled

- The path of `executeTransaction` without a VM, except its transfer; blocks
  made before the VM exists are empty in ChainStore.
- The storage root of accounts (nothing reads it back), the keys
  `code:addr:<address>` (never put), and methods of CustomStateManager that
  answer a constant.
- A database that is closed or not open (`saveAccount` then returns).
- `validateBlock` always answers true today (`consensus.service.ts:141-150`), so
  a block is in fact rolled back only after an error; the models take either
  reason. Validators are not activated or deactivated while the node runs.
- Gas, fees and balances as amounts in ChainStore and the pool. Rewards are not
  in ChainStore: the journal level they are set in is dropped by the next
  startBlock (run `account_rewards`), but a cached object keeps them, and they
  reach the disk with the next write of that account. They are in AccountService,
  and no property of ChainStore speaks of balances.
- Failed reads in ChainStore: what its properties and theorems say of failures
  is of failed writes. `getAccount` of the account store answers any error of a
  read with null (`state-leveldb.repository.ts:154-157`), the block then makes a
  new account and its commit overwrites the stored one, nonce included; the
  stored blocks and their accounts would no longer agree. BlockExecution and
  AccountService have such reads.
- `modifyAccountFields` and `deleteAccount` of CustomStateManager (173-221), which
  change the Account they find in place.
- ECDSA, Keccak and Merkle tries: a signature recovers its signer with the right
  recovery id, a hash or root names its contents.
- The bot's timer, random choice and balance check: any sequence of sends is
  allowed. Controllers and DTOs except for what they call.
- That the VM recovers another sender from a transaction whose `v` names another
  chain, or none, than the node's (`block.service.ts:609-640`): those of a batch
  are signed for chain 999.
- Timers are taken not to fire before `Date.now()` reaches their time.
- In TransactionPool a success is a transaction `runTx` does not refuse, a
  reverted one included; and `commitBlock` saves all nonces or none (its
  failure in the middle is in BlockExecution and ChainStore).
- That a stop request stops the chain in progress: it does not
  (`block.controller.ts:236`), and no comment says when it should.
- `StateManager.deleteAccount`, `TransactionPool.clear` and `removeMany` have
  no caller; the memory repository and the genesis scripts are not part of the
  running node.

## 6. Plan

Every component of the core is modelled, every safety property of the passing
runs is stated by a theorem, and three abstract specifications (NestedStore,
Ledger, and TransactionPool's own under Wallet) are shown to be implemented.
What would add most:

1. `PendingOrder`: the comparator of `getPending` and the sort it gives, as an
   operator checked against a reference definition, and proved to keep each
   sender's nonces in order.
2. The nested store beside eth_calls that overlap a block only while it is being
   saved: CallsInTurnAreIsolated says it of what the block reads and commits,
   not yet as a refinement.
3. Units and rewards as amounts with their width, over AccountService.
