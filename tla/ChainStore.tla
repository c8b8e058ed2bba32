----------------------------- MODULE ChainStore -----------------------------
(***************************************************************************)
(* What the node keeps on disk, across restarts: the accounts              *)
(* (src/src/storage/repositories/state-leveldb.repository.ts), the chain   *)
(* (block-leveldb.repository.ts), and the order in which BlockService      *)
(* (src/src/block/block.service.ts) and produceBlock write them.           *)
(*                                                                         *)
(* The process may end at any moment.  No shutdown hook is enabled, so an  *)
(* ordered shutdown is no different; neither is an error during bootstrap. *)
(* It then starts again with what is on disk.                              *)
(*                                                                         *)
(* BlockExecution and AccountService have the accounts in detail, also     *)
(* when a read fails, BlockProducer has the timers.  Here a block is       *)
(* executed in one step, by one producer, an account is what was done to   *)
(* it, and a failure is one of a write.  There are no rewards.             *)
(***************************************************************************)
EXTENDS BlockCodec

CONSTANTS
    Acct,          \* externally owned accounts, those of genesis.json
    Proposer,      \* the proposer's address
    Reverting,     \* transactions that the EVM reverts
    Batches,       \* what getPending may return
    MayFail,       \* LevelDB may fail to write
    MaxMade,       \* bound: blocks made by createBlock and before it
    MaxCrashes,    \* bound: times the process ends
    None           \* null, undefined

ASSUME ChainStoreAssumption ==
    /\ None \notin Acct
    /\ None \notin [alloc : Nat, nonce : Nat, received : Nat]
    /\ None \notin [type : {"hex"}, x : Nat]
    /\ \A txs \in Batches :
          /\ txs \in Seq({txs[i] : i \in DOMAIN txs})
          /\ \A i \in DOMAIN txs :
                /\ txs[i].from \in {Hex(a) : a \in Acct}
                /\ txs[i].hash = Hex(txs[i].hash.x)
                /\ txs[i] = NewTransaction(txs[i].hash, txs[i].from, txs[i].to,
                              txs[i].value, txs[i].nonce, txs[i].v, txs[i].data)
                /\ txs[i].to \in {NullValue, EmptyString, Prefix, Hex(txs[i].to.x)}
                /\ txs[i].data \in {Prefix, Hex(txs[i].data.x)}
                /\ txs[i].v \in Nat
                /\ \A j \in DOMAIN txs : txs[i].hash = txs[j].hash => i = j
    /\ {MaxMade, MaxCrashes} \subseteq Nat
    /\ MayFail \in BOOLEAN

VARIABLES
    accounts,      \* data/state: account:<address>
    chaindata,     \* data/chaindata, one field per prefix of its keys
    headerCache,   \* headers by block hash, as saved or as read
    trie,          \* the trie of StateLevelDBRepository
    currentRoot,
    boot,          \* onApplicationBootstrap of BlockService, "down" without
    toCopy,        \* setStateRoot: what its iterator has still to return
    step,          \* createGenesisBlock, produceBlock and saveBlock
    unsaved,       \* commitBlock: accounts not yet saved
    putting,       \* saveAccount: the account in the trie but not yet stored
    receiptsSaved,
    created,       \* history: the blocks made, with their changes and the
                   \* accounts before them
    faults,        \* history: failures that left their mark
    crashes        \* history: times the process ended

disk == <<accounts, chaindata>>
bootVars == <<boot, toCopy>>
trieVars == <<trie, currentRoot>>
commitVars == <<unsaved, putting>>
vars == <<disk, headerCache, trieVars, bootVars, step, commitVars,
          receiptsSaved, created, faults, crashes>>

Put(map, key, value) ==
    [k \in DOMAIN map \cup {key} |-> IF k = key THEN value ELSE map[k]]

NoAccounts == [a \in Acct |-> None]

\* The root of a trie tells its contents.
RootOf(contents) == Hex(contents)

NoChaindata ==
    [H |-> <<>>, n |-> <<>>, h |-> <<>>, b |-> <<>>, last |-> None,
     l |-> <<>>, r |-> <<>>]

Init ==
    /\ accounts = NoAccounts
    /\ chaindata = NoChaindata
    /\ headerCache = <<>>
    /\ trie = NoAccounts /\ currentRoot = RootOf(NoAccounts)
    /\ boot = "down" /\ toCopy = NoAccounts
    /\ step = "idle"
    /\ unsaved = NoAccounts /\ putting = None
    /\ receiptsSaved = 0
    /\ created = <<>> /\ faults = {} /\ crashes = 0

-----------------------------------------------------------------------------
(* Finding blocks *)

\* The header of a stored block: the cache is asked first.
Header(hash) ==
    IF hash \in DOMAIN headerCache
    THEN headerCache[hash]
    ELSE DeserializeHeader(chaindata.h[<<chaindata.n[hash], hash>>])

FindByHash(hash) ==
    IF hash \notin DOMAIN chaindata.n THEN None
    ELSE LET key == <<chaindata.n[hash], hash>>
         IN  IF \/ hash \notin DOMAIN headerCache /\ key \notin DOMAIN chaindata.h
                \/ key \notin DOMAIN chaindata.b
             THEN None
             ELSE FromHeaderAndBody(Header(hash),
                                    DeserializeBody(chaindata.b[key]))

FindByNumber(number) ==
    IF number \in DOMAIN chaindata.H THEN FindByHash(chaindata.H[number])
                                     ELSE None

FindLatest == IF chaindata.last = None THEN None ELSE FindByHash(chaindata.last)

Count == IF FindLatest = None THEN 0 ELSE FindLatest.number + 1

\* The blocks of a range that are found, one after the other.
FindByRange(from, to) ==
    LET blocks[n \in 0..(to - from + 1)] ==
            IF n = 0 THEN <<>>
            ELSE LET block == FindByNumber(from + n - 1)
                 IN  IF block = None THEN blocks[n - 1]
                                     ELSE Append(blocks[n - 1], block)
    IN  blocks[to - from + 1]

FindAll == IF Count = 0 THEN <<>> ELSE FindByRange(0, Count - 1)

FindReceipt(txHash) ==
    IF txHash \in DOMAIN chaindata.r THEN DeserializeReceipt(chaindata.r[txHash])
                                     ELSE None

\* getTransaction of TransactionService, when the pool has no such one.
GetTransaction(txHash) ==
    IF txHash \notin DOMAIN chaindata.l THEN None
    ELSE LET lookup == DeserializeTxLookup(chaindata.l[txHash])
             block == FindByHash(lookup.blockHash)
         IN  IF block = None THEN None
             ELSE IF lookup.txIndex + 1 \notin DOMAIN block.transactions THEN None
             ELSE [tx |-> block.transactions[lookup.txIndex + 1],
                   lookup |-> lookup]

\* findByHash leaves the header that it found in the cache.
HeaderFound(hash) == headerCache' = Put(headerCache, hash, Header(hash))

-----------------------------------------------------------------------------
(* Executing transactions *)

NewAccount == [alloc |-> 0, nonce |-> 0, received |-> 0]

Account(state, a) == IF state[a] = None THEN NewAccount ELSE state[a]

Nonce(state, tx) == Account(state, tx.from.x).nonce

\* runTx: a wrong nonce is an error; a revert uses up the nonce.
Status(state, tx) ==
    IF tx.nonce = Nonce(state, tx) /\ tx \notin Reverting THEN 1 ELSE 0

RunTx(state, tx) ==
    [a \in Acct |->
        IF tx.nonce # Nonce(state, tx) THEN state[a]
        ELSE LET sent == [Account(state, a) EXCEPT
                             !.nonce = IF Hex(a) = tx.from THEN @ + 1 ELSE @,
                             !.received = IF Hex(a) = tx.to /\ tx \notin Reverting
                                          THEN @ + 1 ELSE @]
             IN  IF sent = NewAccount THEN state[a] ELSE sent]

\* The accounts before each transaction of a block, and after the last one.
Run(start, txs) ==
    LET state[i \in 1..(Len(txs) + 1)] ==
            IF i = 1 THEN start ELSE RunTx(state[i - 1], txs[i - 1])
    IN  state

AfterBlock(state, txs) == Run(state, txs)[Len(txs) + 1]

\* Receipts are completed with the hash of the block, their logs are not.
Receipt(state, tx, index, number, hash) ==
    LET ran == tx.nonce = Nonce(state, tx)
    IN  [NewReceipt(tx, index, number, Status(state, tx)) EXCEPT
            !.blockHash = hash,
            !.contractAddress =
                IF ran /\ tx.to = NullValue THEN Hex(tx.hash.x) ELSE @,
            !.logs = IF /\ Status(state, tx) = 1
                        /\ tx.to # NullValue
                        /\ tx.data # Prefix
                     THEN <<NewLog(tx.to, number, tx, index)>> ELSE @]

Changes(before, after) ==
    [a \in Acct |-> IF after[a] = before[a] THEN None ELSE after[a]]

\* Block hashes, and the timestamps they hash, are those of no other block.
NextHash == Hex(Len(created) + 1)

\* Mutation: the number of the latest block is taken again.
NextNumberStays(latest) == latest.number

NextNumber(latest) == latest.number + 1

\* createBlock.  The state root is that of the trie, into which the changes
\* of the block will only be put by commitBlock.  "before" is history.
BlockOn(latest, txs) ==
    LET states == Run(accounts, txs)
        number == NextNumber(latest)
        receipts == [i \in DOMAIN txs |->
                        Receipt(states[i], txs[i], i - 1, number, NextHash)]
    IN  [block |-> NewBlock(number, latest.hash, Len(created) + 1,
                            Hex(Proposer), txs,
                            [state |-> currentRoot,
                             transactions |-> CalculateTransactionsRoot(txs),
                             receipts |-> CalculateReceiptsRoot(receipts)],
                            NextHash),
         receipts |-> receipts,
         journal |-> Changes(accounts, states[Len(txs) + 1]),
         before |-> accounts]

NoParent == Hex(0)

\* createGenesisBlock: addBalance to every account of the file.
Endowed(state) == [a \in Acct |-> [Account(state, a) EXCEPT !.alloc = @ + 1]]

Genesis ==
    [block |-> NewBlock(0, NoParent, Len(created) + 1, Hex(Proposer), <<>>,
                        [state |-> RootOf(NoAccounts),
                         transactions |-> CalculateTransactionsRoot(<<>>),
                         receipts |-> CalculateReceiptsRoot(<<>>)],
                        NextHash),
     receipts |-> <<>>,
     journal |-> Endowed(accounts),
     before |-> accounts]

Made == created[Len(created)]

-----------------------------------------------------------------------------
(* Bootstrap *)

\* The databases are open and block 0 is looked for: a node that has it goes
\* on to restoreState.
StartAgain ==
    /\ boot = "down"
    /\ FindByNumber(0) # None
    /\ HeaderFound(chaindata.H[0])
    /\ boot' = "restoring"
    /\ UNCHANGED <<disk, trieVars, toCopy, step, commitVars, receiptsSaved,
                   created, faults, crashes>>

\* Mutation: createGenesisBlock does not look for an existing block.
StartAlwaysNew ==
    /\ boot = "down"
    /\ created' = Append(created, Genesis)
    /\ unsaved' = Genesis.journal
    /\ boot' = "genesis" /\ step' = "committing"
    /\ UNCHANGED <<disk, headerCache, trieVars, toCopy, putting,
                   receiptsSaved, faults, crashes>>

\* Another one makes the genesis block and begins to commit its accounts.
StartNew ==
    /\ boot = "down"
    /\ FindByNumber(0) = None
    /\ created' = Append(created, Genesis)
    /\ unsaved' = Genesis.journal
    /\ boot' = "genesis" /\ step' = "committing"
    /\ UNCHANGED <<disk, headerCache, trieVars, toCopy, putting,
                   receiptsSaved, faults, crashes>>

\* restoreState finds the latest block and setStateRoot takes its root.
RestoreState ==
    /\ boot = "restoring"
    /\ HeaderFound(chaindata.last)
    /\ currentRoot' = FindLatest.stateRoot
    /\ boot' = "emptying"
    /\ UNCHANGED <<disk, trie, toCopy, step, commitVars, receiptsSaved,
                   created, faults, crashes>>

\* The trie is a new one; the iterator reads a snapshot of the accounts.
EmptyTrie ==
    /\ boot = "emptying"
    /\ trie' = NoAccounts
    /\ toCopy' = accounts
    /\ boot' = "copying"
    /\ UNCHANGED <<disk, headerCache, currentRoot, step, commitVars,
                   receiptsSaved, created, faults, crashes>>

CopyAccount(a) ==
    /\ toCopy[a] # None
    /\ trie' = [trie EXCEPT ![a] = toCopy[a]]
    /\ toCopy' = [toCopy EXCEPT ![a] = None]
    /\ UNCHANGED <<disk, headerCache, currentRoot, boot, step, commitVars,
                   receiptsSaved, created, faults, crashes>>

\* Mutation: the root stays that of the block.
RestoredWithoutRoot ==
    /\ boot = "copying"
    /\ toCopy = NoAccounts
    /\ boot' = "up"
    /\ UNCHANGED <<disk, headerCache, trieVars, toCopy, step, commitVars,
                   receiptsSaved, created, faults, crashes>>

\* The root is that of the trie after all; the VM is created.
Restored ==
    /\ boot = "copying"
    /\ toCopy = NoAccounts
    /\ currentRoot' = RootOf(trie)
    /\ boot' = "up"
    /\ UNCHANGED <<disk, headerCache, trie, toCopy, step, commitVars,
                   receiptsSaved, created, faults, crashes>>

-----------------------------------------------------------------------------
(* produceBlock and createGenesisBlock *)

\* What can be in the pool: nothing before the node is up, and then what had
\* the right nonce now or, submitted again while it was included, before.
Pending(txs) ==
    /\ txs # <<>> => boot = "up"
    /\ \A i \in DOMAIN txs : txs[i].nonce <= Nonce(Run(accounts, txs)[i], txs[i])

\* The producer has waited for block 0, not for the end of restoreState.
CreateBlock(txs) ==
    /\ boot \in {"restoring", "emptying", "copying", "up"}
    /\ step = "idle"
    /\ Len(created) < MaxMade
    /\ Pending(txs)
    /\ HeaderFound(chaindata.last)
    /\ created' = Append(created, BlockOn(FindLatest, txs))
    /\ step' = "made"
    /\ UNCHANGED <<disk, trieVars, bootVars, commitVars, receiptsSaved,
                   faults, crashes>>

\* The committee attests: commitBlock.
BeginCommit ==
    /\ step = "made"
    /\ unsaved' = Made.journal
    /\ step' = "committing"
    /\ UNCHANGED <<disk, headerCache, trieVars, bootVars, putting,
                   receiptsSaved, created, faults, crashes>>

\* saveAccount puts the account in the trie ...
PutInTrie(a) ==
    /\ step = "committing"
    /\ putting = None
    /\ unsaved[a] # None
    /\ trie' = [trie EXCEPT ![a] = unsaved[a]]
    /\ putting' = a
    /\ UNCHANGED <<disk, headerCache, currentRoot, bootVars, step, unsaved,
                   receiptsSaved, created, faults, crashes>>

\* Mutation: the account is not written to the database.
PutAccountInTrieOnly ==
    /\ putting # None
    /\ currentRoot' = RootOf(trie)
    /\ unsaved' = [unsaved EXCEPT ![putting] = None]
    /\ putting' = None
    /\ UNCHANGED <<disk, headerCache, trie, bootVars, step, receiptsSaved,
                   created, faults, crashes>>

\* ... then in the database, and takes the root of the trie.
PutAccount ==
    /\ putting # None
    /\ accounts' = [accounts EXCEPT ![putting] = unsaved[putting]]
    /\ currentRoot' = RootOf(trie)
    /\ unsaved' = [unsaved EXCEPT ![putting] = None]
    /\ putting' = None
    /\ UNCHANGED <<chaindata, headerCache, trie, bootVars, step,
                   receiptsSaved, created, faults, crashes>>

\* Mutation: the block is saved while its accounts are.
CommitEndEarly ==
    /\ step = "committing"
    /\ putting = None
    /\ unsaved' = NoAccounts
    /\ step' = "saving"
    /\ UNCHANGED <<disk, headerCache, trieVars, bootVars, putting,
                   receiptsSaved, created, faults, crashes>>

CommitEnd ==
    /\ step = "committing"
    /\ unsaved = NoAccounts
    /\ step' = "saving"
    /\ UNCHANGED <<disk, headerCache, trieVars, bootVars, commitVars,
                   receiptsSaved, created, faults, crashes>>

\* The batch of save: every key of the block at once.
Saved(block) ==
    LET hash == block.hash
        key == <<block.number, hash>>
        hashes == {block.transactions[i].hash : i \in DOMAIN block.transactions}
        Place(txHash) == CHOOSE i \in DOMAIN block.transactions :
                            block.transactions[i].hash = txHash
    IN  [chaindata EXCEPT
            !.h = Put(@, key, SerializeHeader(GetHeader(block))),
            !.b = Put(@, key, SerializeBody(GetBody(block))),
            !.H = Put(@, block.number, hash),
            !.n = Put(@, hash, block.number),
            !.last = hash,
            !.l = [t \in DOMAIN @ \cup hashes |->
                      IF t \in hashes
                      THEN SerializeTxLookup(hash, block.number, Place(t) - 1)
                      ELSE @[t]]]

\* save: the batch is written, then the header cached.  A genesis block has
\* no receipts, and restoreState follows.
SaveBlock ==
    /\ step = "saving"
    /\ chaindata' = Saved(Made.block)
    /\ headerCache' = Put(headerCache, Made.block.hash, GetHeader(Made.block))
    /\ IF boot = "genesis" THEN boot' = "restoring" /\ step' = "idle"
                           ELSE step' = "receipts" /\ UNCHANGED boot
    /\ UNCHANGED <<accounts, trieVars, toCopy, commitVars, receiptsSaved,
                   created, faults, crashes>>

StoredReceipt(receipt) ==
    Put(chaindata.r, receipt.transactionHash, SerializeReceipt(receipt))

\* Mutation: a receipt need not wait for its block.
SaveReceiptEarly ==
    /\ step \in {"saving", "receipts"}
    /\ boot # "genesis"
    /\ receiptsSaved < Len(Made.receipts)
    /\ chaindata' = [chaindata EXCEPT
                        !.r = StoredReceipt(Made.receipts[receiptsSaved + 1])]
    /\ receiptsSaved' = receiptsSaved + 1
    /\ UNCHANGED <<accounts, headerCache, trieVars, bootVars, step,
                   commitVars, created, faults, crashes>>

SaveReceipt ==
    /\ step = "receipts"
    /\ receiptsSaved < Len(Made.receipts)
    /\ chaindata' = [chaindata EXCEPT
                        !.r = StoredReceipt(Made.receipts[receiptsSaved + 1])]
    /\ receiptsSaved' = receiptsSaved + 1
    /\ UNCHANGED <<accounts, headerCache, trieVars, bootVars, step,
                   commitVars, created, faults, crashes>>

EndBlock ==
    /\ step = "receipts"
    /\ receiptsSaved = Len(Made.receipts)
    /\ step' = "idle"
    /\ receiptsSaved' = 0
    /\ UNCHANGED <<disk, headerCache, trieVars, bootVars, commitVars,
                   created, faults, crashes>>

-----------------------------------------------------------------------------
(* Failures, restarts and readers *)

\* Some of the block's accounts are stored and the block is not.
HalfCommitted ==
    /\ step \in {"committing", "saving"}
    /\ \E a \in Acct : Made.journal[a] # None /\ unsaved[a] = None

\* Mutation: the journal is not dropped.
ProduceFailsWithoutRollback ==
    /\ MayFail
    /\ boot # "genesis"
    /\ step # "idle"
    /\ step' = "idle"
    /\ putting' = None
    /\ receiptsSaved' = 0
    /\ UNCHANGED <<disk, headerCache, trieVars, bootVars, unsaved, created,
                   faults, crashes>>

\* A write fails, or the attestations are too few: rollbackBlock, and the
\* producer goes on with another block.
ProduceFails ==
    /\ MayFail
    /\ boot # "genesis"
    /\ step # "idle"
    /\ step' = "idle"
    /\ unsaved' = NoAccounts /\ putting' = None
    /\ receiptsSaved' = 0
    /\ faults' = faults \cup {f \in {"halfCommit", "strayNode"} :
                                 IF f = "halfCommit" THEN HalfCommitted
                                                      ELSE putting # None}
    /\ UNCHANGED <<disk, headerCache, trieVars, bootVars, created, crashes>>

\* The process ends.  The trie is made anew from the accounts.
Crash ==
    /\ boot # "down"
    /\ crashes < MaxCrashes
    /\ crashes' = crashes + 1
    /\ headerCache' = <<>>
    /\ trie' = NoAccounts /\ currentRoot' = RootOf(NoAccounts)
    /\ boot' = "down" /\ toCopy' = NoAccounts
    /\ step' = "idle"
    /\ unsaved' = NoAccounts /\ putting' = None
    /\ receiptsSaved' = 0
    /\ faults' = (faults \ {"strayNode"}) \cup
                 {f \in {"halfCommit"} : HalfCommitted}
    /\ UNCHANGED <<disk, created>>

\* A request reads a block.
ReadBlock(hash) ==
    /\ boot = "up"
    /\ HeaderFound(hash)
    /\ UNCHANGED <<disk, trieVars, bootVars, step, commitVars, receiptsSaved,
                   created, faults, crashes>>

\* A header is the oldest of the cache's many or an hour old.
EvictHeader(hash) ==
    /\ headerCache' = [k \in DOMAIN headerCache \ {hash} |-> headerCache[k]]
    /\ UNCHANGED <<disk, trieVars, bootVars, step, commitVars, receiptsSaved,
                   created, faults, crashes>>

Next ==
    \/ StartAgain \/ StartNew
    \/ RestoreState \/ EmptyTrie \/ Restored
    \/ \E a \in Acct : CopyAccount(a) \/ PutInTrie(a)
    \/ \E txs \in Batches : CreateBlock(txs)
    \/ BeginCommit \/ PutAccount \/ CommitEnd
    \/ SaveBlock \/ SaveReceipt \/ EndBlock
    \/ ProduceFails \/ Crash
    \/ \E hash \in DOMAIN chaindata.n : ReadBlock(hash)
    \/ \E hash \in DOMAIN headerCache : EvictHeader(hash)

Spec == Init /\ [][Next]_vars

-----------------------------------------------------------------------------
(* Properties *)

Steps == {"idle", "made", "committing", "saving", "receipts"}

TypeOK ==
    /\ DOMAIN accounts = Acct /\ DOMAIN trie = Acct /\ DOMAIN unsaved = Acct
    /\ DOMAIN toCopy = Acct
    /\ boot \in {"down", "genesis", "restoring", "emptying", "copying", "up"}
    /\ step \in Steps
    /\ putting \in Acct \cup {None}
    /\ putting # None => step = "committing" /\ unsaved[putting] # None
    /\ step # "committing" => unsaved = NoAccounts
    /\ boot # "copying" => toCopy = NoAccounts
    /\ boot = "down" => step = "idle"
    /\ boot = "genesis" => step \in {"committing", "saving"}
    /\ receiptsSaved \in Nat
    /\ faults \subseteq {"halfCommit", "strayNode"}
    /\ crashes \in 0..MaxCrashes

CreatedAt(hash) == created[hash.x]

StoredHashes == {chaindata.H[n] : n \in DOMAIN chaindata.H}

\* Every number below the height has a block, which names the one before it,
\* and the last of them is the latest.
BlocksAreLinked ==
    /\ DOMAIN chaindata.H = 0..(Count - 1)
    /\ \A n \in DOMAIN chaindata.H :
          /\ FindByNumber(n) # None
          /\ FindByNumber(n).number = n
          /\ FindByNumber(n).hash = chaindata.H[n]
          /\ FindByNumber(n).parentHash =
                IF n = 0 THEN NoParent ELSE FindByNumber(n - 1).hash
    /\ Count # 0 => FindLatest = FindByNumber(Count - 1)

\* Through crashes, failing writes and evictions the stored blocks are one
\* chain, and findAll answers all of it.
ChainIsLinked ==
    /\ BlocksAreLinked
    /\ FindAll = [i \in 1..Count |-> FindByNumber(i - 1)]

\* A block that can be found at a number is found there ever after, and says
\* the same: from the cache, from disk, and after a restart.
BlocksAreForever ==
    [][\A n \in DOMAIN chaindata.H :
          BlockJson(FindByNumber(n))' = BlockJson(FindByNumber(n))]_vars

\* How a deployment's missing recipient is written.
NoRecipient == {NullValue, EmptyString, Prefix}

\* An answered transaction without the signature's v, and whatever stands for a
\* missing recipient taken for null.  On these two, code and comments disagree:
\* "converted to a number" and "converted to null" they say
\* (block-leveldb.repository.ts:474, 479), but what parseInt makes of the bytes
\* of v is mostly 0, and the recipient is found as "0x".
ButForVAndTo(json) ==
    [f \in DOMAIN json \ {"v"} |->
        IF f = "to" /\ json.to \in NoRecipient THEN NullValue ELSE json[f]]

Said(block) ==
    [BlockJson(block) EXCEPT !.transactions =
        [i \in DOMAIN @ |-> ButForVAndTo(@[i])]]

\* What a stored block says, from the cache or from disk, before and after a
\* restart, is what was made, and a deployment is still one.  Nothing is said
\* of v, nor of how a missing recipient is written.
FoundAsMade ==
    \A hash \in StoredHashes : Said(FindByHash(hash)) = Said(CreatedAt(hash).block)

\* The effects of a stored block are on disk: there is no block whose
\* successful transactions could be executed again after a restart.
ChainIsApplied ==
    \A hash \in StoredHashes :
        \A i \in DOMAIN CreatedAt(hash).receipts :
            CreatedAt(hash).receipts[i].status = 1 =>
                LET tx == CreatedAt(hash).block.transactions[i]
                IN  Nonce(accounts, tx) > tx.nonce

\* What executing the stored blocks makes of the accounts.
Replayed ==
    LET state[n \in 0..Count] ==
            IF n = 0 THEN NoAccounts
            ELSE IF n = 1
            THEN [a \in Acct |-> [NewAccount EXCEPT !.alloc = 1]]
            ELSE LET txs == CreatedAt(chaindata.H[n - 1]).block.transactions
                 IN  Run(state[n - 1], txs)[Len(txs) + 1]
    IN  state[Count]

\* Between blocks the accounts on disk are those of the stored chain, through
\* restarts and failed writes, unless a crash or such a failure struck while a
\* block's accounts were being stored and the block was not yet.
AccountsAreOfTheChain ==
    "halfCommit" \notin faults /\ step \in {"idle", "made", "receipts"}
        => accounts = Replayed

\* A transaction of the chain is found by its hash, in a block of the chain.
TransactionsAreFound ==
    \A hash \in StoredHashes :
        \A i \in DOMAIN CreatedAt(hash).block.transactions :
            LET txHash == CreatedAt(hash).block.transactions[i].hash
                found == GetTransaction(txHash)
            IN  /\ found # None
                /\ found.tx.hash = txHash
                /\ chaindata.H[found.lookup.blockNumber] = found.lookup.blockHash

\* A receipt that is found is that of the transaction at its place in a block
\* of the chain: nobody sees a receipt of a block that was not saved.
ReceiptsAreOfTheChain ==
    \A txHash \in DOMAIN chaindata.r :
        LET receipt == FindReceipt(txHash)
        IN  /\ receipt.blockHash \in StoredHashes
            /\ LET made == CreatedAt(receipt.blockHash)
                   i == receipt.transactionIndex + 1
               IN  /\ receipt.blockNumber = made.block.number
                   /\ made.block.transactions[i].hash = txHash
                   /\ receipt.status = made.receipts[i].status
                   /\ receipt.contractAddress = made.receipts[i].contractAddress
                   /\ receipt.logs = made.receipts[i].logs

\* Once restoreState is done, and between commits, the state root is that of
\* the accounts on disk, also when a block was made meanwhile; a failed write
\* may spoil it until the next restart.
RootIsOfTheAccounts ==
    /\ boot = "up"
    /\ step \in {"idle", "made", "receipts"}
    /\ "strayNode" \notin faults
    => currentRoot = RootOf(accounts)

\* What the comments of calculateStateRoot and restoreState say: the state
\* root in the latest block is that of the state it left.
LatestRootIsOfTheState ==
    boot = "up" /\ step = "idle" /\ faults = {} =>
        FindLatest.stateRoot = currentRoot

-----------------------------------------------------------------------------
(* The ledger *)

\* What readers find, and the transactions that were executed for it.
StoredChain ==
    [i \in 1..Count |->
        [block |-> BlockJson(FindByNumber(i - 1)),
         transactions |-> CreatedAt(chaindata.H[i - 1]).block.transactions]]

\* While a block's accounts are being stored they do not count yet.
SettledAccounts ==
    IF step \in {"committing", "saving"} THEN Made.before ELSE accounts

TheLedger == INSTANCE Ledger WITH chain <- StoredChain, state <- SettledAccounts

\* A block is found and its accounts are its own in one instant, the save of
\* its batch: a crash, a failing write or rollbackBlock either leaves nothing
\* of it or loses it with some of its accounts stored.
ImplementsLedger == TheLedger!LedgerSpec
=============================================================================
