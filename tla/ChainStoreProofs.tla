--------------------------- MODULE ChainStoreProofs ---------------------------
(***************************************************************************)
(* Theorems about ChainStore: for any accounts, transactions and number of *)
(* blocks and restarts, with writes of LevelDB failing or not.             *)
(***************************************************************************)
EXTENDS ChainStore, CountingUp, TLAPS

-----------------------------------------------------------------------------
(* The state root *)

Whole ==
    /\ accounts = [a \in Acct |-> accounts[a]]
    /\ trie = [a \in Acct |-> trie[a]]
    /\ unsaved = [a \in Acct |-> unsaved[a]]
    /\ toCopy = [a \in Acct |-> toCopy[a]]

\* The block that is being made has changes of the accounts; it has none when
\* restoreState is not done.
IsSequence(s) == s \in Seq({s[i] : i \in DOMAIN s})

MadeIsWhole ==
    /\ IsSequence(created)
    /\ step = "made" =>
          /\ Made.journal = [a \in Acct |-> Made.journal[a]]
          /\ boot # "up" => Made.journal = NoAccounts

Restoring == boot \in {"restoring", "emptying", "copying"}

NothingIsPut == Restoring => putting = None /\ unsaved = NoAccounts

\* What has not been copied is still to be returned, as it is on disk.
CopyIsFaithful ==
    boot = "copying" =>
        \A a \in Acct : IF toCopy[a] = None THEN trie[a] = accounts[a]
                                            ELSE toCopy[a] = accounts[a]

PutIsUnsaved == putting # None => trie[putting] = unsaved[putting]

TrieAgrees ==
    boot = "up" /\ "strayNode" \notin faults =>
        /\ \A a \in Acct \ {putting} : trie[a] = accounts[a]
        /\ putting = None => currentRoot = RootOf(trie)

RootInv ==
    /\ TypeOK /\ Whole /\ MadeIsWhole /\ NothingIsPut
    /\ CopyIsFaithful /\ PutIsUnsaved /\ TrieAgrees

\* Append adds one element, at the end.
LEMMA LastIsAppended ==
    ASSUME NEW S, NEW s \in Seq(S), NEW e
    PROVE  /\ Append(s, e) \in Seq(S \cup {e})
           /\ Len(Append(s, e)) = Len(s) + 1 /\ Len(s) \in Nat
           /\ Append(s, e)[Len(s) + 1] = e
           /\ \A i \in 1..Len(s) : Append(s, e)[i] = s[i]
<1>1. s \in Seq(S \cup {e})
    OBVIOUS
<1>2. QED
    BY <1>1

\* The same for a sequence of whatever elements.
LEMMA SequenceIsAppended ==
    ASSUME NEW s, IsSequence(s), NEW e
    PROVE  /\ IsSequence(Append(s, e)) /\ Len(s) \in Nat
           /\ DOMAIN s = 1..Len(s)
           /\ Len(Append(s, e)) = Len(s) + 1
           /\ DOMAIN Append(s, e) = 1..(Len(s) + 1)
           /\ Append(s, e)[Len(s) + 1] = e
           /\ \A i \in DOMAIN s : Append(s, e)[i] = s[i]
<1> DEFINE S == {s[i] : i \in DOMAIN s}
           t == Append(s, e)
<1>1. s \in Seq(S)
    BY DEF IsSequence
<1> HIDE DEF S
<1>2. /\ t \in Seq(S \cup {e})
      /\ Len(t) = Len(s) + 1 /\ Len(s) \in Nat /\ DOMAIN s = 1..Len(s)
      /\ t[Len(s) + 1] = e
      /\ \A i \in 1..Len(s) : t[i] = s[i]
    BY <1>1, LastIsAppended
<1>3. DOMAIN t = 1..(Len(s) + 1)
    BY <1>2
<1> HIDE DEF t
<1>4. t \in Seq({t[i] : i \in DOMAIN t})
    BY <1>2
<1>5. QED
    BY <1>2, <1>3, <1>4 DEF IsSequence, t

\* A block without transactions changes no account.
LEMMA EmptyRun ==
    ASSUME NEW start
    PROVE  Run(start, <<>>)[1] = start
<1> DEFINE f == [i \in 1..1 |-> start]
           Fits(g) == g = [i \in 1..(Len(<<>>) + 1) |->
                              IF i = 1 THEN start
                              ELSE RunTx(g[i - 1], <<>>[i - 1])]
           g == CHOOSE g : Fits(g)
<1>1. Len(<<>>) = 0
    OBVIOUS
<1>2. f = [i \in 1..(Len(<<>>) + 1) |-> 
                              IF i = 1 THEN start
                              ELSE RunTx(f[i - 1], <<>>[i - 1])]
    BY <1>1
<1>3. Fits(f)
    BY <1>2
<1>4. Fits(g)
    BY <1>3
<1>5. g[1] = start
    BY <1>1, <1>4
<1>6. Run(start, <<>>) = g
    BY DEF Run
<1>7. QED
    BY <1>5, <1>6

\* A block without transactions has an empty journal.
LEMMA EmptyBlockChangesNothing == BlockOn(FindLatest, <<>>).journal = NoAccounts
<1>1. Len(<<>>) + 1 = 1
    OBVIOUS
<1>2. Run(accounts, <<>>)[Len(<<>>) + 1] = accounts
    BY <1>1, EmptyRun
<1>3. BlockOn(FindLatest, <<>>).journal =
        Changes(accounts, Run(accounts, <<>>)[Len(<<>>) + 1])
    BY DEF BlockOn
<1>4. QED
    BY <1>2, <1>3 DEF Changes, NoAccounts

\* The journal of a block says something of every account.
LEMMA BlockIsWhole ==
    ASSUME NEW txs
    PROVE  BlockOn(FindLatest, txs).journal =
             [a \in Acct |-> BlockOn(FindLatest, txs).journal[a]]
<1>1. BlockOn(FindLatest, txs).journal =
        Changes(accounts, Run(accounts, txs)[Len(txs) + 1])
    BY DEF BlockOn
<1>2. QED
    BY <1>1 DEF Changes

\* The assumptions used most.
LEMMA Apart == None \notin Acct /\ MaxCrashes \in Nat
BY ChainStoreAssumption

\* The process starts with nothing to copy and nothing to save.
LEMMA RootStart == Init => RootInv
BY Apart
   DEF Init, RootInv, TypeOK, Whole, MadeIsWhole, NothingIsPut, Restoring,
       CopyIsFaithful, PutIsUnsaved, TrieAgrees, NoAccounts, Steps,
       IsSequence

\* The node starts.
LEMMA RootBoot ==
    ASSUME RootInv,
           StartAgain \/ StartNew \/ RestoreState \/ EmptyTrie \/ Restored
    PROVE  RootInv'
<1> USE DEF RootInv, TypeOK, Whole, MadeIsWhole, NothingIsPut, Restoring,
            CopyIsFaithful, PutIsUnsaved, TrieAgrees, disk, trieVars,
            commitVars, bootVars
<1>1. CASE StartAgain
    BY <1>1 DEF StartAgain, Made
<1>2. CASE StartNew
  <2>1. Genesis.journal = [a \in Acct |-> Genesis.journal[a]]
    BY DEF Genesis, Endowed
  <2>2. MadeIsWhole'
    BY <1>2, SequenceIsAppended DEF StartNew
  <2>3. QED
    BY <1>2, <2>1, <2>2 DEF StartNew, Steps
<1>3. CASE RestoreState
    BY <1>3 DEF RestoreState, Made
<1>4. CASE EmptyTrie
    BY <1>4 DEF EmptyTrie, Made, NoAccounts
<1>5. CASE Restored
  <2>1. trie = accounts
    BY <1>5 DEF Restored, NoAccounts
  <2>2. QED
    BY <1>5, <2>1 DEF Restored, Made
<1>6. QED
    BY <1>1, <1>2, <1>3, <1>4, <1>5

\* Copying one more account leaves the new trie the copy of what was read.
LEMMA RootCopy ==
    ASSUME RootInv, NEW a \in Acct, CopyAccount(a)
    PROVE  RootInv'
<1> USE DEF RootInv, TypeOK, Whole, MadeIsWhole, NothingIsPut, Restoring,
            CopyIsFaithful, PutIsUnsaved, TrieAgrees, disk, trieVars,
            commitVars, bootVars
<1>1. boot = "copying" /\ toCopy[a] = accounts[a]
    BY DEF CopyAccount, NoAccounts
<1>2. CopyIsFaithful' /\ Whole'
    BY <1>1 DEF CopyAccount
<1>3. QED
    BY <1>1, <1>2 DEF CopyAccount, Made

\* Until restoreState is done only empty blocks are made.
LEMMA RootCreate ==
    ASSUME RootInv, NEW txs, CreateBlock(txs)
    PROVE  RootInv'
<1> USE DEF RootInv, TypeOK, Whole, MadeIsWhole, NothingIsPut, Restoring,
            CopyIsFaithful, PutIsUnsaved, TrieAgrees, disk, trieVars,
            commitVars, bootVars
<1> DEFINE made == BlockOn(FindLatest, txs)
<1>1. boot # "up" => made.journal = NoAccounts
    BY EmptyBlockChangesNothing DEF CreateBlock, Pending
<1>2. Made' = made /\ IsSequence(created')
  <2>1. created' = Append(created, made)
    BY DEF CreateBlock
  <2> HIDE DEF made
  <2>2. QED
    BY <2>1, SequenceIsAppended DEF Made
<1>3. made.journal = [a \in Acct |-> made.journal[a]]
    BY BlockIsWhole
<1> HIDE DEF made
<1>4. boot' = boot /\ step' = "made" /\ boot \notin {"down", "genesis"}
    BY DEF CreateBlock
<1>5. MadeIsWhole'
    BY <1>1, <1>2, <1>3, <1>4
<1>6. /\ step = "idle"
      /\ UNCHANGED <<accounts, trie, currentRoot, toCopy, unsaved, putting,
                     receiptsSaved, faults, crashes>>
    BY DEF CreateBlock
<1>7. QED
    BY <1>4, <1>5, <1>6 DEF Steps

\* The accounts of a block are saved one after the other.
LEMMA RootCommit ==
    ASSUME RootInv,
           BeginCommit \/ PutAccount \/ CommitEnd
             \/ \E a \in Acct : PutInTrie(a)
    PROVE  RootInv'
<1> USE DEF RootInv, TypeOK, Whole, MadeIsWhole, NothingIsPut, Restoring,
            CopyIsFaithful, PutIsUnsaved, TrieAgrees, disk, trieVars,
            commitVars, bootVars, NoAccounts
<1>1. CASE BeginCommit
    BY <1>1 DEF BeginCommit, Made, Steps
<1>2. CASE PutAccount
  <2>1. /\ putting \in Acct /\ unsaved[putting] # None
        /\ step = "committing" /\ ~Restoring
        /\ trie[putting] = unsaved[putting]
    BY <1>2 DEF PutAccount
  <2>2. /\ accounts' = [accounts EXCEPT ![putting] = unsaved[putting]]
        /\ currentRoot' = RootOf(trie)
        /\ unsaved' = [unsaved EXCEPT ![putting] = None]
        /\ putting' = None
        /\ UNCHANGED <<trie, boot, toCopy, step, receiptsSaved, created,
                       faults, crashes>>
    BY <1>2 DEF PutAccount
  <2>3. TypeOK' /\ Whole' /\ NothingIsPut' /\ CopyIsFaithful' /\ PutIsUnsaved'
    BY <2>1, <2>2
  <2>4. TrieAgrees'
    BY <2>1, <2>2, Apart
  <2> HIDE DEF MadeIsWhole
  <2>5. MadeIsWhole'
    BY <2>2 DEF Made, MadeIsWhole
  <2>6. QED
    BY <2>3, <2>4, <2>5
<1>3. CASE CommitEnd
    BY <1>3 DEF CommitEnd, Made, Steps
<1>4. ASSUME NEW a \in Acct, PutInTrie(a)
      PROVE  RootInv'
  <2>1. /\ trie' = [trie EXCEPT ![a] = unsaved[a]] /\ putting' = a
        /\ putting = None /\ a # None /\ unsaved[a] # None
        /\ step = "committing" /\ ~Restoring
        /\ UNCHANGED <<accounts, currentRoot, boot, toCopy, step, unsaved,
                       receiptsSaved, created, faults, crashes>>
    BY <1>4, Apart DEF PutInTrie
  <2>2. trie'[a] = unsaved[a] /\ \A b \in Acct \ {a} : trie'[b] = trie[b]
    BY <2>1
  <2>3. Whole' /\ TypeOK'
    BY <2>1
  <2>4. PutIsUnsaved' /\ NothingIsPut'
    BY <2>1, <2>2
  <2>5. TrieAgrees'
    BY <2>1, <2>2, Apart
  <2>6. CopyIsFaithful'
    BY <2>1
  <2> HIDE DEF MadeIsWhole
  <2>7. MadeIsWhole'
    BY <2>1 DEF Made, MadeIsWhole
  <2>8. QED
    BY <2>3, <2>4, <2>5, <2>6, <2>7
<1>5. QED
    BY <1>1, <1>2, <1>3, <1>4

\* Blocks and receipts are saved, and readers read.
LEMMA RootSave ==
    ASSUME RootInv,
           \/ SaveBlock \/ SaveReceipt \/ EndBlock
           \/ \E hash : ReadBlock(hash) \/ EvictHeader(hash)
    PROVE  RootInv'
<1> USE DEF RootInv, TypeOK, Whole, MadeIsWhole, NothingIsPut, Restoring,
            CopyIsFaithful, PutIsUnsaved, TrieAgrees, disk, trieVars,
            commitVars, bootVars
<1>1. CASE SaveBlock
    BY <1>1 DEF SaveBlock, Steps
<1>2. CASE SaveReceipt
  <2>1. /\ step = "receipts" /\ receiptsSaved' = receiptsSaved + 1
        /\ UNCHANGED <<accounts, trie, currentRoot, boot, toCopy, step,
                       unsaved, putting, created, faults, crashes>>
    BY <1>2 DEF SaveReceipt
  <2>2. QED
    BY <2>1
<1>3. CASE EndBlock
    BY <1>3 DEF EndBlock, Steps
<1>4. CASE \E hash : ReadBlock(hash) \/ EvictHeader(hash)
    BY <1>4 DEF ReadBlock, EvictHeader, Made
<1>5. QED
    BY <1>1, <1>2, <1>3, <1>4

\* A write fails, or the process ends.
LEMMA RootFail ==
    ASSUME RootInv, ProduceFails \/ Crash
    PROVE  RootInv'
<1> USE DEF RootInv, TypeOK, Whole, MadeIsWhole, NothingIsPut, Restoring,
            CopyIsFaithful, PutIsUnsaved, TrieAgrees, disk, trieVars,
            commitVars, bootVars, NoAccounts
<1>1. CASE ProduceFails
    BY <1>1 DEF ProduceFails, Steps
<1>2. CASE Crash
  <2>1. /\ boot' = "down" /\ step' = "idle" /\ putting' = None
        /\ trie' = NoAccounts /\ unsaved' = NoAccounts /\ toCopy' = NoAccounts
        /\ receiptsSaved' = 0 /\ crashes' \in 0..MaxCrashes
        /\ faults' \subseteq {"halfCommit", "strayNode"}
        /\ UNCHANGED <<accounts, created>>
    BY <1>2, Apart DEF Crash
  <2>2. QED
    BY <2>1 DEF Steps
<1>3. QED
    BY <1>1, <1>2

\* The invariant about trie and accounts in every state.
LEMMA RootInvariant == Spec => []RootInv
<1>1. ASSUME RootInv, [Next]_vars
      PROVE  RootInv'
  <2>1. CASE UNCHANGED vars
    BY <1>1, <2>1
       DEF vars, RootInv, TypeOK, Whole, MadeIsWhole, NothingIsPut, Restoring,
           CopyIsFaithful, PutIsUnsaved, TrieAgrees, disk, trieVars,
           commitVars, bootVars, Made
  <2>2. QED
    BY <1>1, <2>1, RootBoot, RootCopy, RootCreate, RootCommit, RootSave,
       RootFail DEF Next
<1>2. QED
    BY <1>1, RootStart, PTL DEF Spec

\* Through failed writes and restarts one thing is done at a time: accounts
\* wait to be saved in commitBlock only, and to be copied in setStateRoot only.
THEOREM StoreTypeCorrect == Spec => []TypeOK
<1>1. RootInv => TypeOK
    BY DEF RootInv
<1>2. QED
    BY <1>1, RootInvariant, PTL

\* When the node is up the state root is that of the accounts on disk between
\* commits, after any number of crashes and failed writes, unless one has failed
\* between the trie and the account since the last start.
THEOREM RootFollowsAccounts == Spec => []RootIsOfTheAccounts
<1>1. RootInv => RootIsOfTheAccounts
  <2> SUFFICES ASSUME RootInv, boot = "up", step # "committing",
                      "strayNode" \notin faults
               PROVE  currentRoot = RootOf(accounts)
    BY DEF RootIsOfTheAccounts
  <2>1. putting = None
    BY DEF RootInv, TypeOK
  <2>2. trie = accounts
    BY <2>1, Apart DEF RootInv, Whole, TrieAgrees
  <2>3. QED
    BY <2>1, <2>2 DEF RootInv, TrieAgrees
<1>2. QED
    BY <1>1, RootInvariant, PTL

-----------------------------------------------------------------------------
(* What comes back from the bytes *)

Kept(value) == EnsureHexString(RlpItem(value)) = value

\* Hexadecimal text survives RLP.
LEMMA HexIsKept == \A x : Kept(Hex(x))
BY DEF Kept, EnsureHexString, RlpItem, Hex, Tagged

HashFields == HeaderFields \ NumberFields

\* A header whose hashes are not empty comes back as it was stored.
LEMMA HeaderComesBack ==
    ASSUME NEW block, \A f \in HashFields : Kept(block[f])
    PROVE  DeserializeHeader(SerializeHeader(GetHeader(block))) =
             GetHeader(block)
<1> DEFINE fields == HeaderFields \cup {"transactionCount"}
           header == GetHeader(block)
           stored == SerializeHeader(header)
<1>1. /\ header = [f \in fields |-> IF f = "transactionCount"
                                     THEN Len(block.transactions) ELSE block[f]]
      /\ DOMAIN header = fields
    BY DEF GetHeader
<1>2. \A f \in fields \ NumberFields : f \in HashFields /\ header[f] = block[f]
    BY <1>1 DEF HashFields, NumberFields
<1>3. stored = [f \in fields |-> IF f \in NumberFields THEN header[f]
                                 ELSE RlpItem(header[f])]
    BY <1>1 DEF SerializeHeader
<1>4. DeserializeHeader(stored) =
        [f \in fields |-> IF f \in NumberFields THEN stored[f]
                          ELSE EnsureHexString(stored[f])]
    BY <1>3 DEF DeserializeHeader
<1>5. \A f \in fields : DeserializeHeader(stored)[f] = header[f]
    BY <1>2, <1>3, <1>4 DEF Kept
<1> HIDE DEF fields, header, stored
<1>6. header = [f \in fields |-> header[f]]
    BY <1>1 DEF header
<1>7. DeserializeHeader(stored) = [f \in fields |-> DeserializeHeader(stored)[f]]
    BY <1>4
<1>8. DeserializeHeader(stored) = header
    BY <1>5, <1>6, <1>7
<1>9. QED
    BY <1>8 DEF stored, header

\* The block that is found where one was stored.
Found(block) == FromHeaderAndBody(GetHeader(block),
                                  DeserializeBody(SerializeBody(GetBody(block))))

\* So a block that is found has the fields of the header.
LEMMA FoundFields ==
    ASSUME NEW block, NEW f \in HeaderFields
    PROVE  Found(block)[f] = block[f]
<1>1. f # "transactionCount" /\ f # "transactions"
    BY DEF HeaderFields
<1>2. QED
    BY <1>1 DEF Found, FromHeaderAndBody, GetHeader

-----------------------------------------------------------------------------
(* The stored chain *)

\* The blocks that have been made: what is written of each comes back.
CreatedInv ==
    \A k \in DOMAIN created :
        LET block == created[k].block
        IN  /\ block.hash = Hex(k)
            /\ block.number \in Nat
            /\ \A f \in HashFields : Kept(block[f])

StoredBlock(n) == CreatedAt(chaindata.H[n]).block

Height == IF chaindata.last = None THEN 0 ELSE chaindata.n[chaindata.last] + 1

ChaindataInv ==
    /\ chaindata = [H |-> chaindata.H, n |-> chaindata.n, h |-> chaindata.h,
                    b |-> chaindata.b, last |-> chaindata.last,
                    l |-> chaindata.l, r |-> chaindata.r]
    /\ Height \in Nat
    /\ DOMAIN chaindata.H = 0..(Height - 1)
    /\ Height # 0 => chaindata.last = chaindata.H[Height - 1]
    /\ chaindata.last # None => Height # 0
    /\ DOMAIN chaindata.n = StoredHashes

\* A stored block is a block that was made, found under its number.
StoredInv ==
    \A n \in DOMAIN chaindata.H :
        LET hash == chaindata.H[n]
            block == StoredBlock(n)
        IN  /\ hash.x \in DOMAIN created
            /\ hash = Hex(hash.x)
            /\ block.number = n
            /\ block.parentHash = IF n = 0 THEN NoParent ELSE chaindata.H[n - 1]
            /\ chaindata.n[hash] = n
            /\ <<n, hash>> \in DOMAIN chaindata.h \cap DOMAIN chaindata.b
            /\ chaindata.h[<<n, hash>>] = SerializeHeader(GetHeader(block))
            /\ chaindata.b[<<n, hash>>] = SerializeBody(GetBody(block))

\* The cache has headers of stored blocks only.
CacheInv ==
    \A hash \in DOMAIN headerCache :
        /\ hash \in StoredHashes
        /\ headerCache[hash] = GetHeader(CreatedAt(hash).block)

\* The block that is being made is the next one.
MakingInv ==
    /\ step \in {"made", "committing", "saving"} =>
          /\ created # <<>>
          /\ Made.block.number = Height
          /\ Made.block.parentHash =
                IF Height = 0 THEN NoParent ELSE chaindata.last
          /\ Hex(Len(created)) \notin StoredHashes
    /\ step = "receipts" =>
          /\ created # <<>>
          /\ Hex(Len(created)) \in StoredHashes
    /\ boot \notin {"down", "genesis"} => Height # 0

ChainInv ==
    /\ IsSequence(created) /\ CreatedInv
    /\ ChaindataInv /\ StoredInv /\ CacheInv
    /\ Kept(currentRoot)

\* null is not a block.
NullIsNoBlock == \A header, body : FromHeaderAndBody(header, body) # None

\* A stored block is found whole, by hash and by number, whether its header is
\* in the cache or not.
LEMMA StoredIsFound ==
    ASSUME ChainInv, NEW n \in DOMAIN chaindata.H
    PROVE  /\ Header(chaindata.H[n]) = GetHeader(StoredBlock(n))
           /\ FindByHash(chaindata.H[n]) = Found(StoredBlock(n))
           /\ FindByNumber(n) = Found(StoredBlock(n))
<1> DEFINE hash == chaindata.H[n]
           block == StoredBlock(n)
           key == <<n, hash>>
<1>1. /\ hash \in DOMAIN chaindata.n /\ chaindata.n[hash] = n
      /\ hash.x \in DOMAIN created
      /\ key \in DOMAIN chaindata.h /\ key \in DOMAIN chaindata.b
      /\ chaindata.h[key] = SerializeHeader(GetHeader(block))
      /\ chaindata.b[key] = SerializeBody(GetBody(block))
    BY DEF ChainInv, ChaindataInv, StoredInv, StoredHashes
<1>2. block = created[hash.x].block
    BY DEF StoredBlock, CreatedAt
<1>3. DeserializeHeader(chaindata.h[key]) = GetHeader(block)
    BY <1>1, <1>2, HeaderComesBack DEF ChainInv, CreatedInv
<1>4. hash \in DOMAIN headerCache => headerCache[hash] = GetHeader(block)
    BY <1>2 DEF ChainInv, CacheInv, CreatedAt
<1>5. Header(hash) = GetHeader(block)
    BY <1>1, <1>3, <1>4 DEF Header
<1>6. FindByHash(hash) = Found(block)
    BY <1>1, <1>5 DEF FindByHash, Found
<1>7. QED
    BY <1>5, <1>6 DEF FindByNumber

\* The cache has the header of another stored block, or of one fewer.
LEMMA CacheStays ==
    ASSUME ChainInv, UNCHANGED <<chaindata, created>>,
           \/ headerCache' = headerCache
           \/ \E hash \in StoredHashes : HeaderFound(hash)
           \/ \E hash : headerCache' = [k \in DOMAIN headerCache \ {hash} |->
                                           headerCache[k]]
           \/ headerCache' = <<>>
    PROVE  CacheInv'
<1> USE DEF ChainInv, CacheInv, CreatedAt, StoredHashes
<1>1. CASE headerCache' = headerCache
    BY <1>1
<1>2. ASSUME NEW hash \in StoredHashes, HeaderFound(hash)
      PROVE  CacheInv'
  <2>1. PICK n \in DOMAIN chaindata.H : hash = chaindata.H[n]
    OBVIOUS
  <2>2. headerCache' = Put(headerCache, hash, GetHeader(StoredBlock(n)))
    BY <1>2, <2>1, StoredIsFound DEF HeaderFound
  <2>3. StoredBlock(n) = created[hash.x].block
    BY <2>1 DEF StoredBlock
  <2> DEFINE header == GetHeader(StoredBlock(n))
  <2>a. /\ DOMAIN headerCache' = DOMAIN headerCache \cup {hash}
        /\ headerCache'[hash] = header
        /\ \A k \in DOMAIN headerCache :
              k # hash => headerCache'[k] = headerCache[k]
    <3> HIDE DEF header
    <3>1. headerCache' = Put(headerCache, hash, header)
      BY <2>2 DEF header
    <3>2. QED
      BY <3>1 DEF Put
  <2>4. ASSUME NEW other \in DOMAIN headerCache'
        PROVE  other \in StoredHashes
               /\ headerCache'[other] = GetHeader(created[other.x].block)
    <3>1. CASE other = hash
      BY <2>3, <2>a, <3>1
    <3>2. CASE other # hash
      BY <2>4, <2>a, <3>2
    <3>3. QED
      BY <3>1, <3>2
  <2>5. QED
    BY <2>4
<1>3. ASSUME NEW hash,
             headerCache' = [k \in DOMAIN headerCache \ {hash} |-> headerCache[k]]
      PROVE  CacheInv'
    BY <1>3
<1>4. CASE headerCache' = <<>>
    BY <1>4
<1>5. QED
    BY <1>1, <1>2, <1>3, <1>4

\* The chain invariant does not look at anything else.
LEMMA ChainStays ==
    ASSUME ChainInv, UNCHANGED <<chaindata, created>>, CacheInv',
           Kept(currentRoot')
    PROVE  ChainInv'
<1>1. /\ Height' = Height /\ StoredHashes' = StoredHashes
      /\ \A n : StoredBlock(n)' = StoredBlock(n)
    BY DEF Height, StoredHashes, StoredBlock, CreatedAt
<1>2. ChaindataInv'
    BY <1>1 DEF ChainInv, ChaindataInv
<1>3. StoredInv'
    BY <1>1 DEF ChainInv, StoredInv
<1>4. QED
    BY <1>2, <1>3 DEF ChainInv, CreatedInv

\* Another block is made: those that are stored are the same.
LEMMA ChainGoesOn ==
    ASSUME ChainInv, NEW made, created' = Append(created, made),
           made.block.hash = NextHash, made.block.number \in Nat,
           \A f \in HashFields : Kept(made.block[f]),
           UNCHANGED <<chaindata, currentRoot>>,
           \/ headerCache' = headerCache
           \/ \E hash \in StoredHashes : HeaderFound(hash)
    PROVE  /\ ChainInv'
           /\ Made' = made /\ created' # <<>>
           /\ Hex(Len(created')) = NextHash /\ NextHash \notin StoredHashes
<1>1. /\ IsSequence(created') /\ Len(created) \in Nat
      /\ DOMAIN created = 1..Len(created)
      /\ Len(created') = Len(created) + 1
      /\ DOMAIN created' = 1..(Len(created) + 1)
      /\ created'[Len(created) + 1] = made
      /\ \A i \in DOMAIN created : created'[i] = created[i]
    BY SequenceIsAppended DEF ChainInv
<1>2. CreatedInv'
    BY <1>1 DEF ChainInv, CreatedInv, NextHash
<1>3. \A n \in DOMAIN chaindata.H : StoredBlock(n)' = StoredBlock(n)
    BY <1>1 DEF ChainInv, StoredInv, StoredBlock, CreatedAt
<1>4. StoredInv'
    BY <1>1, <1>3 DEF ChainInv, StoredInv
<1>5. ChaindataInv'
    BY DEF ChainInv, ChaindataInv, Height, StoredHashes
<1>6. CacheInv'
  <2>1. \A hash \in StoredHashes :
            CreatedAt(hash).block = created'[hash.x].block
    BY <1>1 DEF ChainInv, StoredInv, StoredHashes, CreatedAt
  <2>2. CASE headerCache' = headerCache
    BY <2>1, <2>2 DEF ChainInv, CacheInv, CreatedAt, StoredHashes
  <2>3. ASSUME NEW hash \in StoredHashes, HeaderFound(hash)
        PROVE  CacheInv'
    <3>1. PICK n \in DOMAIN chaindata.H : hash = chaindata.H[n]
      BY DEF StoredHashes
    <3>2. headerCache' = Put(headerCache, hash, GetHeader(CreatedAt(hash).block))
      BY <2>3, <3>1, StoredIsFound DEF HeaderFound, StoredBlock
    <3> DEFINE header == GetHeader(CreatedAt(hash).block)
    <3>a. /\ DOMAIN headerCache' = DOMAIN headerCache \cup {hash}
          /\ headerCache'[hash] = header
          /\ \A k \in DOMAIN headerCache :
                k # hash => headerCache'[k] = headerCache[k]
      <4> HIDE DEF header
      <4>1. headerCache' = Put(headerCache, hash, header)
        BY <3>2 DEF header
      <4>2. QED
        BY <4>1 DEF Put
    <3>3. ASSUME NEW other \in DOMAIN headerCache'
          PROVE  other \in StoredHashes
                 /\ headerCache'[other] = GetHeader(CreatedAt(other).block)
      <4>1. CASE other = hash
        BY <3>a, <4>1
      <4>2. CASE other # hash
        BY <3>a, <3>3, <4>2 DEF ChainInv, CacheInv
      <4>3. QED
        BY <4>1, <4>2
    <3>4. QED
      BY <2>1, <3>3 DEF CacheInv, StoredHashes, CreatedAt
  <2>4. QED
    BY <2>2, <2>3
<1>7. NextHash \notin StoredHashes
  <2>1. NextHash.x = Len(created) + 1
    BY DEF NextHash, Hex, Tagged
  <2>2. \A hash \in StoredHashes : hash.x \in 1..Len(created)
    BY <1>1 DEF ChainInv, StoredInv, StoredHashes
  <2>3. QED
    BY <1>1, <2>1, <2>2
<1>8. QED
    BY <1>1, <1>2, <1>4, <1>5, <1>6, <1>7 DEF ChainInv, Made, NextHash

\* The block is saved: the chain is one block longer.
LEMMA ChainGrows ==
    ASSUME ChainInv, MakingInv, SaveBlock
    PROVE  /\ ChainInv'
           /\ Height' = Height + 1
           /\ Hex(Len(created)) \in StoredHashes'
           /\ DOMAIN chaindata'.H = DOMAIN chaindata.H \cup {Height}
           /\ chaindata'.H[Height] = Hex(Len(created))
           /\ \A n : n = Height => StoredBlock(n)' = Made.block
           /\ Height \notin DOMAIN chaindata.H
           /\ \A n \in DOMAIN chaindata.H :
                 /\ chaindata'.H[n] = chaindata.H[n]
                 /\ StoredBlock(n)' = StoredBlock(n)
<1> DEFINE block == Made.block
           top == Len(created)
           hash == block.hash
           key == <<block.number, hash>>
<1>1. /\ step = "saving" /\ created' = created
      /\ chaindata' = Saved(block)
      /\ headerCache' = Put(headerCache, hash, GetHeader(block))
      /\ currentRoot' = currentRoot
    BY DEF SaveBlock, trieVars
<1>2. /\ top \in Nat /\ top \in DOMAIN created /\ created[top].block = block
      /\ hash = Hex(top) /\ block.number = Height /\ Height \in Nat
      /\ block.parentHash = IF Height = 0 THEN NoParent ELSE chaindata.last
      /\ hash \notin StoredHashes
  <2>1. top \in Nat /\ DOMAIN created = 1..top /\ created # <<>>
    BY <1>1, SequenceIsAppended DEF ChainInv, MakingInv
  <2>2. top # 0
    BY <2>1 DEF ChainInv, IsSequence
  <2>3. QED
    BY <1>1, <2>1, <2>2 DEF ChainInv, CreatedInv, ChaindataInv, MakingInv, Made
<1>3. /\ chaindata'.H = Put(chaindata.H, block.number, hash)
      /\ chaindata'.n = Put(chaindata.n, hash, block.number)
      /\ chaindata'.h = Put(chaindata.h, key, SerializeHeader(GetHeader(block)))
      /\ chaindata'.b = Put(chaindata.b, key, SerializeBody(GetBody(block)))
      /\ chaindata'.last = hash
      /\ chaindata' = [H |-> chaindata'.H, n |-> chaindata'.n,
                       h |-> chaindata'.h, b |-> chaindata'.b,
                       last |-> chaindata'.last, l |-> chaindata'.l,
                       r |-> chaindata'.r]
  <2> HIDE DEF block
  <2>1. QED
    BY <1>1 DEF Saved, ChainInv, ChaindataInv
<1> HIDE DEF block, top, hash
<1>4. /\ DOMAIN chaindata.H = 0..(Height - 1)
      /\ DOMAIN chaindata'.H = DOMAIN chaindata.H \cup {Height}
      /\ chaindata'.H[Height] = hash
      /\ Height \notin DOMAIN chaindata.H
      /\ \A n \in DOMAIN chaindata.H : chaindata'.H[n] = chaindata.H[n]
    BY <1>2, <1>3 DEF Put, ChainInv, ChaindataInv
<1>5. /\ DOMAIN chaindata'.n = DOMAIN chaindata.n \cup {hash}
      /\ chaindata'.n[hash] = Height
      /\ \A h \in StoredHashes : chaindata'.n[h] = chaindata.n[h]
    BY <1>2, <1>3 DEF Put, ChainInv, ChaindataInv
<1>6. /\ key \in DOMAIN chaindata'.h /\ key \in DOMAIN chaindata'.b
      /\ chaindata'.h[key] = SerializeHeader(GetHeader(block))
      /\ chaindata'.b[key] = SerializeBody(GetBody(block))
      /\ \A k : k # key =>
            /\ k \in DOMAIN chaindata.h =>
                  k \in DOMAIN chaindata'.h /\ chaindata'.h[k] = chaindata.h[k]
            /\ k \in DOMAIN chaindata.b =>
                  k \in DOMAIN chaindata'.b /\ chaindata'.b[k] = chaindata.b[k]
    BY <1>3 DEF Put
<1>7. StoredHashes' = StoredHashes \cup {hash}
    BY <1>4 DEF StoredHashes
<1>8. hash # None
    BY <1>2, ChainStoreAssumption DEF Hex, Tagged
<1>9. Height' = Height + 1 /\ Height' \in Nat
    BY <1>2, <1>3, <1>5, <1>8 DEF Height
<1>10. ChaindataInv'
  <2>0. Height' # 0
    BY <1>2, <1>9
  <2>1. DOMAIN chaindata'.H = 0..(Height' - 1)
    BY <1>2, <1>4, <1>9
  <2>2. chaindata'.last = chaindata'.H[Height' - 1]
    BY <1>2, <1>3, <1>4, <1>9
  <2>3. DOMAIN chaindata'.n = StoredHashes'
    BY <1>5, <1>7 DEF ChainInv, ChaindataInv
  <2>4. QED
    BY <1>3, <1>9, <2>0, <2>1, <2>2, <2>3 DEF ChaindataInv
<1>11. /\ \A n : n = Height => StoredBlock(n)' = block
       /\ \A n \in DOMAIN chaindata.H : StoredBlock(n)' = StoredBlock(n)
  <2>1. hash.x = top
    BY <1>2 DEF Hex, Tagged
  <2>2. QED
    BY <1>1, <1>2, <1>4, <2>1 DEF StoredBlock, CreatedAt
<1>12. StoredInv'
  <2>1. ASSUME NEW n \in DOMAIN chaindata.H
        PROVE  /\ <<n, chaindata.H[n]>> # key
               /\ chaindata.H[n] \in StoredHashes
               /\ n # 0 => n - 1 \in DOMAIN chaindata.H
    BY <1>2, <1>4 DEF StoredHashes
  <2>2. ASSUME NEW n \in DOMAIN chaindata.H
        PROVE  LET other == chaindata'.H[n]
                   stored == StoredBlock(n)'
               IN  /\ other.x \in DOMAIN created'
                   /\ other = Hex(other.x)
                   /\ stored.number = n
                   /\ stored.parentHash = IF n = 0 THEN NoParent
                                                   ELSE chaindata'.H[n - 1]
                   /\ chaindata'.n[other] = n
                   /\ <<n, other>> \in DOMAIN chaindata'.h \cap DOMAIN chaindata'.b
                   /\ chaindata'.h[<<n, other>>] = SerializeHeader(GetHeader(stored))
                   /\ chaindata'.b[<<n, other>>] = SerializeBody(GetBody(stored))
    BY <1>1, <1>4, <1>5, <1>6, <1>11, <2>1 DEF ChainInv, StoredInv
  <2>3. ASSUME NEW n, n = Height
        PROVE  LET other == chaindata'.H[n]
                   stored == StoredBlock(n)'
               IN  /\ other.x \in DOMAIN created'
                   /\ other = Hex(other.x)
                   /\ stored.number = n
                   /\ stored.parentHash = IF n = 0 THEN NoParent
                                                   ELSE chaindata'.H[n - 1]
                   /\ chaindata'.n[other] = n
                   /\ <<n, other>> \in DOMAIN chaindata'.h \cap DOMAIN chaindata'.b
                   /\ chaindata'.h[<<n, other>>] = SerializeHeader(GetHeader(stored))
                   /\ chaindata'.b[<<n, other>>] = SerializeBody(GetBody(stored))
    <3>1. hash.x = top
      BY <1>2 DEF Hex, Tagged
    <3>2. Height # 0 => chaindata'.H[Height - 1] = chaindata.last
      BY <1>2, <1>4 DEF ChainInv, ChaindataInv
    <3>3. QED
      BY <1>1, <1>2, <1>4, <1>5, <1>6, <1>11, <2>3, <3>1, <3>2
  <2>4. QED
    BY <1>4, <2>2, <2>3 DEF StoredInv
<1>13. CacheInv'
  <2>1. /\ DOMAIN headerCache' = DOMAIN headerCache \cup {hash}
        /\ headerCache'[hash] = GetHeader(block)
        /\ \A k \in DOMAIN headerCache :
              k # hash => headerCache'[k] = headerCache[k]
    BY <1>1 DEF Put, hash, block
  <2>2. hash.x = top
    BY <1>2 DEF Hex, Tagged
  <2>3. QED
    BY <1>1, <1>2, <1>7, <2>1, <2>2 DEF ChainInv, CacheInv, CreatedAt
<1>14. QED
    BY <1>1, <1>2, <1>4, <1>7, <1>9, <1>10, <1>11, <1>12, <1>13
       DEF ChainInv, CreatedInv, top, block

-----------------------------------------------------------------------------
(* Transactions and receipts of the chain *)

\* A block has a receipt for each of its transactions, and in their order.
FitsTransactions(receipts, txs, number, hash) ==
    /\ IsSequence(receipts) /\ DOMAIN receipts = DOMAIN txs
    /\ \A i \in DOMAIN receipts :
          /\ receipts[i].transactionHash = txs[i].hash
          /\ receipts[i].transactionIndex = i - 1
          /\ receipts[i].blockHash = hash
          /\ receipts[i].blockNumber = number
          /\ receipts[i].contractAddress = NullValue
             \/ receipts[i].contractAddress = Hex(receipts[i].contractAddress.x)
          /\ {"blockHash", "contractAddress", "transactionIndex",
              "transactionHash", "blockNumber", "status", "logs"}
               \subseteq DOMAIN receipts[i]

MadeInv ==
    \A k \in DOMAIN created :
        LET block == created[k].block
        IN  /\ block.transactions \in Batches \cup {<<>>}
            /\ FitsTransactions(created[k].receipts, block.transactions,
                                block.number, Hex(k))

StoredReceipts(n) == CreatedAt(chaindata.H[n]).receipts

LookupInv ==
    /\ \A t \in DOMAIN chaindata.l :
          \E n \in DOMAIN chaindata.H :
              \E i \in DOMAIN StoredBlock(n).transactions :
                  /\ StoredBlock(n).transactions[i].hash = t
                  /\ chaindata.l[t] = SerializeTxLookup(chaindata.H[n], n, i - 1)
    /\ \A n \in DOMAIN chaindata.H :
          \A i \in DOMAIN StoredBlock(n).transactions :
              StoredBlock(n).transactions[i].hash \in DOMAIN chaindata.l

ReceiptInv ==
    \A t \in DOMAIN chaindata.r :
        \E n \in DOMAIN chaindata.H :
            \E i \in DOMAIN StoredReceipts(n) :
                /\ StoredReceipts(n)[i].transactionHash = t
                /\ chaindata.r[t] = SerializeReceipt(StoredReceipts(n)[i])

TxInv == MadeInv /\ LookupInv /\ ReceiptInv

\* What is stored stays.
StoredStays ==
    \A n \in DOMAIN chaindata.H :
        /\ n \in DOMAIN chaindata'.H
        /\ chaindata'.H[n] = chaindata.H[n]
        /\ StoredBlock(n)' = StoredBlock(n)
        /\ StoredReceipts(n)' = StoredReceipts(n)

\* A step that stores nothing, though it may fill the cache, changes no
\* block.
LEMMA NothingIsStored ==
    ASSUME ChainInv, TxInv, UNCHANGED <<chaindata, created>>,
           Kept(currentRoot'),
           \/ headerCache' = headerCache
           \/ \E hash \in StoredHashes : HeaderFound(hash)
           \/ \E hash : headerCache' = [k \in DOMAIN headerCache \ {hash} |->
                                           headerCache[k]]
           \/ headerCache' = <<>>
    PROVE  /\ ChainInv' /\ TxInv' /\ StoredStays
           /\ Height' = Height /\ StoredHashes' = StoredHashes /\ Made' = Made
<1>1. ChainInv'
    BY CacheStays, ChainStays
<1>2. TxInv' /\ StoredStays
  <2>1. \A n : StoredBlock(n)' = StoredBlock(n)
               /\ StoredReceipts(n)' = StoredReceipts(n)
    BY DEF StoredBlock, StoredReceipts, CreatedAt
  <2>2. QED
    BY <2>1 DEF TxInv, MadeInv, LookupInv, ReceiptInv, StoredStays
<1>3. QED
    BY <1>1, <1>2 DEF Height, StoredHashes, Made

\* Another block is made.
LEMMA TxGoesOn ==
    ASSUME ChainInv, TxInv, NEW made, created' = Append(created, made),
           UNCHANGED chaindata,
           made.block.transactions \in Batches \cup {<<>>},
           FitsTransactions(made.receipts, made.block.transactions,
                            made.block.number, NextHash)
    PROVE  TxInv' /\ StoredStays
<1>1. /\ DOMAIN created' = DOMAIN created \cup {Len(created) + 1}
      /\ Len(created) + 1 \notin DOMAIN created
      /\ created'[Len(created) + 1] = made
      /\ \A i \in DOMAIN created : created'[i] = created[i]
    BY SequenceIsAppended DEF ChainInv
<1>2. \A n \in DOMAIN chaindata.H :
          StoredBlock(n)' = StoredBlock(n) /\ StoredReceipts(n)' = StoredReceipts(n)
    BY <1>1 DEF ChainInv, StoredInv, StoredBlock, StoredReceipts, CreatedAt
<1>3. MadeInv'
    BY <1>1 DEF TxInv, MadeInv, NextHash
<1>4. LookupInv' /\ ReceiptInv'
    BY <1>2 DEF TxInv, LookupInv, ReceiptInv
<1>5. QED
    BY <1>2, <1>3, <1>4 DEF TxInv, StoredStays

\* The transactions of a block that is saved are found by their hashes.
LEMMA TxIsSaved ==
    ASSUME ChainInv, MakingInv, TxInv, SaveBlock
    PROVE  TxInv' /\ StoredStays
<1> DEFINE block == Made.block
           txs == block.transactions
           hashes == {txs[i].hash : i \in DOMAIN txs}
           Place(t) == CHOOSE i \in DOMAIN txs : txs[i].hash = t
<1>1. /\ created' = created
      /\ chaindata'.l = [t \in DOMAIN chaindata.l \cup hashes |->
                            IF t \in hashes
                            THEN SerializeTxLookup(block.hash, block.number,
                                                   Place(t) - 1)
                            ELSE chaindata.l[t]]
      /\ chaindata'.r = chaindata.r
    BY DEF SaveBlock, Saved, ChainInv, ChaindataInv
<1>2. /\ DOMAIN chaindata'.H = DOMAIN chaindata.H \cup {Height}
      /\ chaindata'.H[Height] = Hex(Len(created))
      /\ \A n : n = Height => StoredBlock(n)' = block
      /\ \A n \in DOMAIN chaindata.H :
            /\ chaindata'.H[n] = chaindata.H[n]
            /\ StoredBlock(n)' = StoredBlock(n)
    BY ChainGrows
<1>3. block.number = Height /\ block.hash = Hex(Len(created))
  <2>1. step = "saving"
    BY DEF SaveBlock
  <2>2. Len(created) \in DOMAIN created
    BY <2>1, SequenceIsAppended DEF ChainInv, MakingInv, IsSequence
  <2>3. QED
    BY <2>1, <2>2 DEF MakingInv, ChainInv, CreatedInv, Made
<1>4. \A n \in DOMAIN chaindata.H : StoredReceipts(n)' = StoredReceipts(n)
    BY <1>1, <1>2 DEF StoredReceipts, CreatedAt
<1> HIDE DEF block
<1>5. ASSUME NEW t \in DOMAIN chaindata'.l
      PROVE  \E n \in DOMAIN chaindata'.H :
                 \E i \in DOMAIN StoredBlock(n)'.transactions :
                     /\ StoredBlock(n)'.transactions[i].hash = t
                     /\ chaindata'.l[t] = SerializeTxLookup(chaindata'.H[n], n, i - 1)
  <2>1. CASE t \in hashes
    <3>1. Place(t) \in DOMAIN txs /\ txs[Place(t)].hash = t
      BY <2>1
    <3> HIDE DEF Place, txs
    <3>2. chaindata'.l[t] = SerializeTxLookup(block.hash, block.number, Place(t) - 1)
      BY <1>1, <2>1
    <3>3. PICK n : n = Height
      OBVIOUS
    <3>4. /\ n \in DOMAIN chaindata'.H
          /\ StoredBlock(n)'.transactions = txs
          /\ chaindata'.H[n] = block.hash /\ block.number = n
      BY <1>2, <1>3, <3>3 DEF txs
    <3>5. QED
      BY <3>1, <3>2, <3>4
  <2>2. CASE t \notin hashes
    <3>1. t \in DOMAIN chaindata.l /\ chaindata'.l[t] = chaindata.l[t]
      BY <1>1, <1>5, <2>2
    <3>2. PICK n \in DOMAIN chaindata.H :
             \E i \in DOMAIN StoredBlock(n).transactions :
                 /\ StoredBlock(n).transactions[i].hash = t
                 /\ chaindata.l[t] = SerializeTxLookup(chaindata.H[n], n, i - 1)
      BY <3>1 DEF TxInv, LookupInv
    <3>3. QED
      BY <1>2, <3>1, <3>2
  <2>3. QED
    BY <2>1, <2>2
<1>6. ASSUME NEW n \in DOMAIN chaindata'.H,
             NEW i \in DOMAIN StoredBlock(n)'.transactions
      PROVE  StoredBlock(n)'.transactions[i].hash \in DOMAIN chaindata'.l
  <2>1. CASE n \in DOMAIN chaindata.H
    BY <1>1, <1>2, <1>6, <2>1 DEF TxInv, LookupInv
  <2>2. CASE n = Height
    BY <1>1, <1>2, <1>6, <2>2
  <2>3. QED
    BY <1>2, <2>1, <2>2
<1>7. LookupInv'
    BY <1>5, <1>6 DEF LookupInv
<1>8. ReceiptInv'
    BY <1>1, <1>2, <1>4 DEF TxInv, ReceiptInv
<1>9. MadeInv'
    BY <1>1 DEF TxInv, MadeInv
<1>10. QED
    BY <1>2, <1>4, <1>7, <1>8, <1>9 DEF TxInv, StoredStays

\* A receipt is saved when its block is.
LEMMA ReceiptIsSaved ==
    ASSUME ChainInv, MakingInv, TxInv, TypeOK, SaveReceipt
    PROVE  ChainInv' /\ TxInv' /\ MakingInv' /\ StoredStays
<1> DEFINE i == receiptsSaved + 1
           receipt == Made.receipts[i]
<1>1. /\ step = "receipts" /\ receiptsSaved < Len(Made.receipts)
      /\ chaindata' = [chaindata EXCEPT !.r = StoredReceipt(receipt)]
      /\ UNCHANGED <<created, headerCache, currentRoot, step, boot>>
    BY DEF SaveReceipt, trieVars, bootVars
<1>2. /\ UNCHANGED <<chaindata.H, chaindata.n, chaindata.h, chaindata.b,
                     chaindata.last, chaindata.l>>
      /\ chaindata'.r = StoredReceipt(receipt)
      /\ chaindata' = [H |-> chaindata'.H, n |-> chaindata'.n,
                       h |-> chaindata'.h, b |-> chaindata'.b,
                       last |-> chaindata'.last, l |-> chaindata'.l,
                       r |-> chaindata'.r]
  <2> HIDE DEF receipt
  <2>1. QED
    BY <1>1 DEF ChainInv, ChaindataInv
<1>3. Height' = Height /\ StoredHashes' = StoredHashes /\ Made' = Made
    BY <1>1, <1>2 DEF Height, StoredHashes, Made
<1>4. \A n : StoredBlock(n)' = StoredBlock(n)
             /\ StoredReceipts(n)' = StoredReceipts(n)
    BY <1>1, <1>2 DEF StoredBlock, StoredReceipts, CreatedAt
<1>5. ChainInv' /\ StoredStays
    BY <1>1, <1>2, <1>3, <1>4 DEF ChainInv, CreatedInv, ChaindataInv, StoredInv,
                                 CacheInv, CreatedAt, StoredStays
<1>6. MakingInv'
    BY <1>1, <1>2, <1>3 DEF MakingInv
<1>7. /\ Len(created) \in DOMAIN created
      /\ Hex(Len(created)) \in StoredHashes
    BY <1>1, SequenceIsAppended DEF ChainInv, MakingInv, IsSequence
<1>8. PICK n \in DOMAIN chaindata.H : chaindata.H[n] = Hex(Len(created))
    BY <1>7 DEF StoredHashes
<1>9. StoredReceipts(n) = Made.receipts
    BY <1>8 DEF StoredReceipts, CreatedAt, Made, Hex, Tagged
<1>10. i \in DOMAIN StoredReceipts(n)
    BY <1>1, <1>7, <1>9, SequenceIsAppended
       DEF TxInv, MadeInv, FitsTransactions, Made, TypeOK
<1> HIDE DEF i
<1>11. ReceiptInv'
  <2>1. ASSUME NEW t \in DOMAIN chaindata'.r
        PROVE  \E m \in DOMAIN chaindata'.H :
                  \E j \in DOMAIN StoredReceipts(m)' :
                      /\ StoredReceipts(m)'[j].transactionHash = t
                      /\ chaindata'.r[t] = SerializeReceipt(StoredReceipts(m)'[j])
    <3>1. CASE t = receipt.transactionHash
      <4>1. chaindata'.r[t] = SerializeReceipt(receipt)
        BY <1>2, <3>1 DEF StoredReceipt, Put
      <4>2. QED
        BY <1>2, <1>4, <1>9, <1>10, <3>1, <4>1
    <3>2. CASE t # receipt.transactionHash
      <4>1. t \in DOMAIN chaindata.r /\ chaindata'.r[t] = chaindata.r[t]
        BY <1>2, <2>1, <3>2 DEF StoredReceipt, Put
      <4>2. QED
        BY <1>2, <1>4, <4>1 DEF TxInv, ReceiptInv
    <3>3. QED
      BY <3>1, <3>2
  <2>2. QED
    BY <2>1 DEF ReceiptInv
<1>12. MadeInv' /\ LookupInv'
    BY <1>1, <1>2, <1>4 DEF TxInv, MadeInv, LookupInv
<1>13. QED
    BY <1>5, <1>6, <1>11, <1>12 DEF TxInv

\* The latest block is the one below the height.
LEMMA LatestIsFound ==
    ASSUME ChainInv, Height # 0
    PROVE  /\ Height - 1 \in DOMAIN chaindata.H
           /\ chaindata.last = chaindata.H[Height - 1]
           /\ chaindata.last \in StoredHashes
           /\ FindLatest = Found(StoredBlock(Height - 1))
           /\ FindLatest.number = Height - 1
           /\ FindLatest.hash = chaindata.last
           /\ Kept(FindLatest.hash) /\ Kept(FindLatest.stateRoot)
<1>1. /\ Height \in Nat /\ Height - 1 \in DOMAIN chaindata.H
      /\ chaindata.last = chaindata.H[Height - 1]
    BY DEF ChainInv, ChaindataInv
<1>2. PICK n \in DOMAIN chaindata.H : n = Height - 1
    BY <1>1
<1>3. chaindata.last # None
    BY DEF Height
<1>4. FindLatest = Found(StoredBlock(n)) /\ chaindata.last \in StoredHashes
    BY <1>1, <1>2, <1>3, StoredIsFound DEF FindLatest, StoredHashes
<1> DEFINE block == StoredBlock(n)
<1>5. /\ block.number = n /\ block.hash = chaindata.H[n]
      /\ \A f \in HashFields : Kept(block[f])
    BY DEF ChainInv, StoredInv, CreatedInv, StoredBlock, CreatedAt
<1>6. /\ {"number", "hash", "stateRoot"} \subseteq HeaderFields
      /\ {"hash", "stateRoot"} \subseteq HashFields
    BY DEF HeaderFields, HashFields, NumberFields
<1> HIDE DEF block
<1>7. /\ FindLatest.number = block.number /\ FindLatest.hash = block.hash
      /\ FindLatest.stateRoot = block.stateRoot
    BY <1>4, <1>6, FoundFields DEF block
<1>8. QED
    BY <1>1, <1>2, <1>4, <1>5, <1>6, <1>7 DEF block

\* createBlock and createGenesisBlock make a block that can be stored, and a
\* receipt for each of its transactions.
LEMMA NewIsKept ==
    ASSUME NEW number, NEW parent, NEW timestamp, NEW txs, NEW roots, NEW hash,
           Kept(parent), Kept(hash), Kept(roots.state),
           Kept(roots.transactions), Kept(roots.receipts)
    PROVE  \A f \in HashFields :
              Kept(NewBlock(number, parent, timestamp, Hex(Proposer), txs, roots,
                            hash)[f])
<1>1. HashFields = {"hash", "parentHash", "proposer", "stateRoot",
                    "transactionsRoot", "receiptsRoot"}
    BY DEF HashFields, HeaderFields, NumberFields
<1>2. QED
    BY <1>1, HexIsKept DEF NewBlock

\* The fields of a receipt that say which transaction it is of.
LEMMA ReceiptFields ==
    ASSUME NEW state, NEW tx, NEW index, NEW number, NEW hash
    PROVE  LET receipt == Receipt(state, tx, index, number, hash)
           IN  /\ receipt.transactionHash = tx.hash
               /\ receipt.transactionIndex = index
               /\ receipt.blockHash = hash
               /\ receipt.blockNumber = number
               /\ receipt.contractAddress = NullValue
                  \/ receipt.contractAddress = Hex(receipt.contractAddress.x)
               /\ receipt.status = Status(state, tx)
               /\ {"blockHash", "contractAddress", "transactionIndex",
                   "transactionHash", "blockNumber", "status", "logs"}
                    \subseteq DOMAIN receipt
<1> DEFINE new == NewReceipt(tx, index, number, Status(state, tx))
           receipt == Receipt(state, tx, index, number, hash)
           ran == tx.nonce = Nonce(state, tx)
<1>1. /\ new.contractAddress = NullValue
      /\ new = [transactionHash |-> tx.hash, transactionIndex |-> index,
                blockHash |-> EmptyString, blockNumber |-> number,
                from |-> tx.from, to |-> tx.to,
                status |-> Status(state, tx), contractAddress |-> NullValue,
                logs |-> <<>>]
    BY DEF NewReceipt
<1>2. receipt.contractAddress =
        IF ran /\ tx.to = NullValue THEN Hex(tx.hash.x) ELSE NullValue
    BY <1>1 DEF Receipt
<1>3. Hex(tx.hash.x) = Hex(Hex(tx.hash.x).x)
    BY DEF Hex, Tagged
<1>4. /\ receipt.transactionHash = tx.hash /\ receipt.transactionIndex = index
      /\ receipt.blockHash = hash /\ receipt.blockNumber = number
      /\ receipt.status = Status(state, tx)
      /\ DOMAIN receipt = DOMAIN new
    BY <1>1 DEF Receipt
<1>5. {"blockHash", "contractAddress", "transactionIndex", "transactionHash",
       "blockNumber", "status", "logs"} \subseteq DOMAIN new
    BY <1>1
<1> HIDE DEF receipt, new, ran
<1>6. QED
    BY <1>2, <1>3, <1>4, <1>5 DEF receipt

\* A function on 1..n is a sequence.
LEMMA ListIsSequence ==
    ASSUME NEW n \in Nat, NEW s, DOMAIN s = 1..n, s = [i \in 1..n |-> s[i]]
    PROVE  IsSequence(s)
<1> DEFINE S == {s[i] : i \in DOMAIN s}
<1>1. \A i \in 1..n : s[i] \in S
    OBVIOUS
<1> HIDE DEF S
<1>2. s \in [1..n -> S]
    BY <1>1
<1>3. s \in Seq(S)
    BY <1>2
<1>4. QED
    BY <1>3 DEF IsSequence, S

\* createBlock makes the next block on the latest one.
LEMMA NextBlockFits ==
    ASSUME ChainInv, Height # 0, NEW txs \in Batches
    PROVE  LET made == BlockOn(FindLatest, txs)
           IN  /\ made.block.hash = NextHash
               /\ made.block.number = Height
               /\ made.block.parentHash = chaindata.last
               /\ made.block.transactions = txs
               /\ \A f \in HashFields : Kept(made.block[f])
               /\ FitsTransactions(made.receipts, txs, Height, NextHash)
<1> DEFINE states == Run(accounts, txs)
           made == BlockOn(FindLatest, txs)
           number == NextNumber(FindLatest)
           receipts == [i \in DOMAIN txs |->
                           Receipt(states[i], txs[i], i - 1, number, NextHash)]
           roots == [state |-> currentRoot,
                     transactions |-> CalculateTransactionsRoot(txs),
                     receipts |-> CalculateReceiptsRoot(receipts)]
<1>1. /\ made.block = NewBlock(number, FindLatest.hash, Len(created) + 1,
                               Hex(Proposer), txs, roots, NextHash)
      /\ made.receipts = receipts
    BY DEF BlockOn
<1>2. number = Height
    BY LatestIsFound DEF NextNumber, ChainInv, ChaindataInv
<1> HIDE DEF states, made, number
<1>3. \A i \in DOMAIN receipts :
          /\ receipts[i].transactionHash = txs[i].hash
          /\ receipts[i].transactionIndex = i - 1
          /\ receipts[i].blockHash = NextHash
          /\ receipts[i].blockNumber = number
          /\ receipts[i].contractAddress = NullValue
             \/ receipts[i].contractAddress = Hex(receipts[i].contractAddress.x)
          /\ {"blockHash", "contractAddress", "transactionIndex",
              "transactionHash", "blockNumber", "status", "logs"}
               \subseteq DOMAIN receipts[i]
    BY ReceiptFields
<1>4. DOMAIN txs = 1..Len(txs) /\ Len(txs) \in Nat
  <2> DEFINE S == {txs[i] : i \in DOMAIN txs}
  <2>1. txs \in Seq(S)
    BY ChainStoreAssumption
  <2> HIDE DEF S
  <2>2. QED
    BY <2>1
<1>5. IsSequence(receipts)
    BY <1>4, ListIsSequence
<1>6. FitsTransactions(receipts, txs, number, NextHash)
    BY <1>3, <1>5 DEF FitsTransactions
<1>7. /\ Kept(roots.transactions) /\ Kept(roots.receipts)
      /\ Kept(roots.state) /\ Kept(NextHash)
    BY HexIsKept
       DEF CalculateTransactionsRoot, CalculateReceiptsRoot, NextHash, ChainInv
<1> HIDE DEF receipts, roots
<1>8. \A f \in HashFields : Kept(made.block[f])
    BY <1>1, <1>7, LatestIsFound, NewIsKept
<1>9. /\ made.block.hash = NextHash /\ made.block.number = number
      /\ made.block.parentHash = FindLatest.hash
      /\ made.block.transactions = txs
    BY <1>1 DEF NewBlock
<1>10. QED
    BY <1>1, <1>2, <1>6, <1>8, <1>9, LatestIsFound DEF made

\* Block 0 fits on an empty chain.
LEMMA GenesisFits ==
    ASSUME IsSequence(created)
    PROVE  /\ Genesis.block.hash = NextHash
           /\ Genesis.block.number = 0
           /\ Genesis.block.parentHash = NoParent
           /\ Genesis.block.transactions = <<>>
           /\ \A f \in HashFields : Kept(Genesis.block[f])
           /\ FitsTransactions(Genesis.receipts, <<>>, 0, NextHash)
<1> DEFINE roots == [state |-> RootOf(NoAccounts),
                     transactions |-> CalculateTransactionsRoot(<<>>),
                     receipts |-> CalculateReceiptsRoot(<<>>)]
<1>1. /\ Genesis.block = NewBlock(0, NoParent, Len(created) + 1, Hex(Proposer),
                                  <<>>, roots, NextHash)
      /\ Genesis.receipts = <<>>
    BY DEF Genesis
<1>2. /\ Kept(roots.transactions) /\ Kept(roots.receipts)
      /\ Kept(roots.state) /\ Kept(NextHash) /\ Kept(NoParent)
    BY HexIsKept
       DEF CalculateTransactionsRoot, CalculateReceiptsRoot, NextHash, RootOf,
           NoParent
<1> HIDE DEF roots
<1>3. \A f \in HashFields : Kept(Genesis.block[f])
    BY <1>1, <1>2, NewIsKept
<1>4. FitsTransactions(<<>>, <<>>, 0, NextHash)
    BY DEF FitsTransactions, IsSequence
<1>5. /\ Genesis.block.hash = NextHash /\ Genesis.block.number = 0
      /\ Genesis.block.parentHash = NoParent
      /\ Genesis.block.transactions = <<>>
    BY <1>1 DEF NewBlock
<1>6. QED
    BY <1>1, <1>3, <1>4, <1>5

-----------------------------------------------------------------------------
(* The invariant of the store *)

StoreInv == RootInv /\ ChainInv /\ MakingInv /\ TxInv

\* Nothing is stored at first.
LEMMA StoreStart == Init => ChainInv /\ MakingInv /\ TxInv
<1> SUFFICES ASSUME Init
             PROVE  ChainInv /\ MakingInv /\ TxInv
    OBVIOUS
<1>1. /\ created = <<>> /\ chaindata = NoChaindata /\ headerCache = <<>>
      /\ step = "idle" /\ boot = "down"
      /\ Kept(currentRoot)
    BY HexIsKept DEF Init, RootOf
<1>2. IsSequence(created) /\ CreatedInv /\ MadeInv
    BY <1>1 DEF IsSequence, CreatedInv, MadeInv
<1>3. ChaindataInv /\ StoredInv /\ CacheInv
    BY <1>1 DEF ChaindataInv, StoredInv, CacheInv, Height, StoredHashes,
                NoChaindata
<1>4. MakingInv /\ LookupInv /\ ReceiptInv
    BY <1>1 DEF MakingInv, LookupInv, ReceiptInv, NoChaindata
<1>5. QED
    BY <1>1, <1>2, <1>3, <1>4 DEF ChainInv, TxInv

\* A block that is made has the next number and the hash of the latest as
\* parent.
LEMMA StoreCreates ==
    ASSUME StoreInv, NEW txs \in Batches, CreateBlock(txs)
    PROVE  ChainInv' /\ MakingInv' /\ TxInv' /\ StoredStays
<1> DEFINE made == BlockOn(FindLatest, txs)
<1>1. /\ step' = "made" /\ created' = Append(created, made)
      /\ HeaderFound(chaindata.last)
      /\ boot \notin {"down", "genesis"}
      /\ UNCHANGED <<chaindata, currentRoot, boot>>
    BY DEF CreateBlock, disk, trieVars, bootVars
<1>2. Height # 0
    BY <1>1 DEF StoreInv, MakingInv
<1>3. /\ made.block.hash = NextHash /\ made.block.number = Height
      /\ made.block.parentHash = chaindata.last
      /\ made.block.transactions = txs
      /\ \A f \in HashFields : Kept(made.block[f])
      /\ FitsTransactions(made.receipts, txs, Height, NextHash)
    BY <1>2, NextBlockFits DEF StoreInv
<1> HIDE DEF made
<1>4. chaindata.last \in StoredHashes /\ Height \in Nat
    BY <1>2, LatestIsFound DEF StoreInv, ChainInv, ChaindataInv
<1>5. /\ ChainInv' /\ Made' = made /\ created' # <<>>
      /\ Hex(Len(created')) = NextHash /\ NextHash \notin StoredHashes
    BY <1>1, <1>3, <1>4, ChainGoesOn DEF StoreInv
<1>6. TxInv' /\ StoredStays
    BY <1>1, <1>3, TxGoesOn DEF StoreInv
<1>7. Height' = Height /\ StoredHashes' = StoredHashes
    BY <1>1 DEF Height, StoredHashes
<1>8. MakingInv'
    BY <1>1, <1>2, <1>3, <1>5, <1>7 DEF MakingInv
<1>9. QED
    BY <1>5, <1>6, <1>8

\* A node without a block 0 has no blocks.
LEMMA StoreStartsNew ==
    ASSUME NullIsNoBlock, StoreInv, StartNew
    PROVE  ChainInv' /\ MakingInv' /\ TxInv' /\ StoredStays
<1>1. /\ step' = "committing" /\ boot' = "genesis"
      /\ created' = Append(created, Genesis)
      /\ FindByNumber(0) = None
      /\ UNCHANGED <<chaindata, headerCache, currentRoot>>
    BY DEF StartNew, disk, trieVars
<1>2. Height = 0
  <2>1. ASSUME NEW n \in DOMAIN chaindata.H
        PROVE  FindByNumber(n) # None
    BY StoredIsFound DEF StoreInv, NullIsNoBlock, Found
  <2>2. QED
    BY <1>1, <2>1 DEF StoreInv, ChainInv, ChaindataInv
<1>3. /\ Genesis.block.hash = NextHash /\ Genesis.block.number = 0
      /\ Genesis.block.parentHash = NoParent
      /\ Genesis.block.transactions = <<>>
      /\ \A f \in HashFields : Kept(Genesis.block[f])
      /\ FitsTransactions(Genesis.receipts, <<>>, 0, NextHash)
    BY GenesisFits DEF StoreInv, ChainInv
<1>4. PICK made : made = Genesis
    OBVIOUS
<1>5. /\ ChainInv' /\ Made' = made /\ created' # <<>>
      /\ Hex(Len(created')) = NextHash /\ NextHash \notin StoredHashes
    BY <1>1, <1>3, <1>4, ChainGoesOn DEF StoreInv
<1>6. TxInv' /\ StoredStays
    BY <1>1, <1>3, <1>4, TxGoesOn DEF StoreInv
<1>7. Height' = Height /\ StoredHashes' = StoredHashes
    BY <1>1 DEF Height, StoredHashes
<1>8. MakingInv'
    BY <1>1, <1>2, <1>3, <1>4, <1>5, <1>7 DEF MakingInv
<1>9. QED
    BY <1>5, <1>6, <1>8

\* The block is saved; a genesis block is the only one made before the node
\* has blocks.
LEMMA StoreSaves ==
    ASSUME StoreInv, SaveBlock
    PROVE  ChainInv' /\ MakingInv' /\ TxInv' /\ StoredStays
<1>1. /\ ChainInv' /\ Height' = Height + 1
      /\ Hex(Len(created)) \in StoredHashes'
    BY ChainGrows DEF StoreInv
<1>2. TxInv' /\ StoredStays
    BY TxIsSaved DEF StoreInv
<1>3. step' \in {"idle", "receipts"} /\ created' = created /\ created # <<>>
    BY DEF SaveBlock, StoreInv, MakingInv
<1>4. MakingInv'
    BY <1>1, <1>3 DEF MakingInv, StoreInv, ChainInv, ChaindataInv
<1>5. QED
    BY <1>1, <1>2, <1>4

\* The other steps store nothing of the chain.
QuietStep ==
    /\ UNCHANGED <<chaindata, created>>
    /\ Kept(currentRoot')
    /\ \/ headerCache' = headerCache
       \/ \E hash \in StoredHashes : HeaderFound(hash)
       \/ \E hash : headerCache' = [k \in DOMAIN headerCache \ {hash} |->
                                       headerCache[k]]
       \/ headerCache' = <<>>
    /\ \/ step' \in {step, "idle"}
       \/ /\ step \in {"made", "committing"}
          /\ step' \in {"committing", "saving"}
    /\ boot' \in {boot, "down"} \/ Height # 0

\* Steps that write no block leave what is stored as it is.
LEMMA QuietStays ==
    ASSUME StoreInv, QuietStep
    PROVE  ChainInv' /\ MakingInv' /\ TxInv' /\ StoredStays
<1>1. /\ ChainInv' /\ TxInv' /\ StoredStays
      /\ Height' = Height /\ StoredHashes' = StoredHashes /\ Made' = Made
    BY NothingIsStored DEF StoreInv, QuietStep
<1>2. MakingInv'
    BY <1>1 DEF StoreInv, MakingInv, QuietStep
<1>3. QED
    BY <1>1, <1>2

\* Which steps these are.
LEMMA StoreIsQuiet ==
    ASSUME StoreInv,
           \/ StartAgain \/ RestoreState \/ EmptyTrie \/ Restored
           \/ \E a \in Acct : CopyAccount(a) \/ PutInTrie(a)
           \/ BeginCommit \/ PutAccount \/ CommitEnd \/ EndBlock
           \/ ProduceFails \/ Crash
           \/ \E hash \in DOMAIN chaindata.n : ReadBlock(hash)
           \/ \E hash \in DOMAIN headerCache : EvictHeader(hash)
           \/ UNCHANGED vars
    PROVE  QuietStep
<1> USE DEF disk, trieVars, bootVars, commitVars
<1>1. Kept(currentRoot) /\ \A x : Kept(RootOf(x))
    BY HexIsKept DEF StoreInv, ChainInv, RootOf
<1>2. boot \in {"restoring", "emptying", "copying", "up"} =>
          /\ Height # 0 /\ chaindata.last \in StoredHashes
          /\ Kept(FindLatest.stateRoot)
    BY LatestIsFound DEF StoreInv, MakingInv
<1>3. DOMAIN chaindata.n = StoredHashes
    BY DEF StoreInv, ChainInv, ChaindataInv
<1>4. CASE StartAgain
  <2>1. 0 \in DOMAIN chaindata.H
    BY <1>4 DEF StartAgain, FindByNumber
  <2>2. Height # 0 /\ chaindata.H[0] \in StoredHashes
    BY <2>1 DEF StoreInv, ChainInv, ChaindataInv, StoredHashes
  <2>3. QED
    BY <1>1, <1>4, <2>2 DEF StartAgain, QuietStep
<1>5. CASE RestoreState \/ EmptyTrie \/ Restored
    BY <1>1, <1>2, <1>5 DEF RestoreState, EmptyTrie, Restored, QuietStep
<1>6. CASE \E a \in Acct : CopyAccount(a) \/ PutInTrie(a)
    BY <1>1, <1>6 DEF CopyAccount, PutInTrie, QuietStep
<1>7. CASE BeginCommit \/ PutAccount \/ CommitEnd \/ EndBlock
    BY <1>1, <1>7 DEF BeginCommit, PutAccount, CommitEnd, EndBlock, QuietStep
<1>8. CASE ProduceFails \/ Crash
    BY <1>1, <1>8 DEF ProduceFails, Crash, QuietStep
<1>9. CASE \E hash \in DOMAIN chaindata.n : ReadBlock(hash)
    BY <1>1, <1>3, <1>9 DEF ReadBlock, QuietStep
<1>10. CASE \E hash \in DOMAIN headerCache : EvictHeader(hash)
    BY <1>1, <1>10 DEF EvictHeader, QuietStep
<1>11. CASE UNCHANGED vars
    BY <1>1, <1>11 DEF vars, QuietStep
<1>12. QED
    BY <1>4, <1>5, <1>6, <1>7, <1>8, <1>9, <1>10, <1>11

\* The invariant of the store, and what is stored stays.
LEMMA StoreStep ==
    ASSUME NullIsNoBlock, StoreInv, [Next]_vars
    PROVE  ChainInv' /\ MakingInv' /\ TxInv' /\ StoredStays
<1>1. CASE StartNew
    BY <1>1, StoreStartsNew
<1>2. CASE \E txs \in Batches : CreateBlock(txs)
    BY <1>2, StoreCreates
<1>3. CASE SaveBlock
    BY <1>3, StoreSaves
<1>4. CASE SaveReceipt
    BY <1>4, ReceiptIsSaved DEF StoreInv, RootInv
<1>5. CASE \/ StartAgain \/ RestoreState \/ EmptyTrie \/ Restored
           \/ \E a \in Acct : CopyAccount(a) \/ PutInTrie(a)
           \/ BeginCommit \/ PutAccount \/ CommitEnd \/ EndBlock
           \/ ProduceFails \/ Crash
           \/ \E hash \in DOMAIN chaindata.n : ReadBlock(hash)
           \/ \E hash \in DOMAIN headerCache : EvictHeader(hash)
           \/ UNCHANGED vars
    BY <1>5, StoreIsQuiet, QuietStays
<1>6. QED
    BY <1>1, <1>2, <1>3, <1>4, <1>5 DEF Next

\* The invariant of the store in every state, and that each step keeps what
\* is stored.
LEMMA StoreInvariant ==
    ASSUME NullIsNoBlock
    PROVE  Spec => []StoreInv /\ [][StoredStays]_vars
<1>1. Init => ChainInv /\ MakingInv /\ TxInv
    BY StoreStart
<1>2. RootInv /\ ChainInv /\ MakingInv /\ TxInv /\ [Next]_vars
        => ChainInv' /\ MakingInv' /\ TxInv' /\ StoredStays
    BY StoreStep DEF StoreInv
<1>3. StoreInv <=> RootInv /\ ChainInv /\ MakingInv /\ TxInv
    BY DEF StoreInv
<1>4. QED
    BY <1>1, <1>2, <1>3, RootInvariant, PTL DEF Spec

\* A block that can be found at a number is found there ever after and says
\* the same, from the cache or from disk: neither another block, nor a crash,
\* a failed write or an eviction changes it.
THEOREM StoredForEver ==
    ASSUME NullIsNoBlock
    PROVE  Spec => BlocksAreForever
<1> DEFINE Same == \A n \in DOMAIN chaindata.H :
                      BlockJson(FindByNumber(n))' = BlockJson(FindByNumber(n))
           AllFound == \A n \in DOMAIN chaindata.H :
                         FindByNumber(n) = Found(StoredBlock(n))
<1>1. StoreInv => AllFound
    BY StoredIsFound DEF StoreInv
<1> HIDE DEF AllFound
<1>2. StoreInv' => AllFound'
    BY <1>1, PTL
<1>3. StoreInv /\ StoreInv' /\ StoredStays => Same
    BY <1>1, <1>2 DEF StoredStays, AllFound
<1>4. UNCHANGED vars => Same
    BY DEF vars, disk, trieVars, bootVars, commitVars, FindByNumber, FindByHash,
           Header
<1> HIDE DEF Same
<1>5. Spec => [][Same]_vars
    BY <1>3, <1>4, StoreInvariant, PTL
<1>6. QED
    BY <1>5, PTL DEF BlocksAreForever, Same

\* The number of blocks that count answers is one more than the latest's.
LEMMA CountIsHeight ==
    ASSUME NullIsNoBlock, StoreInv
    PROVE  Count = Height /\ Height \in Nat
<1>1. ChainInv
    BY DEF StoreInv
<1>2. Height \in Nat
    BY <1>1 DEF ChainInv, ChaindataInv
<1>3. CASE Height = 0
  <2>1. chaindata.last = None
    BY <1>1, <1>3 DEF ChainInv, ChaindataInv
  <2>2. QED
    BY <1>2, <1>3, <2>1 DEF Count, FindLatest
<1>4. CASE Height # 0
  <2>1. FindLatest = Found(StoredBlock(Height - 1)) /\ FindLatest.number = Height - 1
    BY <1>1, <1>4, LatestIsFound
  <2>2. FindLatest # None
    BY <2>1 DEF Found, NullIsNoBlock
  <2>3. QED
    BY <1>2, <2>1, <2>2 DEF Count
<1>5. QED
    BY <1>3, <1>4

\* The stored blocks are one chain, from block 0 to the latest one.
THEOREM StoredIsAChain ==
    ASSUME NullIsNoBlock
    PROVE  Spec => []BlocksAreLinked
<1>1. StoreInv => BlocksAreLinked
  <2> SUFFICES ASSUME StoreInv
               PROVE  BlocksAreLinked
    OBVIOUS
  <2>1. ChainInv
    BY DEF StoreInv
  <2>2. Height \in Nat /\ DOMAIN chaindata.H = 0..(Height - 1)
    BY <2>1 DEF ChainInv, ChaindataInv
  <2>3. \A n \in DOMAIN chaindata.H :
            /\ FindByNumber(n) = Found(StoredBlock(n))
            /\ FindByNumber(n) # None
            /\ FindByNumber(n).number = n
            /\ FindByNumber(n).hash = chaindata.H[n]
            /\ FindByNumber(n).parentHash =
                  IF n = 0 THEN NoParent ELSE chaindata.H[n - 1]
    <3> TAKE n \in DOMAIN chaindata.H
    <3>1. FindByNumber(n) = Found(StoredBlock(n))
      BY <2>1, StoredIsFound
    <3>2. PICK block : block = StoredBlock(n)
      OBVIOUS
    <3>3. /\ block.number = n /\ block.hash = chaindata.H[n]
          /\ block.parentHash = IF n = 0 THEN NoParent ELSE chaindata.H[n - 1]
      BY <2>1, <3>2 DEF ChainInv, StoredInv, CreatedInv, StoredBlock, CreatedAt
    <3>4. {"number", "hash", "parentHash"} \subseteq HeaderFields
      BY DEF HeaderFields
    <3>5. Found(block) # None
      BY DEF Found, NullIsNoBlock
    <3>6. QED
      BY <3>1, <3>2, <3>3, <3>4, <3>5, FoundFields
  <2>4. Count = Height
    BY CountIsHeight
  <2>5. Count # 0 => FindLatest = FindByNumber(Count - 1)
    BY <2>1, <2>2, <2>3, <2>4, LatestIsFound
  <2>6. QED
    BY <2>2, <2>3, <2>4, <2>5 DEF BlocksAreLinked
<1>2. QED
    BY <1>1, StoreInvariant, PTL

\* A receipt that is found is that of the transaction at its place in a stored
\* block, with the status, contract and logs of when the block was made.
THEOREM ReceiptsAreOfStoredBlocks ==
    ASSUME NullIsNoBlock
    PROVE  Spec => []ReceiptsAreOfTheChain
<1>1. StoreInv => ReceiptsAreOfTheChain
  <2> SUFFICES ASSUME StoreInv, NEW t \in DOMAIN chaindata.r
               PROVE  LET receipt == FindReceipt(t)
                      IN  /\ receipt.blockHash \in StoredHashes
                          /\ LET made == CreatedAt(receipt.blockHash)
                                 i == receipt.transactionIndex + 1
                             IN  /\ receipt.blockNumber = made.block.number
                                 /\ made.block.transactions[i].hash = t
                                 /\ receipt.status = made.receipts[i].status
                                 /\ receipt.contractAddress =
                                        made.receipts[i].contractAddress
                                 /\ receipt.logs = made.receipts[i].logs
    BY DEF ReceiptsAreOfTheChain
  <2>a. PICK n \in DOMAIN chaindata.H :
            \E i \in DOMAIN StoredReceipts(n) :
                /\ StoredReceipts(n)[i].transactionHash = t
                /\ chaindata.r[t] = SerializeReceipt(StoredReceipts(n)[i])
    BY DEF StoreInv, TxInv, ReceiptInv
  <2>1. PICK i \in DOMAIN StoredReceipts(n) :
            /\ StoredReceipts(n)[i].transactionHash = t
            /\ chaindata.r[t] = SerializeReceipt(StoredReceipts(n)[i])
    BY <2>a
  <2> DEFINE hash == chaindata.H[n]
             receipts == StoredReceipts(n)
             saved == receipts[i]
             receipt == FindReceipt(t)
             fields == {"blockHash", "contractAddress", "transactionIndex",
                        "transactionHash", "blockNumber", "status", "logs"}
  <2>2. /\ hash \in StoredHashes /\ hash = Hex(hash.x)
        /\ hash.x \in DOMAIN created
        /\ CreatedAt(hash).receipts = receipts
    BY DEF StoreInv, ChainInv, StoredInv, StoredHashes, StoredReceipts, CreatedAt
  <2>3. FitsTransactions(receipts, CreatedAt(hash).block.transactions,
                         CreatedAt(hash).block.number, hash)
    BY <2>2 DEF StoreInv, TxInv, MadeInv, CreatedAt
  <2>4. receipt = DeserializeReceipt(SerializeReceipt(saved))
    BY <2>1 DEF FindReceipt
  <2> HIDE DEF hash, receipts, receipt
  <2>5. i \in Nat /\ (i - 1) + 1 = i
    BY <2>1, <2>3, SequenceIsAppended DEF FitsTransactions, receipts
  <2>6. /\ saved.transactionHash = CreatedAt(hash).block.transactions[i].hash
        /\ saved.transactionIndex = i - 1
        /\ saved.blockHash = hash
        /\ saved.blockNumber = CreatedAt(hash).block.number
        /\ saved.contractAddress = NullValue
           \/ saved.contractAddress = Hex(saved.contractAddress.x)
        /\ fields \subseteq DOMAIN saved
    BY <2>1, <2>3 DEF FitsTransactions, receipts
  <2> HIDE DEF saved
  <2>7. receipt = [f \in DOMAIN saved |->
                      LET stored == IF f \in ReceiptHexFields
                                    THEN RlpItem(saved[f]) ELSE saved[f]
                      IN  IF f = "contractAddress"
                             /\ EnsureHexString(stored) = Prefix
                          THEN NullValue
                          ELSE IF f \in ReceiptHexFields
                          THEN EnsureHexString(stored) ELSE stored]
    BY <2>4 DEF DeserializeReceipt, SerializeReceipt
  <2>8. /\ receipt.transactionIndex = i - 1
        /\ receipt.blockNumber = saved.blockNumber
        /\ receipt.status = saved.status /\ receipt.logs = saved.logs
    BY <2>6, <2>7 DEF ReceiptHexFields
  <2>9. receipt.blockHash = hash
    <3>1. receipt.blockHash = EnsureHexString(RlpItem(saved.blockHash))
      BY <2>6, <2>7 DEF ReceiptHexFields
    <3>2. Kept(hash)
      BY <2>2, HexIsKept
    <3>3. QED
      BY <2>6, <3>1, <3>2 DEF Kept
  <2>10. receipt.contractAddress = saved.contractAddress
    <3> DEFINE item == EnsureHexString(RlpItem(saved.contractAddress))
    <3>1. receipt.contractAddress = IF item = Prefix THEN NullValue ELSE item
      BY <2>6, <2>7 DEF ReceiptHexFields
    <3>2. CASE saved.contractAddress = NullValue
      <4>1. item = Prefix
        BY <3>2 DEF EnsureHexString, RlpItem, NullValue, Tagged
      <4>2. QED
        BY <3>1, <3>2, <4>1
    <3>3. CASE saved.contractAddress = Hex(saved.contractAddress.x)
      <4>1. item = saved.contractAddress
        BY <3>3, HexIsKept DEF Kept
      <4>2. saved.contractAddress # Prefix
        BY <3>3 DEF Hex, Prefix, Tagged
      <4>3. QED
        BY <3>1, <4>1, <4>2
    <3>4. QED
      BY <2>6, <3>2, <3>3
  <2>11. CreatedAt(hash).receipts[i] = saved /\ saved.transactionHash = t
    BY <2>1, <2>2 DEF saved, receipts
  <2>12. QED
    BY <2>2, <2>5, <2>6, <2>8, <2>9, <2>10, <2>11 DEF receipt
<1>2. QED
    BY <1>1, StoreInvariant, PTL

\* null is not the answer of getTransaction.
NullIsNoTransaction == \A tx, lookup : [tx |-> tx, lookup |-> lookup] # None

\* Every transaction of a stored block is found by its hash, in a stored block
\* that has its lookup's number: a transaction that was included twice too.
THEOREM StoredTransactionsAreFound ==
    ASSUME NullIsNoBlock, NullIsNoTransaction
    PROVE  Spec => []TransactionsAreFound
<1>1. StoreInv => TransactionsAreFound
  <2> SUFFICES ASSUME StoreInv, NEW hash \in StoredHashes,
                      NEW i \in DOMAIN CreatedAt(hash).block.transactions
               PROVE  LET txHash == CreatedAt(hash).block.transactions[i].hash
                          found == GetTransaction(txHash)
                      IN  /\ found # None
                          /\ found.tx.hash = txHash
                          /\ chaindata.H[found.lookup.blockNumber]
                                = found.lookup.blockHash
    BY DEF TransactionsAreFound
  <2> DEFINE t == CreatedAt(hash).block.transactions[i].hash
             found == GetTransaction(t)
  <2>1. PICK m \in DOMAIN chaindata.H : chaindata.H[m] = hash
    BY DEF StoredHashes
  <2>2. t \in DOMAIN chaindata.l
    BY <2>1 DEF StoreInv, TxInv, LookupInv, StoredBlock
  <2>a. PICK n \in DOMAIN chaindata.H :
            \E j \in DOMAIN StoredBlock(n).transactions :
                /\ StoredBlock(n).transactions[j].hash = t
                /\ chaindata.l[t] = SerializeTxLookup(chaindata.H[n], n, j - 1)
    BY <2>2 DEF StoreInv, TxInv, LookupInv
  <2>3. PICK j \in DOMAIN StoredBlock(n).transactions :
            /\ StoredBlock(n).transactions[j].hash = t
            /\ chaindata.l[t] = SerializeTxLookup(chaindata.H[n], n, j - 1)
    BY <2>a
  <2> HIDE DEF t
  <2> DEFINE place == chaindata.H[n]
             txs == StoredBlock(n).transactions
             lookup == DeserializeTxLookup(chaindata.l[t])
             block == FindByHash(place)
  <2>4. place.x \in DOMAIN created /\ place = Hex(place.x)
    BY DEF StoreInv, ChainInv, StoredInv
  <2>5. /\ lookup.blockHash = place /\ lookup.blockNumber = n
        /\ lookup.txIndex = j - 1
    <3>1. EnsureHexString(RlpItem(place)) = place
      BY <2>4, HexIsKept DEF Kept
    <3> HIDE DEF place
    <3>2. chaindata.l[t] = [blockHash |-> RlpItem(place), blockNumber |-> n,
                            txIndex |-> j - 1]
      BY <2>3 DEF SerializeTxLookup, place
    <3>3. QED
      BY <3>1, <3>2 DEF DeserializeTxLookup
  <2>6. txs \in Batches \cup {<<>>}
    BY <2>4 DEF StoreInv, TxInv, MadeInv, StoredBlock, CreatedAt
  <2>7. j \in Nat /\ (j - 1) + 1 = j /\ txs[j].hash = Hex(txs[j].hash.x)
    <3>1. txs \in Batches
      BY <2>3, <2>6
    <3>2. txs \in Seq({txs[k] : k \in DOMAIN txs})
          /\ txs[j].hash = Hex(txs[j].hash.x)
      BY <2>3, <3>1, ChainStoreAssumption
    <3>3. IsSequence(txs)
      BY <3>2 DEF IsSequence
    <3> HIDE DEF txs
    <3>4. QED
      BY <2>3, <3>2, <3>3, SequenceIsAppended DEF txs
  <2>8. block = Found(StoredBlock(n)) /\ block # None
    BY StoredIsFound DEF StoreInv, NullIsNoBlock, Found
  <2>9. block.transactions = DeserializeBody(SerializeBody(txs))
    BY <2>8 DEF Found, FromHeaderAndBody, GetBody
  <2>10. /\ j \in DOMAIN block.transactions
         /\ block.transactions[j].hash = EnsureHexString(RlpItem(txs[j].hash))
    <3> DEFINE body == SerializeBody(txs)
    <3> HIDE DEF txs, block
    <3>1. j \in DOMAIN txs
      BY <2>3 DEF txs
    <3>2. DOMAIN body = DOMAIN txs /\ body[j].hash = RlpItem(txs[j].hash)
      BY <3>1 DEF SerializeBody
    <3> HIDE DEF body
    <3>3. block.transactions = DeserializeBody(body)
      BY <2>9 DEF body
    <3>4. QED
      BY <3>1, <3>2, <3>3 DEF DeserializeBody, NewTransaction
  <2>11. block.transactions[j].hash = t
    BY <2>3, <2>7, <2>10, HexIsKept DEF Kept
  <2> HIDE DEF block, lookup, place
  <2>12. found = [tx |-> block.transactions[j], lookup |-> lookup]
    BY <2>2, <2>5, <2>7, <2>8, <2>10 DEF GetTransaction, lookup, block
  <2> HIDE DEF found
  <2>13. found # None
    BY <2>12 DEF NullIsNoTransaction
  <2>14. /\ found.tx.hash = t
         /\ chaindata.H[found.lookup.blockNumber] = found.lookup.blockHash
    BY <2>5, <2>11, <2>12 DEF place
  <2>15. QED
    BY <2>13, <2>14 DEF found, t
<1>2. QED
    BY <1>1, StoreInvariant, PTL

-----------------------------------------------------------------------------
(* Transactions of the chain are not executed again *)

AccountType == [alloc : Nat, nonce : Nat, received : Nat]

States == [Acct -> AccountType \cup {None}]

\* Executing goes on: no account goes back or disappears.
GoesOn(before, after) ==
    \A a \in Acct :
        /\ Account(after, a).nonce >= Account(before, a).nonce
        /\ before[a] # None => after[a] # None

\* A state in which the transactions that had success cannot again.
Done(receipts, txs, state) ==
    \A i \in DOMAIN receipts :
        receipts[i].status = 1 =>
            /\ txs[i].from.x \in Acct
            /\ txs[i].nonce \in Nat
            /\ Nonce(state, txs[i]) > txs[i].nonce

\* A missing account counts as a new one.
LEMMA AccountIsTyped ==
    ASSUME NEW state \in States, NEW a \in Acct
    PROVE  Account(state, a) \in AccountType /\ Account(state, a).nonce \in Nat
<1>1. NewAccount \in AccountType
    BY DEF NewAccount, AccountType
<1>2. Account(state, a) \in AccountType
    BY <1>1 DEF Account, States
<1>3. QED
    BY <1>2 DEF AccountType

\* Nonces that do not go back twice do not go back.
LEMMA GoingOnAgain ==
    ASSUME NEW r \in States, NEW s \in States, NEW t \in States,
           GoesOn(r, s), GoesOn(s, t)
    PROVE  GoesOn(r, t)
BY AccountIsTyped DEF GoesOn

\* Nor are transactions executed before that executable after.
LEMMA DoneStaysDone ==
    ASSUME NEW s \in States, NEW t \in States, GoesOn(s, t),
           NEW receipts, NEW txs, Done(receipts, txs, s)
    PROVE  Done(receipts, txs, t)
BY AccountIsTyped DEF GoesOn, Done, Nonce

\* One transaction.
LEMMA RunTxGoesOn ==
    ASSUME NEW state \in States, NEW tx, NEW sender \in Acct,
           tx.from = Hex(sender)
    PROVE  /\ RunTx(state, tx) \in States
           /\ GoesOn(state, RunTx(state, tx))
           /\ Status(state, tx) = 1 =>
                 /\ tx.nonce \in Nat
                 /\ Nonce(RunTx(state, tx), tx) > tx.nonce
<1> DEFINE next == RunTx(state, tx)
           Sent(a) == [Account(state, a) EXCEPT
                          !.nonce = IF Hex(a) = tx.from THEN @ + 1 ELSE @,
                          !.received = IF Hex(a) = tx.to /\ tx \notin Reverting
                                       THEN @ + 1 ELSE @]
<1>1. tx.from.x = sender /\ \A a : Hex(a) = tx.from <=> a = sender
    BY DEF Hex, Tagged
<1>2. Nonce(state, tx) \in Nat /\ Nonce(state, tx) = Account(state, sender).nonce
    BY <1>1, AccountIsTyped DEF Nonce
<1>3. ASSUME NEW a \in Acct
      PROVE  /\ Sent(a) \in AccountType
             /\ Sent(a).nonce = IF a = sender THEN Account(state, a).nonce + 1
                                              ELSE Account(state, a).nonce
  <2>1. Account(state, a) \in AccountType
    BY AccountIsTyped
  <2>2. PICK account : account = Account(state, a)
    OBVIOUS
  <2>3. PICK nonce : nonce = IF Hex(a) = tx.from THEN account.nonce + 1
                                                 ELSE account.nonce
    OBVIOUS
  <2>4. PICK received : received = IF Hex(a) = tx.to /\ tx \notin Reverting
                                   THEN account.received + 1
                                   ELSE account.received
    OBVIOUS
  <2>5. Sent(a) = [account EXCEPT !.nonce = nonce, !.received = received]
    BY <2>2, <2>3, <2>4
  <2>6. account \in AccountType /\ nonce \in Nat /\ received \in Nat
    BY <2>1, <2>2, <2>3, <2>4 DEF AccountType
  <2> HIDE DEF Sent
  <2>7. Sent(a) \in AccountType /\ Sent(a).nonce = nonce
    BY <2>5, <2>6 DEF AccountType
  <2>8. QED
    BY <1>1, <2>2, <2>3, <2>7
<1>4. next = [a \in Acct |->
                 IF tx.nonce # Nonce(state, tx) THEN state[a]
                 ELSE IF Sent(a) = NewAccount THEN state[a] ELSE Sent(a)]
    BY DEF RunTx
<1> HIDE DEF next, Sent
<1>5. next \in States
    BY <1>3, <1>4 DEF States
<1>6. None \notin AccountType /\ NewAccount.nonce = 0
    BY ChainStoreAssumption DEF AccountType, NewAccount
<1>7. ASSUME NEW a \in Acct
      PROVE  /\ Account(next, a).nonce >= Account(state, a).nonce
             /\ state[a] # None => next[a] # None
             /\ a = sender /\ tx.nonce = Nonce(state, tx) =>
                   Account(next, a).nonce > Account(state, a).nonce
  <2>1. Account(state, a).nonce \in Nat /\ Account(next, a).nonce \in Nat
    BY <1>5, AccountIsTyped
  <2>2. CASE next[a] = state[a] /\ ~(a = sender /\ tx.nonce = Nonce(state, tx))
    BY <2>1, <2>2 DEF Account
  <2>3. CASE next[a] = Sent(a)
    <3>1. Account(next, a) = Sent(a) /\ next[a] # None
      BY <1>3, <1>6, <2>3 DEF Account
    <3>2. QED
      BY <1>3, <2>1, <3>1
  <2>4. CASE a = sender /\ tx.nonce = Nonce(state, tx)
    <3>1. Sent(a).nonce = Account(state, a).nonce + 1
      BY <1>3, <2>4
    <3>2. Sent(a) # NewAccount
      BY <1>6, <2>1, <3>1
    <3>3. next[a] = Sent(a)
      BY <1>4, <2>4, <3>2
    <3>4. QED
      BY <2>3, <3>3
  <2>5. QED
    BY <1>4, <2>2, <2>3, <2>4
<1>8. Status(state, tx) = 1 => tx.nonce = Nonce(state, tx)
    BY DEF Status
<1>9. Nonce(next, tx) = Account(next, sender).nonce
    BY <1>1 DEF Nonce
<1>10. QED
    BY <1>2, <1>5, <1>7, <1>8, <1>9 DEF GoesOn, next

\* The states of a run are there: one after each transaction.
LEMMA RunIsThere ==
    ASSUME NEW start, NEW txs, Len(txs) \in Nat
    PROVE  /\ Run(start, txs)[1] = start
           /\ \A i \in 1..Len(txs) :
                 Run(start, txs)[i + 1] = RunTx(Run(start, txs)[i], txs[i])
<1> DEFINE Fits(g, n) == g = [i \in 1..(n + 1) |->
                                 IF i = 1 THEN start
                                 ELSE RunTx(g[i - 1], txs[i - 1])]
           Runs == {n \in Nat : \E g : Fits(g, n)}
           g == CHOOSE g : Fits(g, Len(txs))
<1>1. 0 \in Runs
  <2> DEFINE f == [i \in 1..1 |-> start]
  <2>1. f = [i \in 1..(0 + 1) |-> IF i = 1 THEN start
                                  ELSE RunTx(f[i - 1], txs[i - 1])]
    OBVIOUS
  <2> HIDE DEF f
  <2>2. Fits(f, 0)
    BY <2>1
  <2>3. QED
    BY <2>2
<1>2. ASSUME NEW n \in Nat, n \in Runs
      PROVE  n + 1 \in Runs
  <2>1. PICK f : Fits(f, n)
    BY <1>2
  <2>e. PICK last : last = RunTx(f[n + 1], txs[n + 1])
    OBVIOUS
  <2>h. PICK h : h = [i \in 1..(n + 2) |-> IF i = n + 2 THEN last ELSE f[i]]
    OBVIOUS
  <2>2. \A i \in 1..(n + 1) : h[i] = f[i]
    BY <2>h
  <2>3. \A i \in 1..(n + 2) :
            h[i] = IF i = 1 THEN start ELSE RunTx(h[i - 1], txs[i - 1])
    <3> TAKE i \in 1..(n + 2)
    <3>1. CASE i = n + 2
      <4>1. i # 1 /\ i - 1 = n + 1 /\ h[i - 1] = f[n + 1]
        BY <2>2, <3>1
      <4>2. QED
        BY <2>e, <2>h, <3>1, <4>1
    <3>2. CASE i # n + 2
      <4>1. i \in 1..(n + 1)
        BY <3>2
      <4>2. f[i] = IF i = 1 THEN start ELSE RunTx(f[i - 1], txs[i - 1])
        BY <2>1, <4>1
      <4>3. i # 1 => h[i - 1] = f[i - 1]
        BY <2>2, <4>1
      <4>4. QED
        BY <2>2, <4>1, <4>2, <4>3
    <3>3. QED
      BY <3>1, <3>2
  <2>4. h = [i \in 1..(n + 2) |-> h[i]]
    BY <2>h
  <2>5. PICK S : S = 1..(n + 2)
    OBVIOUS
  <2>6. h = [i \in S |-> IF i = 1 THEN start ELSE RunTx(h[i - 1], txs[i - 1])]
    BY <2>3, <2>4, <2>5
  <2>7. S = 1..((n + 1) + 1)
    BY <2>5
  <2>8. Fits(h, n + 1)
    BY <2>6, <2>7
  <2>9. QED
    BY <2>8
<1>3. Len(txs) \in Runs
  <2> HIDE DEF Runs
  <2>1. QED
    BY <1>1, <1>2, Up
<1>4. Fits(g, Len(txs))
    BY <1>3
<1>5. Run(start, txs) = g
    BY DEF Run
<1> HIDE DEF g
<1>6. g[1] = start /\ \A i \in 1..Len(txs) : g[i + 1] = RunTx(g[i], txs[i])
  <2>1. g[1] = start
    BY <1>4
  <2>2. ASSUME NEW i \in 1..Len(txs)
        PROVE  g[i + 1] = RunTx(g[i], txs[i])
    <3>1. i + 1 \in 1..(Len(txs) + 1) /\ i + 1 # 1 /\ (i + 1) - 1 = i
      OBVIOUS
    <3>2. QED
      BY <1>4, <3>1
  <2>3. QED
    BY <2>1, <2>2
<1>7. QED
    BY <1>5, <1>6

\* Executing a block takes back no nonce and passes that of each success.
LEMMA RunGoesOn ==
    ASSUME NEW start \in States, NEW txs \in Batches
    PROVE  LET states == Run(start, txs)
               last == states[Len(txs) + 1]
           IN  /\ last \in States /\ GoesOn(start, last)
               /\ DOMAIN txs = 1..Len(txs)
               /\ \A i \in DOMAIN txs :
                     Status(states[i], txs[i]) = 1 =>
                         /\ txs[i].from.x \in Acct
                         /\ txs[i].nonce \in Nat
                         /\ Nonce(last, txs[i]) > txs[i].nonce
<1> DEFINE states == Run(start, txs)
           Passed(n, i) == Status(states[i], txs[i]) = 1 =>
                               /\ txs[i].from.x \in Acct
                               /\ txs[i].nonce \in Nat
                               /\ Nonce(states[n + 1], txs[i]) > txs[i].nonce
           Fine(n) == /\ states[n + 1] \in States
                      /\ GoesOn(start, states[n + 1])
                      /\ \A i \in 1..n : Passed(n, i)
           S == {n \in Nat : n <= Len(txs) => Fine(n)}
<1>1. /\ IsSequence(txs)
      /\ \A i \in DOMAIN txs : txs[i].from \in {Hex(a) : a \in Acct}
    BY ChainStoreAssumption DEF IsSequence
<1>2. Len(txs) \in Nat /\ DOMAIN txs = 1..Len(txs)
    BY <1>1, SequenceIsAppended
<1>3. /\ states[1] = start
      /\ \A i \in 1..Len(txs) : states[i + 1] = RunTx(states[i], txs[i])
    BY <1>2, RunIsThere
<1> HIDE DEF states
<1>4. 0 \in S
    BY <1>3, AccountIsTyped DEF GoesOn
<1>5. ASSUME NEW n \in Nat, n < Len(txs), n \in S
      PROVE  n + 1 \in S
  <2> DEFINE tx == txs[n + 1]
             here == states[n + 1]
             next == states[(n + 1) + 1]
  <2>1. n + 1 \in 1..Len(txs)
    BY <1>2, <1>5
  <2>2. /\ here \in States /\ GoesOn(start, here)
        /\ \A i \in 1..n : Passed(n, i)
    BY <1>2, <1>5
  <2>3. PICK sender \in Acct : tx.from = Hex(sender)
    BY <1>1, <1>2, <2>1
  <2>4. next = RunTx(here, tx)
    BY <1>3, <2>1
  <2> HIDE DEF next, here, tx
  <2>5. /\ next \in States /\ GoesOn(here, next)
        /\ Status(here, tx) = 1 => tx.nonce \in Nat /\ Nonce(next, tx) > tx.nonce
    BY <2>2, <2>3, <2>4, RunTxGoesOn
  <2>6. GoesOn(start, next)
    BY <2>2, <2>5, GoingOnAgain
  <2>7. ASSUME NEW i \in 1..(n + 1), Status(states[i], txs[i]) = 1
        PROVE  /\ txs[i].from.x \in Acct
               /\ txs[i].nonce \in Nat
               /\ Nonce(next, txs[i]) > txs[i].nonce
    <3>1. CASE i = n + 1
      BY <2>3, <2>5, <2>7, <3>1 DEF here, tx, Hex, Tagged
    <3>2. CASE i # n + 1
      <4>1. i \in 1..n
        BY <3>2
      <4>2. /\ txs[i].from.x \in Acct /\ txs[i].nonce \in Nat
            /\ Nonce(here, txs[i]) > txs[i].nonce
        BY <2>2, <2>7, <4>1 DEF here
      <4>3. /\ Nonce(next, txs[i]) >= Nonce(here, txs[i])
            /\ Nonce(next, txs[i]) \in Nat /\ Nonce(here, txs[i]) \in Nat
        BY <2>2, <2>5, <4>2, AccountIsTyped DEF GoesOn, Nonce
      <4>4. QED
        BY <4>2, <4>3
    <3>3. QED
      BY <3>1, <3>2
  <2>8. Fine(n + 1)
    BY <2>5, <2>6, <2>7 DEF next
  <2>9. QED
    BY <2>8
<1>6. Len(txs) \in S
  <2> HIDE DEF S
  <2>1. QED
    BY <1>2, <1>4, <1>5, Up
<1>7. Fine(Len(txs))
    BY <1>2, <1>6
<1>8. QED
    BY <1>2, <1>7 DEF states

\* The accounts with the changes of a journal.
Merged(state, changes) ==
    [a \in Acct |-> IF changes[a] = None THEN state[a] ELSE changes[a]]

\* Accounts of a journal over accounts on disk are accounts.
LEMMA MergedIsAState ==
    ASSUME NEW state \in States, NEW changes \in States
    PROVE  Merged(state, changes) \in States
BY DEF Merged, States

\* An empty journal changes none.
LEMMA NothingMerged ==
    ASSUME NEW state \in States
    PROVE  /\ NoAccounts \in States /\ Merged(state, NoAccounts) = state
           /\ GoesOn(state, state)
BY AccountIsTyped DEF Merged, States, NoAccounts, GoesOn

\* The changes of a block are what executing it does.
LEMMA BlockIsDone ==
    ASSUME accounts \in States, NEW txs \in Batches
    PROVE  LET made == BlockOn(FindLatest, txs)
               after == Merged(accounts, made.journal)
           IN  /\ made.journal \in States
               /\ GoesOn(accounts, after)
               /\ Done(made.receipts, txs, after)
               /\ after = Run(accounts, txs)[Len(txs) + 1]
<1> DEFINE states == Run(accounts, txs)
           last == states[Len(txs) + 1]
           made == BlockOn(FindLatest, txs)
<1>1. /\ made.journal = Changes(accounts, last)
      /\ made.receipts = [i \in DOMAIN txs |->
                             Receipt(states[i], txs[i], i - 1,
                                     NextNumber(FindLatest), NextHash)]
    BY DEF BlockOn
<1>2. /\ last \in States /\ GoesOn(accounts, last)
      /\ \A i \in DOMAIN txs :
            Status(states[i], txs[i]) = 1 =>
                /\ txs[i].from.x \in Acct
                /\ txs[i].nonce \in Nat
                /\ Nonce(last, txs[i]) > txs[i].nonce
    BY RunGoesOn
<1> HIDE DEF states, last, made
<1>3. made.journal \in States
    BY <1>1, <1>2 DEF Changes, States
<1>4. Merged(accounts, made.journal) = last
  <2>1. \A a \in Acct : Merged(accounts, made.journal)[a] = last[a]
    BY <1>1, <1>2 DEF Merged, Changes, GoesOn
  <2>2. last = [a \in Acct |-> last[a]]
    BY <1>2 DEF States
  <2>3. Merged(accounts, made.journal) =
           [a \in Acct |-> Merged(accounts, made.journal)[a]]
    BY DEF Merged
  <2>4. QED
    BY <2>1, <2>2, <2>3
<1>5. \A i \in DOMAIN txs : made.receipts[i].status = Status(states[i], txs[i])
    BY <1>1, ReceiptFields
<1>6. Done(made.receipts, txs, last)
    BY <1>1, <1>2, <1>5 DEF Done
<1>7. QED
    BY <1>2, <1>3, <1>4, <1>6 DEF made, last, states

\* The genesis block has no transactions and sets no nonce back.
LEMMA GenesisIsDone ==
    ASSUME accounts \in States
    PROVE  /\ Genesis.journal \in States
           /\ GoesOn(accounts, Merged(accounts, Genesis.journal))
           /\ \A state : Done(Genesis.receipts, Genesis.block.transactions, state)
<1> DEFINE journal == [a \in Acct |->
                          [Account(accounts, a) EXCEPT !.alloc = @ + 1]]
<1>1. /\ Genesis.journal = journal /\ Genesis.receipts = <<>>
    BY DEF Genesis, Endowed
<1>2. ASSUME NEW a \in Acct
      PROVE  /\ journal[a] \in AccountType
             /\ journal[a].nonce = Account(accounts, a).nonce
    BY AccountIsTyped DEF AccountType
<1>3. None \notin AccountType
    BY ChainStoreAssumption DEF AccountType
<1> HIDE DEF journal
<1>4. journal \in States
    BY <1>2 DEF States, journal
<1>5. ASSUME NEW a \in Acct
      PROVE  /\ Account(Merged(accounts, journal), a) = journal[a]
             /\ Merged(accounts, journal)[a] # None
    BY <1>2, <1>3 DEF Merged, Account
<1>6. GoesOn(accounts, Merged(accounts, journal))
    BY <1>2, <1>5, AccountIsTyped DEF GoesOn
<1>7. QED
    BY <1>1, <1>4, <1>6 DEF Done

\* What the stored blocks did is on disk, and what the block that is being made
\* does is on disk or in the journal.
StoredAreDone ==
    \A n \in DOMAIN chaindata.H :
        Done(StoredReceipts(n), StoredBlock(n).transactions, accounts)

MadeIsDone(journal) ==
    Done(Made.receipts, Made.block.transactions, Merged(accounts, journal))

AppliedInv ==
    /\ accounts \in States /\ unsaved \in States
    /\ GoesOn(accounts, Merged(accounts, unsaved))
    /\ StoredAreDone
    /\ step = "made" =>
          /\ Made.journal \in States
          /\ GoesOn(accounts, Merged(accounts, Made.journal))
          /\ MadeIsDone(Made.journal)
    /\ step \in {"committing", "saving"} => MadeIsDone(unsaved)

\* What holds of stored blocks holds after a step that stores none.
LEMMA StoredStayDone ==
    ASSUME AppliedInv, StoredStays, DOMAIN chaindata'.H = DOMAIN chaindata.H,
           accounts' \in States, GoesOn(accounts, accounts')
    PROVE  StoredAreDone'
<1> SUFFICES ASSUME NEW n \in DOMAIN chaindata.H
             PROVE  Done(StoredReceipts(n)', StoredBlock(n)'.transactions,
                         accounts')
    BY DEF StoredAreDone
<1>1. /\ StoredReceipts(n)' = StoredReceipts(n)
      /\ StoredBlock(n)' = StoredBlock(n)
    BY DEF StoredStays
<1>2. Done(StoredReceipts(n), StoredBlock(n).transactions, accounts)
    BY DEF AppliedInv, StoredAreDone
<1>3. QED
    BY <1>1, <1>2, DoneStaysDone DEF AppliedInv

\* There is no stored block at first.
LEMMA AppliedStart == Init => AppliedInv
<1> SUFFICES ASSUME Init
             PROVE  AppliedInv
    OBVIOUS
<1>1. /\ accounts = NoAccounts /\ unsaved = NoAccounts /\ step = "idle"
      /\ DOMAIN chaindata.H = {}
    BY DEF Init, NoChaindata
<1>2. NoAccounts \in States
    BY DEF States, NoAccounts
<1>3. QED
    BY <1>1, <1>2, NothingMerged DEF AppliedInv, StoredAreDone

\* A block is made.
LEMMA AppliedCreate ==
    ASSUME StoreInv, AppliedInv, StoredStays,
           StartNew \/ \E txs \in Batches : CreateBlock(txs)
    PROVE  AppliedInv'
<1>1. IsSequence(created)
    BY DEF StoreInv, ChainInv
<1>2. UNCHANGED <<accounts, chaindata>>
    BY DEF StartNew, CreateBlock, disk
<1>3. StoredAreDone' /\ accounts' \in States
    BY <1>2, StoredStayDone, NothingMerged DEF AppliedInv
<1>4. CASE StartNew
  <2>1. PICK made : made = Genesis
    OBVIOUS
  <2>2. /\ created' = Append(created, made) /\ unsaved' = made.journal
        /\ step' = "committing"
    BY <1>4, <2>1 DEF StartNew
  <2>3. Made' = made
    BY <1>1, <2>2, SequenceIsAppended DEF Made
  <2>4. /\ made.journal \in States
        /\ GoesOn(accounts, Merged(accounts, made.journal))
        /\ \A state : Done(made.receipts, made.block.transactions, state)
    BY <2>1, GenesisIsDone DEF AppliedInv
  <2>5. Merged(accounts, made.journal) = Merged(accounts, unsaved)'
    BY <1>2, <2>2 DEF Merged
  <2>6. QED
    BY <1>2, <1>3, <2>2, <2>3, <2>4, <2>5 DEF AppliedInv, MadeIsDone
<1>5. ASSUME NEW txs \in Batches, CreateBlock(txs)
      PROVE  AppliedInv'
  <2>1. PICK made : made = BlockOn(FindLatest, txs)
    OBVIOUS
  <2>2. created' = Append(created, made) /\ step' = "made" /\ unsaved' = unsaved
    BY <1>5, <2>1 DEF CreateBlock, commitVars
  <2>3. Made' = made
    BY <1>1, <2>2, SequenceIsAppended DEF Made
  <2>4. made.block.transactions = txs
    BY <2>1 DEF BlockOn, NewBlock
  <2>5. /\ made.journal \in States
        /\ GoesOn(accounts, Merged(accounts, made.journal))
        /\ Done(made.receipts, txs, Merged(accounts, made.journal))
    BY <2>1, BlockIsDone DEF AppliedInv
  <2>6. /\ Merged(accounts, made.journal) = Merged(accounts, Made.journal)'
        /\ Merged(accounts, unsaved) = Merged(accounts, unsaved)'
    BY <1>2, <2>2, <2>3 DEF Merged
  <2>7. QED
    BY <1>2, <1>3, <2>2, <2>3, <2>4, <2>5, <2>6 DEF AppliedInv, MadeIsDone
<1>6. QED
    BY <1>4, <1>5

\* The accounts of a block go from the journal to the disk.
LEMMA AppliedCommit ==
    ASSUME StoreInv, AppliedInv, StoredStays, BeginCommit \/ PutAccount
    PROVE  AppliedInv'
<1>1. UNCHANGED <<chaindata, created>> /\ Made' = Made
    BY DEF BeginCommit, PutAccount, disk, Made
<1>2. CASE BeginCommit
  <2>1. /\ step = "made" /\ step' = "committing"
        /\ unsaved' = Made.journal /\ accounts' = accounts
    BY <1>2 DEF BeginCommit, disk
  <2>2. StoredAreDone'
    BY <1>1, <2>1, StoredStayDone, NothingMerged DEF AppliedInv
  <2>3. Merged(accounts, unsaved)' = Merged(accounts, Made.journal)
    BY <2>1 DEF Merged
  <2>4. QED
    BY <1>1, <2>1, <2>2, <2>3 DEF AppliedInv, MadeIsDone
<1>3. CASE PutAccount
  <2>1. /\ putting \in Acct /\ unsaved[putting] # None /\ step = "committing"
    BY <1>3 DEF PutAccount, StoreInv, RootInv, TypeOK
  <2>2. /\ accounts' = [accounts EXCEPT ![putting] = unsaved[putting]]
        /\ unsaved' = [unsaved EXCEPT ![putting] = None]
        /\ step' = step
    BY <1>3 DEF PutAccount
  <2>3. accounts' \in States /\ unsaved' \in States
    BY <2>1, <2>2 DEF AppliedInv, States
  <2>4. Merged(accounts, unsaved)' = Merged(accounts, unsaved)
    <3>1. \A a \in Acct :
              (IF unsaved'[a] = None THEN accounts'[a] ELSE unsaved'[a]) =
              (IF unsaved[a] = None THEN accounts[a] ELSE unsaved[a])
      BY <2>1, <2>2 DEF AppliedInv, States
    <3>2. QED
      BY <3>1 DEF Merged
  <2>5. ASSUME NEW a \in Acct
        PROVE  /\ accounts'[a] = IF a = putting
                                 THEN Merged(accounts, unsaved)[a]
                                 ELSE accounts[a]
               /\ Account(accounts', a) =
                     IF a = putting THEN Account(Merged(accounts, unsaved), a)
                                    ELSE Account(accounts, a)
    BY <2>1, <2>2 DEF AppliedInv, States, Merged, Account
  <2>6. GoesOn(accounts, accounts') /\ GoesOn(accounts', Merged(accounts, unsaved))
    <3>1. /\ GoesOn(accounts, Merged(accounts, unsaved))
          /\ GoesOn(accounts, accounts)
          /\ GoesOn(Merged(accounts, unsaved), Merged(accounts, unsaved))
      BY NothingMerged, MergedIsAState DEF AppliedInv
    <3> HIDE DEF Merged
    <3>2. QED
      BY <2>5, <3>1 DEF GoesOn
  <2>7. StoredAreDone'
    BY <1>1, <2>3, <2>6, StoredStayDone
  <2>8. QED
    BY <1>1, <2>1, <2>2, <2>3, <2>4, <2>6, <2>7 DEF AppliedInv, MadeIsDone
<1>4. QED
    BY <1>2, <1>3

\* A block that is saved has nothing left in the journal.
LEMMA AppliedSave ==
    ASSUME StoreInv, AppliedInv, StoredStays, SaveBlock
    PROVE  AppliedInv'
<1>1. /\ UNCHANGED <<accounts, unsaved, created>>
      /\ step = "saving" /\ step' \in {"idle", "receipts"}
    BY DEF SaveBlock, commitVars
<1>2. unsaved = NoAccounts
    BY <1>1 DEF StoreInv, RootInv, TypeOK
<1>3. Done(Made.receipts, Made.block.transactions, accounts)
    BY <1>1, <1>2, NothingMerged DEF AppliedInv, MadeIsDone
<1>4. /\ DOMAIN chaindata'.H = DOMAIN chaindata.H \cup {Height}
      /\ chaindata'.H[Height] = Hex(Len(created))
    BY ChainGrows DEF StoreInv
<1>5. ASSUME NEW n \in DOMAIN chaindata'.H
      PROVE  Done(StoredReceipts(n)', StoredBlock(n)'.transactions, accounts)
  <2>1. CASE n = Height
    <3>1. chaindata'.H[n].x = Len(created)
      BY <1>4, <2>1 DEF Hex, Tagged
    <3>2. /\ StoredReceipts(n)' = Made.receipts
          /\ StoredBlock(n)' = Made.block
      BY <1>1, <3>1 DEF StoredReceipts, StoredBlock, CreatedAt, Made
    <3>3. QED
      BY <1>3, <3>2
  <2>2. CASE n \in DOMAIN chaindata.H
    BY <2>2 DEF AppliedInv, StoredAreDone, StoredStays
  <2>3. QED
    BY <1>4, <2>1, <2>2
<1>6. StoredAreDone'
    BY <1>1, <1>5 DEF StoredAreDone
<1>7. Merged(accounts, unsaved)' = Merged(accounts, unsaved)
    BY <1>1 DEF Merged
<1>8. QED
    BY <1>1, <1>6, <1>7 DEF AppliedInv

\* The journal is dropped, or neither it nor the accounts change.
LEMMA AppliedRest ==
    ASSUME StoreInv, AppliedInv, StoredStays,
           \/ StartAgain \/ RestoreState \/ EmptyTrie \/ Restored
           \/ \E a \in Acct : CopyAccount(a) \/ PutInTrie(a)
           \/ CommitEnd \/ SaveReceipt \/ EndBlock
           \/ ProduceFails \/ Crash
           \/ \E hash \in DOMAIN chaindata.n : ReadBlock(hash)
           \/ \E hash \in DOMAIN headerCache : EvictHeader(hash)
           \/ UNCHANGED vars
    PROVE  AppliedInv'
<1> USE DEF disk, trieVars, bootVars, commitVars
<1>1. /\ UNCHANGED <<accounts, created>> /\ unsaved' \in {unsaved, NoAccounts}
      /\ \/ step' = "idle"
         \/ step' = step /\ unsaved' = unsaved
         \/ step = "committing" /\ step' = "saving" /\ unsaved' = unsaved
    BY DEF StartAgain, RestoreState, EmptyTrie, Restored, CopyAccount, PutInTrie,
           CommitEnd, SaveReceipt, EndBlock, ProduceFails, Crash, ReadBlock,
           EvictHeader, vars
<1>2. DOMAIN chaindata'.H = DOMAIN chaindata.H
  <2>1. CASE SaveReceipt
    <3>1. PICK r : chaindata' = [chaindata EXCEPT !.r = r]
      BY <2>1 DEF SaveReceipt
    <3>2. QED
      BY <3>1 DEF StoreInv, ChainInv, ChaindataInv
  <2>2. CASE chaindata' = chaindata
    BY <2>2
  <2>3. SaveReceipt \/ chaindata' = chaindata
    BY DEF StartAgain, RestoreState, EmptyTrie, Restored, CopyAccount, PutInTrie,
           CommitEnd, EndBlock, ProduceFails, Crash, ReadBlock, EvictHeader, vars
  <2>4. QED
    BY <2>1, <2>2, <2>3
<1>3. StoredAreDone'
    BY <1>1, <1>2, StoredStayDone, NothingMerged DEF AppliedInv
<1>4. Made' = Made /\ \A journal : Merged(accounts, journal)' = Merged(accounts, journal')
    BY <1>1 DEF Made, Merged
<1>5. CASE unsaved' = unsaved /\ step' \in {step, "idle", "saving"}
    BY <1>1, <1>3, <1>4, <1>5 DEF AppliedInv, MadeIsDone
<1>6. CASE unsaved' = NoAccounts /\ step' = "idle"
    BY <1>1, <1>3, <1>4, <1>6, NothingMerged DEF AppliedInv
<1>7. QED
    BY <1>1, <1>5, <1>6

\* The invariant about nonces in every state.
LEMMA AppliedInvariant ==
    ASSUME NullIsNoBlock
    PROVE  Spec => []AppliedInv
<1>1. StoreInv /\ AppliedInv /\ StoredStays /\ [Next]_vars => AppliedInv'
    BY AppliedCreate, AppliedCommit, AppliedSave, AppliedRest DEF Next
<1>2. StoreInv /\ AppliedInv /\ UNCHANGED vars => AppliedInv'
  <2>1. UNCHANGED vars => StoredStays
    BY DEF vars, disk, StoredStays, StoredBlock, StoredReceipts, CreatedAt
  <2>2. QED
    BY <1>1, <2>1
<1>3. QED
    BY <1>1, <1>2, StoreInvariant, AppliedStart, PTL DEF Spec

\* No restart, crash or failed write lets a transaction of a stored block that had
\* success be executed again: its nonce on disk is past.
THEOREM StoredIsApplied ==
    ASSUME NullIsNoBlock
    PROVE  Spec => []ChainIsApplied
<1>1. AppliedInv => ChainIsApplied
  <2> SUFFICES ASSUME AppliedInv, NEW hash \in StoredHashes,
                      NEW i \in DOMAIN CreatedAt(hash).receipts,
                      CreatedAt(hash).receipts[i].status = 1
               PROVE  LET tx == CreatedAt(hash).block.transactions[i]
                      IN  Nonce(accounts, tx) > tx.nonce
    BY DEF ChainIsApplied
  <2>1. PICK n \in DOMAIN chaindata.H : chaindata.H[n] = hash
    BY DEF StoredHashes
  <2>2. Done(CreatedAt(hash).receipts, CreatedAt(hash).block.transactions,
             accounts)
    BY <2>1 DEF AppliedInv, StoredAreDone, StoredReceipts, StoredBlock
  <2>3. QED
    BY <2>2 DEF Done
<1>2. QED
    BY <1>1, AppliedInvariant, PTL

-----------------------------------------------------------------------------
(* What a stored block says *)

BlockFields == HeaderFields \cup {"transactions"}

TransactionFields ==
    {"hash", "from", "to", "value", "nonce", "v", "data", "status"}

\* A made block has the fields of a block that is found, and no other.
ShapeInv ==
    \A k \in DOMAIN created :
        created[k].block = [f \in BlockFields |-> created[k].block[f]]

\* A transaction as it comes back, and as toJSON writes it.
ComesBack(tx) ==
    NewTransaction(EnsureHexString(RlpItem(tx.hash)),
                   EnsureHexString(RlpItem(tx.from)),
                   EnsureHexString(RlpItem(IF tx.to = NullValue THEN EmptyString
                                                                ELSE tx.to)),
                   tx.value, tx.nonce,
                   ParseIntOrZero(RlpItem(IF tx.v = 0 THEN EmptyString
                                          ELSE Tagged("number", tx.v))),
                   RlpItem(tx.data))

Shown(tx) == [f \in DOMAIN tx \ {"status"} |-> TransactionJson(tx)[f]]

\* A transaction of a body says what it said, but for v and how a missing
\* recipient is written.
LEMMA TransactionComesBack ==
    ASSUME NEW txs \in Batches, NEW i \in DOMAIN txs
    PROVE  ButForVAndTo(Shown(ComesBack(txs[i]))) = ButForVAndTo(Shown(txs[i]))
<1> DEFINE tx == txs[i]
<1>1. /\ tx.hash = Hex(tx.hash.x) /\ tx.from = Hex(tx.from.x)
      /\ tx = NewTransaction(tx.hash, tx.from, tx.to, tx.value, tx.nonce, tx.v,
                             tx.data)
      /\ tx.to \in {NullValue, EmptyString, Prefix, Hex(tx.to.x)}
      /\ tx.data \in {Prefix, Hex(tx.data.x)}
  <2>1. \A a \in Acct : Hex(a) = Hex(Hex(a).x)
    BY DEF Hex, Tagged
  <2>2. tx.from \in {Hex(a) : a \in Acct} /\ tx.hash = Hex(tx.hash.x)
    BY ChainStoreAssumption
  <2>3. /\ tx = NewTransaction(tx.hash, tx.from, tx.to, tx.value, tx.nonce,
                               tx.v, tx.data)
        /\ tx.to \in {NullValue, EmptyString, Prefix, Hex(tx.to.x)}
        /\ tx.data \in {Prefix, Hex(tx.data.x)}
    BY ChainStoreAssumption
  <2> HIDE DEF tx
  <2>4. tx.from = Hex(tx.from.x)
    BY <2>1, <2>2
  <2>5. QED
    BY <2>2, <2>3, <2>4
<1> HIDE DEF tx
<1>2. /\ EnsureHexString(RlpItem(tx.hash)) = tx.hash
      /\ EnsureHexString(RlpItem(tx.from)) = tx.from
    BY <1>1, HexIsKept DEF Kept
<1>3. EnsureHexString(RlpItem(IF tx.to = NullValue THEN EmptyString ELSE tx.to))
        = IF tx.to = Hex(tx.to.x) THEN tx.to ELSE Prefix
  <2>1. CASE tx.to = Hex(tx.to.x)
    BY <2>1, HexIsKept DEF Kept, Hex, NullValue, Tagged
  <2>2. CASE tx.to # Hex(tx.to.x)
    BY <1>1, <2>2
       DEF NullValue, EmptyString, Prefix, Tagged, RlpItem, EnsureHexString
  <2>3. QED
    BY <2>1, <2>2
<1>4. DataJson(RlpItem(tx.data)) = DataJson(tx.data)
    BY <1>1 DEF DataJson, RlpItem, Prefix, Hex, Tagged
<1>5. PICK v, to :
          /\ v = ParseIntOrZero(RlpItem(IF tx.v = 0 THEN EmptyString
                                        ELSE Tagged("number", tx.v)))
          /\ to = IF tx.to = Hex(tx.to.x) THEN tx.to ELSE Prefix
    OBVIOUS
<1>6. ComesBack(tx) = NewTransaction(tx.hash, tx.from, to, tx.value, tx.nonce,
                                     v, RlpItem(tx.data))
    BY <1>2, <1>3, <1>5 DEF ComesBack
<1> DEFINE OrNull(r) == IF r \in NoRecipient THEN NullValue ELSE r
           Plain(r, data) == [f \in TransactionFields \ {"status", "v"} |->
                                 IF f = "to" THEN r
                                 ELSE IF f = "data" THEN data ELSE tx[f]]
<1>7. ASSUME NEW r, NEW w, NEW data
      PROVE  ButForVAndTo(Shown(NewTransaction(tx.hash, tx.from, r, tx.value,
                                               tx.nonce, w, data)))
               = Plain(OrNull(r), DataJson(data))
  <2>1. PICK json : json = DataJson(data)
    OBVIOUS
  <2>2. PICK shown : shown = Shown(NewTransaction(tx.hash, tx.from, r, tx.value,
                                                  tx.nonce, w, data))
    OBVIOUS
  <2>3. shown = [f \in TransactionFields \ {"status"} |->
                    IF f = "to" THEN r ELSE IF f = "v" THEN w
                    ELSE IF f = "data" THEN json ELSE tx[f]]
    BY <2>1, <2>2
       DEF Shown, TransactionJson, NewTransaction, TransactionFields
  <2>4. /\ DOMAIN shown = TransactionFields \ {"status"}
        /\ shown.to = r
        /\ \A f \in DOMAIN shown \ {"v"} :
              shown[f] = IF f = "to" THEN r
                         ELSE IF f = "data" THEN json ELSE tx[f]
    BY <2>3 DEF TransactionFields
  <2>5. ButForVAndTo(shown) = Plain(OrNull(r), json)
    BY <2>4 DEF ButForVAndTo
  <2>6. QED
    BY <2>1, <2>2, <2>5
<1>8. OrNull(to) = OrNull(tx.to)
    BY <1>1, <1>5
       DEF NoRecipient, NullValue, EmptyString, Prefix, Hex, Tagged
<1> HIDE DEF OrNull, Plain
<1>9. ButForVAndTo(Shown(ComesBack(tx))) = Plain(OrNull(to), DataJson(tx.data))
    BY <1>4, <1>6, <1>7
<1>10. ButForVAndTo(Shown(tx)) = Plain(OrNull(tx.to), DataJson(tx.data))
    BY <1>1, <1>7
<1>11. QED
    BY <1>8, <1>9, <1>10 DEF tx

\* No block is made at first.
LEMMA ShapeStart == Init => ShapeInv
BY DEF Init, ShapeInv

\* The constructor sets these fields.
LEMMA NewBlockShape ==
    ASSUME NEW number, NEW parent, NEW timestamp, NEW proposer, NEW txs,
           NEW roots, NEW hash
    PROVE  LET block == NewBlock(number, parent, timestamp, proposer, txs,
                                 roots, hash)
           IN  block = [f \in BlockFields |-> block[f]]
<1> DEFINE block == NewBlock(number, parent, timestamp, proposer, txs, roots, hash)
<1>1. DOMAIN block = BlockFields
    BY DEF NewBlock, BlockFields, HeaderFields
<1>2. block = [f \in DOMAIN block |-> block[f]]
    BY DEF NewBlock
<1>3. QED
    BY <1>1, <1>2

\* Every block that is made comes from it.
LEMMA ShapeStep ==
    ASSUME StoreInv, ShapeInv, [Next]_vars
    PROVE  ShapeInv'
<1>1. IsSequence(created)
    BY DEF StoreInv, ChainInv
<1>2. ASSUME NEW made, created' = Append(created, made),
             made.block = [f \in BlockFields |-> made.block[f]]
      PROVE  ShapeInv'
  <2>1. /\ DOMAIN created' = DOMAIN created \cup {Len(created) + 1}
        /\ created'[Len(created) + 1] = made
        /\ \A k \in DOMAIN created : created'[k] = created[k]
    BY <1>1, <1>2, SequenceIsAppended
  <2>2. QED
    BY <1>2, <2>1 DEF ShapeInv
<1>3. CASE StartNew
  <2>1. Genesis.block = [f \in BlockFields |-> Genesis.block[f]]
    BY NewBlockShape DEF Genesis
  <2>2. QED
    BY <1>2, <1>3, <2>1 DEF StartNew
<1>4. ASSUME NEW txs \in Batches, CreateBlock(txs)
      PROVE  ShapeInv'
  <2>1. PICK made : made = BlockOn(FindLatest, txs)
    OBVIOUS
  <2>2. made.block = [f \in BlockFields |-> made.block[f]]
    BY <2>1, NewBlockShape DEF BlockOn
  <2>3. QED
    BY <1>2, <1>4, <2>1, <2>2 DEF CreateBlock
<1>5. CASE created' = created
    BY <1>5 DEF ShapeInv
<1>6. StartNew \/ (\E txs \in Batches : CreateBlock(txs)) \/ created' = created
    BY DEF Next, vars, StartAgain, RestoreState, EmptyTrie, Restored,
           CopyAccount, PutInTrie, BeginCommit, PutAccount, CommitEnd,
           SaveBlock, SaveReceipt, EndBlock, ProduceFails, Crash, ReadBlock,
           EvictHeader
<1>7. QED
    BY <1>3, <1>4, <1>5, <1>6

\* What a stored block says, from the cache or from disk, before and after a
\* restart, is what was made, but for v and how a missing recipient is written.
THEOREM StoredSaysWhatWasMade ==
    ASSUME NullIsNoBlock
    PROVE  Spec => []FoundAsMade
<1>1. StoreInv /\ ShapeInv => FoundAsMade
  <2> SUFFICES ASSUME StoreInv, ShapeInv, NEW n \in DOMAIN chaindata.H
               PROVE  Said(FindByHash(chaindata.H[n])) =
                      Said(CreatedAt(chaindata.H[n]).block)
    BY DEF FoundAsMade, StoredHashes
  <2>0. PICK made, txs : /\ made = CreatedAt(chaindata.H[n]).block
                         /\ txs = made.transactions
    OBVIOUS
  <2> DEFINE back == DeserializeBody(SerializeBody(txs))
             Written(body) == [f \in BlockFields |-> IF f = "transactions"
                                                     THEN body ELSE made[f]]
  <2>1. FindByHash(chaindata.H[n]) = Found(made)
    BY <2>0, StoredIsFound DEF StoreInv, StoredBlock
  <2>2. /\ made = [f \in BlockFields |-> made[f]]
        /\ txs \in Batches \cup {<<>>}
    BY <2>0 DEF StoreInv, ChainInv, StoredInv, ShapeInv, TxInv, MadeInv, CreatedAt
  <2>3. Found(made) = Written(back)
    <3>1. \A f \in HeaderFields : GetHeader(made)[f] = made[f]
      BY DEF GetHeader, HeaderFields
    <3>2. QED
      BY <2>0, <3>1 DEF Found, FromHeaderAndBody, GetBody, BlockFields
  <2>4. made = Written(txs)
    BY <2>0, <2>2
  <2>5. ASSUME NEW body
        PROVE  Said(Written(body)) =
               Written([i \in DOMAIN body |-> ButForVAndTo(Shown(body[i]))])
    <3>1. /\ Written(body).transactions = body
          /\ \A list : /\ Written(list).transactions = list
                       /\ [Written(body) EXCEPT !.transactions = list]
                            = Written(list)
      BY DEF BlockFields
    <3>2. \A old, list : [Written(old) EXCEPT !.transactions = list]
                           = Written(list)
      BY DEF BlockFields
    <3> HIDE DEF Written
    <3>3. PICK list : list = [i \in DOMAIN body |-> Shown(body[i])]
      OBVIOUS
    <3>4. BlockJson(Written(body)) = Written(list)
      BY <3>1, <3>3 DEF BlockJson, Shown
    <3>5. DOMAIN list = DOMAIN body
          /\ \A i \in DOMAIN body : list[i] = Shown(body[i])
      BY <3>3
    <3>6. [i \in DOMAIN list |-> ButForVAndTo(list[i])] =
          [i \in DOMAIN body |-> ButForVAndTo(Shown(body[i]))]
      BY <3>5
    <3>7. Said(Written(body)) =
            Written([i \in DOMAIN list |-> ButForVAndTo(list[i])])
      BY <3>1, <3>2, <3>4 DEF Said
    <3>8. QED
      BY <3>6, <3>7
  <2>6. [i \in DOMAIN back |-> ButForVAndTo(Shown(back[i]))] =
          [i \in DOMAIN txs |-> ButForVAndTo(Shown(txs[i]))]
    <3>1. back = [i \in DOMAIN txs |-> ComesBack(txs[i])]
      BY DEF DeserializeBody, SerializeBody, ComesBack
    <3>2. \A i \in DOMAIN txs : ButForVAndTo(Shown(ComesBack(txs[i]))) =
                                ButForVAndTo(Shown(txs[i]))
      BY <2>2, TransactionComesBack
    <3> HIDE DEF back
    <3>3. QED
      BY <3>1, <3>2
  <2> HIDE DEF back, Written
  <2>7. Said(Found(made)) = Said(made)
    BY <2>3, <2>4, <2>5, <2>6
  <2>8. QED
    BY <2>0, <2>1, <2>7
<1>2. Spec => []ShapeInv
    BY StoreInvariant, ShapeStart, ShapeStep, PTL DEF Spec
<1>3. QED
    BY <1>1, <1>2, StoreInvariant, PTL

-----------------------------------------------------------------------------
(* All blocks of the chain *)

\* A range in which every number has a block is answered in full.
LEMMA RangeIsFound ==
    ASSUME NEW n \in Nat \ {0}, \A i \in 0..(n - 1) : FindByNumber(i) # None
    PROVE  FindByRange(0, n - 1) = [i \in 1..n |-> FindByNumber(i - 1)]
<1>1. PICK block : block = [i \in 0..(n - 1) |-> FindByNumber(i)]
    OBVIOUS
<1> DEFINE Next1(f, m) == IF m = 0 THEN <<>>
                          ELSE LET b == FindByNumber(0 + m - 1)
                               IN  IF b = None THEN f[m - 1]
                                               ELSE Append(f[m - 1], b)
           Fits(f) == f = [m \in 0..(n - 1 - 0 + 1) |-> Next1(f, m)]
           First(m) == [i \in 1..m |-> block[i - 1]]
           found == CHOOSE f : Fits(f)
<1>2. /\ 0..(n - 1 - 0 + 1) = 0..n /\ n - 1 - 0 + 1 = n
      /\ \A m \in 0..n : m # 0 => m - 1 \in 0..(n - 1) /\ 0 + m - 1 = m - 1
    OBVIOUS
<1>3. First(0) = <<>>
    OBVIOUS
<1>4. ASSUME NEW m \in 1..n
      PROVE  First(m) = Append(First(m - 1), block[m - 1])
  <2>1. PICK k \in Nat : k = m - 1 /\ m = k + 1
    OBVIOUS
  <2>2. PICK s, e : s = [i \in 1..k |-> block[i - 1]] /\ e = block[k]
    OBVIOUS
  <2>3. PICK S : S = {s[i] : i \in 1..k}
    OBVIOUS
  <2>4. s \in Seq(S) /\ Len(s) = k
    BY <2>2, <2>3
  <2>5. /\ Append(s, e) \in Seq(S \cup {e}) /\ Len(Append(s, e)) = k + 1
        /\ Append(s, e)[k + 1] = e
        /\ \A i \in 1..k : Append(s, e)[i] = s[i]
    BY <2>4, LastIsAppended
  <2>6. \A i \in 1..(k + 1) : Append(s, e)[i] = block[i - 1]
    BY <2>2, <2>5
  <2> HIDE DEF First
  <2>7. Append(s, e) = [i \in 1..(k + 1) |-> Append(s, e)[i]]
    <3>1. PICK a, T : a = Append(s, e) /\ T = S \cup {e}
      OBVIOUS
    <3>2. a \in Seq(T) /\ Len(a) = k + 1
      BY <2>5, <3>1
    <3>3. a \in [1..(k + 1) -> T]
      BY <3>2
    <3>4. a = [i \in 1..(k + 1) |-> a[i]]
      BY <3>3
    <3>5. QED
      BY <3>1, <3>4
  <2>8. Append(s, e) = [i \in 1..(k + 1) |-> block[i - 1]]
    BY <2>6, <2>7
  <2>9. First(m) = Append(s, e)
    BY <2>1, <2>8 DEF First
  <2>10. First(m - 1) = s /\ block[m - 1] = e
    BY <2>1, <2>2 DEF First
  <2>11. QED
    BY <2>9, <2>10
<1>5. \A f : \A m \in 1..n : Next1(f, m) = Append(f[m - 1], block[m - 1])
    BY <1>1, <1>2
<1>6. \A f : Next1(f, 0) = <<>>
    OBVIOUS
<1> HIDE DEF Next1, First
<1>7. Fits([m \in 0..n |-> First(m)])
  <2>1. PICK h : h = [m \in 0..n |-> First(m)]
    OBVIOUS
  <2>2. \A m \in 0..n : h[m] = Next1(h, m)
    <3> TAKE m \in 0..n
    <3>1. CASE m = 0
      BY <1>3, <1>6, <2>1, <3>1
    <3>2. CASE m # 0
      <4>1. m \in 1..n /\ m - 1 \in 0..n
        BY <3>2
      <4>2. h[m] = Append(h[m - 1], block[m - 1])
        BY <1>4, <2>1, <4>1
      <4>3. QED
        BY <1>5, <4>1, <4>2
    <3>3. QED
      BY <3>1, <3>2
  <2>3. h = [m \in 0..n |-> Next1(h, m)]
    BY <2>1, <2>2
  <2>4. QED
    BY <1>2, <2>1, <2>3
<1>8. Fits(found)
    BY <1>7
<1>9. FindByRange(0, n - 1) = found[n - 1 - 0 + 1]
    BY DEF FindByRange, Next1
<1>10. \A m \in 0..n : found[m] = Next1(found, m)
    BY <1>2, <1>8
<1> HIDE DEF found, Fits
<1>11. found[n] = First(n)
  <2> DEFINE S == {m \in Nat : m <= n => found[m] = First(m)}
  <2>1. 0 \in S
    BY <1>3, <1>6, <1>10
  <2>2. ASSUME NEW m \in Nat, m < n, m \in S
        PROVE  m + 1 \in S
    <3>1. m + 1 \in 1..n /\ m + 1 \in 0..n /\ (m + 1) - 1 = m
      BY <2>2
    <3>2. found[m] = First(m)
      BY <2>2
    <3>3. found[m + 1] = Append(found[m], block[m])
      BY <1>5, <1>10, <3>1
    <3>4. First(m + 1) = Append(First(m), block[m])
      BY <1>4, <3>1
    <3>5. QED
      BY <3>2, <3>3, <3>4
  <2> HIDE DEF S
  <2>3. n \in S
    BY <2>1, <2>2, Up
  <2>4. QED
    BY <2>3 DEF S
<1>12. First(n) = [i \in 1..n |-> FindByNumber(i - 1)]
    BY <1>1 DEF First
<1>13. QED
    BY <1>2, <1>9, <1>11, <1>12

\* The stored blocks are one chain, and findAll answers all of it.
THEOREM StoredIsFoundWhole ==
    ASSUME NullIsNoBlock
    PROVE  Spec => []ChainIsLinked
<1>1. StoreInv /\ BlocksAreLinked => ChainIsLinked
  <2> SUFFICES ASSUME StoreInv, BlocksAreLinked
               PROVE  ChainIsLinked
    OBVIOUS
  <2>1. Count \in Nat
    BY CountIsHeight
  <2>2. PICK n \in Nat : n = Count
    BY <2>1
  <2>3. \A i \in 0..(n - 1) : FindByNumber(i) # None
    BY <2>2 DEF BlocksAreLinked
  <2>4. CASE n = 0
    BY <2>2, <2>4 DEF ChainIsLinked, FindAll
  <2>5. CASE n # 0
    BY <2>2, <2>3, <2>5, RangeIsFound DEF ChainIsLinked, FindAll
  <2>6. QED
    BY <2>4, <2>5
<1>2. QED
    BY <1>1, StoredIsAChain, StoreInvariant, PTL

-----------------------------------------------------------------------------
(* The accounts of the stored chain *)

GenesisState == [a \in Acct |-> [NewAccount EXCEPT !.alloc = 1]]

\* The accounts after each of n blocks with these transactions.
Replay(states, txs, n) ==
    states = [m \in 0..n |->
                 IF m = 0 THEN NoAccounts
                 ELSE IF m = 1 THEN GenesisState
                 ELSE AfterBlock(states[m - 1], txs[m - 1])]

\* The equations of a replay have a solution, by counting up the blocks.
LEMMA ReplayIsThere ==
    ASSUME NEW n \in Nat, NEW txs
    PROVE  \E states : Replay(states, txs, n)
<1> DEFINE S == {k \in Nat : \E states : Replay(states, txs, k)}
<1>1. 0 \in S
  <2>1. PICK f : f = [m \in 0..0 |-> NoAccounts]
    OBVIOUS
  <2>2. Replay(f, txs, 0)
    BY <2>1 DEF Replay
  <2>3. QED
    BY <2>2
<1>2. ASSUME NEW k \in Nat, k \in S
      PROVE  k + 1 \in S
  <2>1. PICK f : Replay(f, txs, k)
    BY <1>2
  <2>2. PICK last : last = IF k = 0 THEN GenesisState
                                    ELSE AfterBlock(f[k], txs[k])
    OBVIOUS
  <2>3. PICK h : h = [m \in 0..(k + 1) |-> IF m = k + 1 THEN last ELSE f[m]]
    OBVIOUS
  <2>4. \A m \in 0..k : h[m] = f[m]
    BY <2>3
  <2>5. \A m \in 0..(k + 1) :
            h[m] = IF m = 0 THEN NoAccounts
                   ELSE IF m = 1 THEN GenesisState
                   ELSE AfterBlock(h[m - 1], txs[m - 1])
    <3> TAKE m \in 0..(k + 1)
    <3>1. CASE m = k + 1
      <4>1. m # 0 /\ m - 1 = k /\ (m = 1 <=> k = 0) /\ h[m] = last
        BY <2>3, <3>1
      <4>2. h[m - 1] = f[k]
        BY <2>4, <4>1
      <4>3. QED
        BY <2>2, <4>1, <4>2
    <3>2. CASE m # k + 1
      <4>1. m \in 0..k /\ (m # 0 => m - 1 \in 0..k)
        BY <3>2
      <4>2. f[m] = IF m = 0 THEN NoAccounts
                   ELSE IF m = 1 THEN GenesisState
                   ELSE AfterBlock(f[m - 1], txs[m - 1])
        BY <2>1, <4>1 DEF Replay
      <4>3. QED
        BY <2>4, <4>1, <4>2
    <3>3. QED
      BY <3>1, <3>2
  <2>6. h = [m \in 0..(k + 1) |-> h[m]]
    BY <2>3
  <2>7. Replay(h, txs, k + 1)
    BY <2>5, <2>6 DEF Replay
  <2>8. QED
    BY <2>7
<1> HIDE DEF S
<1>3. n \in S
    BY <1>1, <1>2, Up
<1>4. QED
    BY <1>3 DEF S

\* It does not depend on later blocks.
LEMMA ReplayIsOne ==
    ASSUME NEW n \in Nat, NEW k \in Nat, n <= k,
           NEW f, NEW txs, Replay(f, txs, n),
           NEW g, NEW more, Replay(g, more, k),
           \A m \in 0..(n - 1) : more[m] = txs[m]
    PROVE  g[n] = f[n]
<1> DEFINE S == {m \in Nat : m <= n => g[m] = f[m]}
<1>1. 0 \in S
    BY DEF Replay
<1>2. ASSUME NEW m \in Nat, m < n, m \in S
      PROVE  m + 1 \in S
  <2>1. /\ m + 1 \in 0..n /\ m + 1 \in 0..k /\ (m + 1) - 1 = m /\ m + 1 # 0
        /\ m \in 0..(n - 1)
    BY <1>2
  <2>2. f[m] = g[m] /\ txs[m] = more[m]
    BY <1>2, <2>1
  <2>3. /\ f[m + 1] = IF m + 1 = 1 THEN GenesisState ELSE AfterBlock(f[m], txs[m])
        /\ g[m + 1] = IF m + 1 = 1 THEN GenesisState ELSE AfterBlock(g[m], more[m])
    BY <2>1 DEF Replay
  <2>4. QED
    BY <2>2, <2>3
<1> HIDE DEF S
<1>3. n \in S
    BY <1>1, <1>2, Up
<1>4. QED
    BY <1>3 DEF S

StoredTransactions ==
    [m \in 0..(Height - 1) |-> StoredBlock(m).transactions]

\* Replayed, chosen to solve them, is the replay of the stored blocks.
LEMMA ReplayedIsReplay ==
    ASSUME NullIsNoBlock, StoreInv
    PROVE  \E f : Replay(f, StoredTransactions, Height) /\ Replayed = f[Height]
<1> DEFINE After(f, m) ==
               IF m = 0 THEN NoAccounts
               ELSE IF m = 1
               THEN [a \in Acct |-> [NewAccount EXCEPT !.alloc = 1]]
               ELSE LET txs == CreatedAt(chaindata.H[m - 1]).block.transactions
                    IN  Run(f[m - 1], txs)[Len(txs) + 1]
           Fits(f) == f = [m \in 0..Count |-> After(f, m)]
           state == CHOOSE f : Fits(f)
<1>1. Count = Height /\ Height \in Nat
    BY CountIsHeight
<1>2. ASSUME NEW f, NEW m \in 0..Height
      PROVE  After(f, m) = IF m = 0 THEN NoAccounts
                           ELSE IF m = 1 THEN GenesisState
                           ELSE AfterBlock(f[m - 1], StoredTransactions[m - 1])
  <2>1. m # 0 => m - 1 \in 0..(Height - 1)
    BY <1>1
  <2>2. m # 0 => StoredTransactions[m - 1] =
                    CreatedAt(chaindata.H[m - 1]).block.transactions
    BY <2>1 DEF StoredTransactions, StoredBlock
  <2>3. QED
    BY <2>2 DEF AfterBlock, GenesisState
<1>3. Replayed = state[Count]
    BY DEF Replayed
<1> HIDE DEF After
<1>4. \A f : Fits(f) <=> Replay(f, StoredTransactions, Height)
    BY <1>1, <1>2 DEF Replay
<1>5. \E f : Fits(f)
    BY <1>1, <1>4, ReplayIsThere
<1>6. Fits(state)
    BY <1>5
<1> HIDE DEF Fits, state
<1>7. QED
    BY <1>1, <1>3, <1>4, <1>6

\* What the next block makes of the accounts of the chain.
NextState == IF Height = 0 THEN GenesisState
                           ELSE AfterBlock(Replayed, Made.block.transactions)

\* Unless a crash or failed write struck halfway: what a block did is on disk, in the journal
\* or not begun, and accounts that it does not change are those of the chain.
ReplayInv ==
    "halfCommit" \notin faults =>
        /\ Replayed \in States
        /\ step \in {"idle", "made", "receipts"} => accounts = Replayed
        /\ step = "made" => Merged(accounts, Made.journal) = NextState
        /\ step \in {"committing", "saving"} =>
              /\ Merged(accounts, unsaved) = NextState
              /\ \A a \in Acct :
                    /\ unsaved[a] # None => Made.journal[a] # None
                    /\ Made.journal[a] = None \/ unsaved[a] # None
                          => accounts[a] = Replayed[a]

\* As long as the chain is the same its accounts are, and the block that is
\* saved makes of them what it has made of those on disk.
LEMMA ReplayGoesOn ==
    ASSUME NullIsNoBlock
    PROVE  /\ StoreInv /\ StoreInv' /\ StoredStays /\ Height' = Height
                => Replayed' = Replayed
           /\ StoreInv /\ StoreInv' /\ StoredStays /\ SaveBlock
                => Replayed' = NextState
<1> DEFINE Replays(r, txs, n) == \E f : Replay(f, txs, n) /\ r = f[n]
           Here == Replays(Replayed, StoredTransactions, Height)
<1>1. StoreInv => Here
    BY ReplayedIsReplay
<1> HIDE DEF Here
<1>2. StoreInv' => Here'
    BY <1>1, PTL
<1> USE DEF Here
<1>3. SUFFICES ASSUME StoreInv, StoreInv', StoredStays
               PROVE  /\ Height' = Height => Replayed' = Replayed
                      /\ SaveBlock => Replayed' = NextState
    OBVIOUS
<1>4. PICK f : Replay(f, StoredTransactions, Height) /\ Replayed = f[Height]
    BY <1>1, <1>3
<1>5. PICK more, k, r : more = StoredTransactions' /\ k = Height' /\ r = Replayed'
    OBVIOUS
<1>6. PICK g : Replay(g, more, k) /\ r = g[k]
    BY <1>2, <1>3, <1>5
<1>7. /\ Height \in Nat /\ k \in Nat
      /\ DOMAIN chaindata.H = 0..(Height - 1) /\ DOMAIN chaindata'.H = 0..(k - 1)
    BY <1>3, <1>5 DEF StoreInv, ChainInv, ChaindataInv
<1>8. ASSUME Height <= k
      PROVE  \A m \in 0..(Height - 1) : more[m] = StoredTransactions[m]
    BY <1>3, <1>5, <1>7, <1>8 DEF StoredTransactions, StoredStays
<1>9. ASSUME Height' = Height
      PROVE  Replayed' = Replayed
    BY <1>4, <1>5, <1>6, <1>7, <1>8, <1>9, ReplayIsOne
<1>10. ASSUME SaveBlock
       PROVE  Replayed' = NextState
  <2>1. /\ k = Height + 1
        /\ \A n : n = Height => StoredBlock(n)' = Made.block
    BY <1>3, <1>5, <1>10, ChainGrows DEF StoreInv
  <2>2. g[Height] = f[Height]
    BY <1>4, <1>6, <1>7, <1>8, <2>1, ReplayIsOne
  <2>3. more[Height] = Made.block.transactions
    <3>1. Height \in 0..(k - 1)
      BY <1>7, <2>1
    <3>2. more = [m \in 0..(k - 1) |-> StoredBlock(m)'.transactions]
      BY <1>5 DEF StoredTransactions
    <3>3. PICK n : n = Height
      OBVIOUS
    <3>4. StoredBlock(n)' = Made.block
      BY <2>1, <3>3
    <3>5. more[n] = StoredBlock(n)'.transactions
      BY <3>1, <3>2, <3>3
    <3>6. QED
      BY <3>3, <3>4, <3>5
  <2>4. g[k] = IF k = 1 THEN GenesisState ELSE AfterBlock(g[Height], more[Height])
    <3>1. k \in 0..k /\ k # 0 /\ k - 1 = Height
      BY <1>7, <2>1
    <3>2. QED
      BY <1>6, <3>1 DEF Replay
  <2>5. k = 1 <=> Height = 0
    BY <1>7, <2>1
  <2>6. QED
    BY <1>4, <1>5, <1>6, <2>2, <2>3, <2>4, <2>5 DEF NextState
<1>11. QED
    BY <1>9, <1>10

\* An empty chain makes no accounts, and none are on disk.
LEMMA ReplayStart ==
    ASSUME NullIsNoBlock
    PROVE  Init => ReplayInv
<1> SUFFICES ASSUME Init
             PROVE  ReplayInv
    OBVIOUS
<1>1. StoreInv
    BY StoreStart, RootStart DEF StoreInv
<1>2. PICK f : Replay(f, StoredTransactions, Height) /\ Replayed = f[Height]
    BY <1>1, ReplayedIsReplay
<1>3. Height = 0 /\ step = "idle" /\ accounts = NoAccounts
    BY DEF Init, NoChaindata, Height
<1>4. Replayed = NoAccounts
    BY <1>2, <1>3 DEF Replay
<1>5. QED
    BY <1>3, <1>4 DEF ReplayInv, States, NoAccounts

\* The chain is only made longer by saveBlock.
LEMMA HeightStays ==
    ASSUME StoreInv, [Next]_vars
    PROVE  SaveBlock \/ Height' = Height
<1>1. CASE SaveReceipt
  <2>1. PICK r : chaindata' = [chaindata EXCEPT !.r = r]
    BY <1>1 DEF SaveReceipt
  <2>2. chaindata'.last = chaindata.last /\ chaindata'.n = chaindata.n
    BY <2>1 DEF StoreInv, ChainInv, ChaindataInv
  <2>3. QED
    BY <2>2 DEF Height
<1>2. CASE chaindata' = chaindata
    BY <1>2 DEF Height
<1>3. SaveBlock \/ SaveReceipt \/ chaindata' = chaindata
    BY DEF Next, vars, disk, StartAgain, StartNew, RestoreState, EmptyTrie,
           Restored, CopyAccount, PutInTrie, CreateBlock, BeginCommit,
           PutAccount, CommitEnd, EndBlock, ProduceFails, Crash, ReadBlock,
           EvictHeader
<1>4. QED
    BY <1>1, <1>2, <1>3

\* A block is made on the accounts of the chain.
LEMMA ReplayCreates ==
    ASSUME NullIsNoBlock, StoreInv, AppliedInv, ReplayInv,
           Replayed' = Replayed, Height' = Height,
           StartNew \/ \E txs \in Batches : CreateBlock(txs)
    PROVE  ReplayInv'
<1>1. IsSequence(created)
    BY DEF StoreInv, ChainInv
<1>2. accounts' = accounts /\ faults' = faults /\ step = "idle"
    BY DEF StartNew, CreateBlock, disk, StoreInv, RootInv, TypeOK
<1>3. SUFFICES ASSUME "halfCommit" \notin faults
               PROVE  ReplayInv'
    BY <1>2 DEF ReplayInv
<1>4. Replayed \in States /\ accounts = Replayed
    BY <1>2, <1>3 DEF ReplayInv
<1>5. CASE StartNew
  <2>1. PICK made : made = Genesis
    OBVIOUS
  <2>2. /\ created' = Append(created, made) /\ unsaved' = made.journal
        /\ step' = "committing" /\ FindByNumber(0) = None
    BY <1>5, <2>1 DEF StartNew
  <2>3. Made' = made
    BY <1>1, <2>2, SequenceIsAppended DEF Made
  <2>4. Height = 0
    <3>1. ASSUME NEW n \in DOMAIN chaindata.H
          PROVE  FindByNumber(n) # None
      BY StoredIsFound DEF StoreInv, NullIsNoBlock, Found
    <3>2. QED
      BY <2>2, <3>1 DEF StoreInv, ChainInv, ChaindataInv
  <2>5. accounts = NoAccounts
    <3>1. PICK f : Replay(f, StoredTransactions, Height) /\ Replayed = f[Height]
      BY ReplayedIsReplay
    <3>2. QED
      BY <1>4, <2>4, <3>1 DEF Replay
  <2>6. made.journal = GenesisState
    <3>1. \A a \in Acct : Account(accounts, a) = NewAccount
      BY <2>5 DEF Account, NoAccounts
    <3>2. [NewAccount EXCEPT !.alloc = @ + 1] = [NewAccount EXCEPT !.alloc = 1]
      BY DEF NewAccount
    <3>3. made.journal = [a \in Acct |-> [Account(accounts, a) EXCEPT !.alloc = @ + 1]]
      BY <2>1 DEF Genesis, Endowed
    <3> HIDE DEF NewAccount
    <3>4. QED
      BY <3>1, <3>2, <3>3 DEF GenesisState
  <2>7. \A a \in Acct : GenesisState[a] # None
    <3>1. \A a \in Acct : GenesisState[a] \in [alloc : Nat, nonce : Nat, received : Nat]
      BY DEF GenesisState, NewAccount
    <3>2. QED
      BY <3>1, ChainStoreAssumption
  <2>8. Merged(accounts, GenesisState) = GenesisState
    BY <2>7 DEF Merged, GenesisState
  <2>9. Merged(accounts, unsaved)' = GenesisState
    BY <1>2, <2>2, <2>6, <2>8 DEF Merged
  <2>10. QED
    BY <1>2, <1>4, <2>2, <2>3, <2>4, <2>6, <2>7, <2>9 DEF ReplayInv, NextState
<1>6. ASSUME NEW txs \in Batches, CreateBlock(txs)
      PROVE  ReplayInv'
  <2>1. PICK made : made = BlockOn(FindLatest, txs)
    OBVIOUS
  <2>2. created' = Append(created, made) /\ step' = "made"
    BY <1>6, <2>1 DEF CreateBlock
  <2>3. Made' = made
    BY <1>1, <2>2, SequenceIsAppended DEF Made
  <2>4. made.block.transactions = txs
    BY <2>1 DEF BlockOn, NewBlock
  <2>5. Merged(accounts, made.journal) = AfterBlock(accounts, txs)
    BY <2>1, BlockIsDone DEF AppliedInv, AfterBlock
  <2>6. Height # 0
    BY <1>6 DEF CreateBlock, StoreInv, MakingInv
  <2>7. /\ Merged(accounts, Made.journal)' = Merged(accounts, made.journal)
        /\ NextState' = AfterBlock(Replayed, txs)
    BY <1>2, <2>3, <2>4, <2>6 DEF Merged, NextState
  <2>8. QED
    BY <1>2, <1>4, <2>2, <2>5, <2>7 DEF ReplayInv
<1>7. QED
    BY <1>5, <1>6

\* What is not in the journal any more is on disk.
LEMMA ReplayCommits ==
    ASSUME StoreInv, AppliedInv, ReplayInv, Replayed' = Replayed,
           Height' = Height, BeginCommit \/ PutAccount
    PROVE  ReplayInv'
<1>1. Made' = Made /\ NextState' = NextState /\ faults' = faults
    BY DEF BeginCommit, PutAccount, Made, NextState
<1>2. SUFFICES ASSUME "halfCommit" \notin faults
               PROVE  ReplayInv'
    BY <1>1 DEF ReplayInv
<1>3. CASE BeginCommit
  <2>1. /\ step = "made" /\ step' = "committing"
        /\ unsaved' = Made.journal /\ accounts' = accounts
    BY <1>3 DEF BeginCommit, disk
  <2>2. Merged(accounts, unsaved)' = Merged(accounts, Made.journal)
    BY <2>1 DEF Merged
  <2>3. QED
    BY <1>1, <1>2, <2>1, <2>2 DEF ReplayInv
<1>4. CASE PutAccount
  <2>1. /\ putting \in Acct /\ unsaved[putting] # None /\ step = "committing"
    BY <1>4 DEF PutAccount, StoreInv, RootInv, TypeOK
  <2>2. /\ accounts' = [accounts EXCEPT ![putting] = unsaved[putting]]
        /\ unsaved' = [unsaved EXCEPT ![putting] = None]
        /\ step' = step
    BY <1>4 DEF PutAccount
  <2>3. \A a \in Acct : /\ accounts'[a] = IF a = putting THEN unsaved[a]
                                                        ELSE accounts[a]
                        /\ unsaved'[a] = IF a = putting THEN None ELSE unsaved[a]
    BY <2>1, <2>2 DEF AppliedInv, States
  <2>4. Merged(accounts, unsaved)' = Merged(accounts, unsaved)
    <3>1. \A a \in Acct :
              (IF unsaved'[a] = None THEN accounts'[a] ELSE unsaved'[a]) =
              (IF unsaved[a] = None THEN accounts[a] ELSE unsaved[a])
      BY <2>1, <2>3
    <3>2. QED
      BY <3>1 DEF Merged
  <2>5. QED
    BY <1>1, <1>2, <2>1, <2>2, <2>3, <2>4 DEF ReplayInv
<1>5. QED
    BY <1>3, <1>4

\* The accounts of a block that is saved are on disk.
LEMMA ReplaySaves ==
    ASSUME StoreInv, AppliedInv, ReplayInv, SaveBlock, Replayed' = NextState
    PROVE  ReplayInv'
<1>1. /\ UNCHANGED <<accounts, faults>>
      /\ step = "saving" /\ step' \in {"idle", "receipts"}
    BY DEF SaveBlock
<1>2. unsaved = NoAccounts
    BY <1>1 DEF StoreInv, RootInv, TypeOK
<1>3. Merged(accounts, unsaved) = accounts
    BY <1>2, NothingMerged DEF AppliedInv
<1>4. QED
    BY <1>1, <1>3 DEF ReplayInv, AppliedInv

\* A block whose accounts are not saved, or are not all, is given up.
LEMMA ReplayFails ==
    ASSUME StoreInv, AppliedInv, ReplayInv, Replayed' = Replayed,
           ProduceFails \/ Crash
    PROVE  ReplayInv'
<1>1. /\ step' = "idle" /\ accounts' = accounts
      /\ "halfCommit" \notin faults' => "halfCommit" \notin faults /\ ~HalfCommitted
    BY DEF ProduceFails, Crash, disk
<1>2. SUFFICES ASSUME "halfCommit" \notin faults, ~HalfCommitted
               PROVE  Replayed \in States /\ accounts = Replayed
    BY <1>1 DEF ReplayInv
<1>3. Replayed \in States /\ accounts \in States
    BY <1>2 DEF ReplayInv, AppliedInv
<1>4. CASE step \in {"committing", "saving"}
  <2>1. \A a \in Acct : accounts[a] = Replayed[a]
    BY <1>2, <1>4 DEF ReplayInv, HalfCommitted
  <2>2. QED
    BY <1>3, <2>1 DEF States
<1>5. CASE step \notin {"committing", "saving"}
    BY <1>2, <1>3, <1>5 DEF ReplayInv, StoreInv, RootInv, TypeOK, Steps
<1>6. QED
    BY <1>4, <1>5

\* Steps that touch neither accounts nor journal.
LEMMA ReplayRests ==
    ASSUME ReplayInv, Replayed' = Replayed, Height' = Height,
           \/ StartAgain \/ RestoreState \/ EmptyTrie \/ Restored
           \/ \E a \in Acct : CopyAccount(a) \/ PutInTrie(a)
           \/ CommitEnd \/ SaveReceipt \/ EndBlock
           \/ \E hash \in DOMAIN chaindata.n : ReadBlock(hash)
           \/ \E hash \in DOMAIN headerCache : EvictHeader(hash)
           \/ UNCHANGED vars
    PROVE  ReplayInv'
<1>1. /\ UNCHANGED <<accounts, created, unsaved, faults>>
      /\ \/ step' = step
         \/ step = "committing" /\ step' = "saving"
         \/ step = "receipts" /\ step' = "idle"
    BY DEF disk, trieVars, bootVars, commitVars, StartAgain, RestoreState,
           EmptyTrie, Restored, CopyAccount, PutInTrie, CommitEnd, SaveReceipt,
           EndBlock, ReadBlock, EvictHeader, vars
<1>2. /\ Made' = Made /\ NextState' = NextState
      /\ Merged(accounts, unsaved)' = Merged(accounts, unsaved)
      /\ Merged(accounts, Made.journal)' = Merged(accounts, Made.journal)
    BY <1>1 DEF Made, NextState, Merged
<1>3. QED
    BY <1>1, <1>2 DEF ReplayInv

\* The invariant about accounts and the replayed chain is kept by every
\* step.
LEMMA ReplayStep ==
    ASSUME NullIsNoBlock
    PROVE  StoreInv /\ StoreInv' /\ StoredStays /\ AppliedInv /\ ReplayInv
             /\ [Next]_vars => ReplayInv'
<1> SUFFICES ASSUME StoreInv, StoreInv', StoredStays, AppliedInv, ReplayInv,
                    [Next]_vars
             PROVE  ReplayInv'
    OBVIOUS
<1>1. CASE SaveBlock
    BY <1>1, ReplayGoesOn, ReplaySaves
<1>2. CASE ~SaveBlock
  <2>1. Height' = Height /\ Replayed' = Replayed
    BY <1>2, HeightStays, ReplayGoesOn
  <2>2. QED
    BY <1>2, <2>1, ReplayCreates, ReplayCommits, ReplayFails, ReplayRests DEF Next
<1>3. QED
    BY <1>1, <1>2

\* Between blocks the accounts on disk are what executing the stored blocks
\* makes, unless a crash or a failed write struck while those of a block were
\* being stored.
THEOREM AccountsAreReplayed ==
    ASSUME NullIsNoBlock
    PROVE  Spec => []AccountsAreOfTheChain
<1>1. ReplayInv => AccountsAreOfTheChain
    BY DEF ReplayInv, AccountsAreOfTheChain
<1>2. UNCHANGED vars => StoredStays
    BY DEF vars, disk, StoredStays, StoredBlock, StoredReceipts, CreatedAt
<1>3. QED
    BY <1>1, <1>2, StoreInvariant, AppliedInvariant, ReplayStart, ReplayStep, PTL
       DEF Spec

-----------------------------------------------------------------------------
(* The ledger *)

\* What the block that is being made makes of the accounts.
Effect == IF Height = 0 THEN Endowed(Made.before)
                        ELSE AfterBlock(Made.before, Made.block.transactions)

\* The accounts that the block was made on are those on disk until they are
\* stored; then each is as it was or as the block leaves it, and what is not
\* stored is in the journal.
SettledInv ==
    step \in {"made", "committing", "saving"} =>
        /\ Made.before \in States
        /\ Made.block.transactions \in IF Height = 0 THEN {<<>>} ELSE Batches
        /\ IF step = "made"
           THEN /\ Made.before = accounts
                /\ Merged(accounts, Made.journal) = Effect
           ELSE /\ \A a \in Acct : accounts[a] \in {Made.before[a], Effect[a]}
                /\ Merged(accounts, unsaved) = Effect

\* The accounts of genesis.json are in the journal of the first block.
LEMMA GenesisEndows ==
    ASSUME accounts \in States
    PROVE  Merged(accounts, Genesis.journal) = Endowed(accounts)
<1>1. \A a \in Acct : Endowed(accounts)[a] \in AccountType
    BY AccountIsTyped DEF Endowed, AccountType
<1>2. None \notin AccountType
    BY ChainStoreAssumption DEF AccountType
<1>3. Endowed(accounts) = [a \in Acct |-> Endowed(accounts)[a]]
    BY DEF Endowed
<1>4. Genesis.journal = Endowed(accounts)
    BY DEF Genesis
<1> HIDE DEF Endowed
<1>5. QED
    BY <1>1, <1>2, <1>3, <1>4 DEF Merged

\* A block is made on the accounts on disk.
LEMMA SettledCreates ==
    ASSUME NullIsNoBlock, StoreInv, AppliedInv, Height' = Height,
           StartNew \/ \E txs \in Batches : CreateBlock(txs)
    PROVE  SettledInv'
<1>1. IsSequence(created)
    BY DEF StoreInv, ChainInv
<1>2. accounts' = accounts /\ accounts \in States
    BY DEF StartNew, CreateBlock, disk, AppliedInv
<1>3. CASE StartNew
  <2>1. PICK made : made = Genesis
    OBVIOUS
  <2>2. /\ created' = Append(created, made) /\ unsaved' = made.journal
        /\ step' = "committing" /\ FindByNumber(0) = None
    BY <1>3, <2>1 DEF StartNew
  <2>3. Made' = made
    BY <1>1, <2>2, SequenceIsAppended DEF Made
  <2>4. Height = 0
    <3>1. ASSUME NEW n \in DOMAIN chaindata.H
          PROVE  FindByNumber(n) # None
      BY StoredIsFound DEF StoreInv, NullIsNoBlock, Found
    <3>2. QED
      BY <2>2, <3>1 DEF StoreInv, ChainInv, ChaindataInv
  <2>5. made.before = accounts /\ made.block.transactions = <<>>
    BY <2>1 DEF Genesis, NewBlock
  <2>6. Merged(accounts, made.journal) = Endowed(accounts)
    BY <1>2, <2>1, GenesisEndows
  <2>7. Effect' = Endowed(accounts)
    BY <2>3, <2>4, <2>5 DEF Effect
  <2>8. Merged(accounts, unsaved)' = Merged(accounts, made.journal)
    BY <1>2, <2>2 DEF Merged
  <2>9. QED
    BY <1>2, <2>2, <2>3, <2>4, <2>5, <2>6, <2>7, <2>8 DEF SettledInv
<1>4. ASSUME NEW txs \in Batches, CreateBlock(txs)
      PROVE  SettledInv'
  <2>1. PICK made : made = BlockOn(FindLatest, txs)
    OBVIOUS
  <2>2. created' = Append(created, made) /\ step' = "made"
    BY <1>4, <2>1 DEF CreateBlock
  <2>3. Made' = made
    BY <1>1, <2>2, SequenceIsAppended DEF Made
  <2>4. made.block.transactions = txs /\ made.before = accounts
    BY <2>1 DEF BlockOn, NewBlock
  <2>5. Merged(accounts, made.journal) = AfterBlock(accounts, txs)
    BY <2>1, BlockIsDone DEF AppliedInv, AfterBlock
  <2>6. Height # 0
    BY <1>4 DEF CreateBlock, StoreInv, MakingInv
  <2>7. /\ Merged(accounts, Made.journal)' = Merged(accounts, made.journal)
        /\ Effect' = AfterBlock(accounts, txs)
    BY <1>2, <2>3, <2>4, <2>6 DEF Merged, Effect
  <2>8. QED
    BY <1>2, <2>2, <2>3, <2>4, <2>5, <2>6, <2>7 DEF SettledInv
<1>5. QED
    BY <1>3, <1>4

\* An account leaves the journal as the block leaves it on disk.
LEMMA SettledCommits ==
    ASSUME StoreInv, AppliedInv, SettledInv, Height' = Height,
           BeginCommit \/ PutAccount
    PROVE  SettledInv'
<1>1. Made' = Made /\ Effect' = Effect
    BY DEF BeginCommit, PutAccount, Made, Effect
<1>2. CASE BeginCommit
  <2>1. /\ step = "made" /\ step' = "committing"
        /\ unsaved' = Made.journal /\ accounts' = accounts
    BY <1>2 DEF BeginCommit, disk
  <2>2. Merged(accounts, unsaved)' = Merged(accounts, Made.journal)
    BY <2>1 DEF Merged
  <2>3. QED
    BY <1>1, <2>1, <2>2 DEF SettledInv
<1>3. CASE PutAccount
  <2>1. /\ putting \in Acct /\ unsaved[putting] # None /\ step = "committing"
    BY <1>3 DEF PutAccount, StoreInv, RootInv, TypeOK
  <2>2. /\ accounts' = [accounts EXCEPT ![putting] = unsaved[putting]]
        /\ unsaved' = [unsaved EXCEPT ![putting] = None]
        /\ step' = step
    BY <1>3 DEF PutAccount
  <2>3. \A a \in Acct : /\ accounts'[a] = IF a = putting THEN unsaved[a]
                                                        ELSE accounts[a]
                        /\ unsaved'[a] = IF a = putting THEN None ELSE unsaved[a]
    BY <2>1, <2>2 DEF AppliedInv, States
  <2>4. Merged(accounts, unsaved)' = Merged(accounts, unsaved)
    <3>1. \A a \in Acct :
              (IF unsaved'[a] = None THEN accounts'[a] ELSE unsaved'[a]) =
              (IF unsaved[a] = None THEN accounts[a] ELSE unsaved[a])
      BY <2>1, <2>3
    <3>2. QED
      BY <3>1 DEF Merged
  <2>5. Merged(accounts, unsaved) = Effect
    BY <2>1 DEF SettledInv
  <2>6. unsaved[putting] = Effect[putting]
    BY <2>1, <2>5 DEF Merged
  <2>7. \A a \in Acct : accounts'[a] \in {Made.before[a], Effect[a]}
    BY <2>1, <2>3, <2>6 DEF SettledInv
  <2>8. QED
    BY <1>1, <2>1, <2>2, <2>4, <2>5, <2>7 DEF SettledInv
<1>4. QED
    BY <1>2, <1>3

\* The other steps end the making of the block or change none of this.
LEMMA SettledRests ==
    ASSUME StoreInv, SettledInv, Height' = Height \/ SaveBlock,
           \/ StartAgain \/ RestoreState \/ EmptyTrie \/ Restored
           \/ \E a \in Acct : CopyAccount(a) \/ PutInTrie(a)
           \/ CommitEnd \/ SaveBlock \/ SaveReceipt \/ EndBlock
           \/ ProduceFails \/ Crash
           \/ \E hash \in DOMAIN chaindata.n : ReadBlock(hash)
           \/ \E hash \in DOMAIN headerCache : EvictHeader(hash)
           \/ UNCHANGED vars
    PROVE  SettledInv'
<1>1. CASE SaveBlock \/ SaveReceipt \/ EndBlock \/ ProduceFails \/ Crash
  <2>1. step' \notin {"made", "committing", "saving"}
    BY <1>1 DEF SaveBlock, SaveReceipt, EndBlock, ProduceFails, Crash
  <2>2. QED
    BY <2>1 DEF SettledInv
<1>2. CASE ~(SaveBlock \/ SaveReceipt \/ EndBlock \/ ProduceFails \/ Crash)
  <2>1. /\ UNCHANGED <<accounts, created, unsaved>>
        /\ \/ step' = step
           \/ step = "committing" /\ step' = "saving"
    BY <1>2 DEF disk, trieVars, bootVars, commitVars, StartAgain, RestoreState,
           EmptyTrie, Restored, CopyAccount, PutInTrie, CommitEnd, ReadBlock,
           EvictHeader, vars
  <2>2. /\ Height' = Height /\ Made' = Made
        /\ Merged(accounts, unsaved)' = Merged(accounts, unsaved)
        /\ Merged(accounts, Made.journal)' = Merged(accounts, Made.journal)
    BY <1>2, <2>1 DEF Made, Merged
  <2>3. Effect' = Effect
    BY <2>2 DEF Effect
  <2>4. QED
    BY <2>1, <2>2, <2>3 DEF SettledInv
<1>3. QED
    BY <1>1, <1>2

\* Every step keeps it.
LEMMA SettledStep ==
    ASSUME NullIsNoBlock, StoreInv, AppliedInv, SettledInv, [Next]_vars
    PROVE  SettledInv'
<1>1. SaveBlock \/ Height' = Height
    BY HeightStays
<1>2. CASE SaveBlock
    BY <1>2, SettledRests
<1>3. CASE ~SaveBlock
    BY <1>1, <1>3, SettledCreates, SettledCommits, SettledRests DEF Next
<1>4. QED
    BY <1>2, <1>3

\* A sequence that goes on with one more element is the one appended to it.
LEMMA OneMore ==
    ASSUME NEW n \in Nat, NEW s, s = [i \in 1..n |-> s[i]],
           NEW t, t = [i \in 1..(n + 1) |-> t[i]],
           \A i \in 1..n : t[i] = s[i]
    PROVE  /\ Len(s) = n /\ DOMAIN s = 1..n
           /\ Len(t) = n + 1
           /\ t = Append(s, t[n + 1])
<1>1. /\ s \in Seq({s[i] : i \in 1..n}) /\ Len(s) = n /\ DOMAIN s = 1..n
      /\ t \in Seq({t[i] : i \in 1..(n + 1)}) /\ Len(t) = n + 1
    OBVIOUS
<1>2. PICK e, u : e = t[n + 1] /\ u = Append(s, e)
    OBVIOUS
<1>3. IsSequence(s)
    BY <1>1 DEF IsSequence
<1>4. /\ u \in Seq({u[i] : i \in DOMAIN u})
      /\ DOMAIN u = 1..(Len(s) + 1)
      /\ u[Len(s) + 1] = e
      /\ \A i \in DOMAIN s : u[i] = s[i]
    BY <1>2, <1>3, SequenceIsAppended DEF IsSequence
<1>5. u = [i \in 1..(n + 1) |-> u[i]]
  <2>1. PICK all : all = 1..(n + 1)
    OBVIOUS
  <2>2. DOMAIN u = all
    BY <1>1, <1>4, <2>1
  <2>3. u = [i \in all |-> u[i]]
    BY <1>4, <2>2
  <2>4. QED
    BY <2>1, <2>3
<1>6. ASSUME NEW i \in 1..(n + 1)
      PROVE  u[i] = t[i]
  <2>1. CASE i = n + 1
    BY <1>1, <1>2, <1>4, <2>1
  <2>2. CASE i # n + 1
    <3>1. i \in 1..n
      BY <2>2
    <3>2. QED
      BY <1>1, <1>4, <3>1
  <2>3. QED
    BY <2>1, <2>2
<1>7. u = t
    BY <1>5, <1>6
<1>8. QED
    BY <1>1, <1>2, <1>7

\* What readers are shown of a block's header is what was made.
LEMMA ShownFields ==
    ASSUME NEW block, NEW f \in HeaderFields
    PROVE  BlockJson(Found(block))[f] = block[f]
<1>1. PICK found : found = Found(block)
    OBVIOUS
<1>2. f \in DOMAIN found /\ f # "transactions"
    BY <1>1 DEF Found, FromHeaderAndBody, HeaderFields
<1>3. BlockJson(found)[f] = found[f]
    BY <1>2 DEF BlockJson
<1>4. QED
    BY <1>1, <1>3, FoundFields

Entry(n) ==
    [block |-> BlockJson(Found(StoredBlock(n))),
     transactions |-> StoredBlock(n).transactions]

\* The ledger's chain is that of the stored blocks, linked by their hashes.
ChainIsEntries ==
    /\ Height \in Nat
    /\ DOMAIN chaindata.H = 0..(Height - 1)
    /\ StoredChain = [i \in 1..Height |-> Entry(i - 1)]
    /\ \A n \in DOMAIN chaindata.H :
          /\ Entry(n).block.number = n
          /\ Entry(n).block.hash = chaindata.H[n]
          /\ Entry(n).block.parentHash =
                IF n = 0 THEN NoParent ELSE chaindata.H[n - 1]
          /\ \A m \in DOMAIN chaindata.H :
                m # n => chaindata.H[m] # chaindata.H[n]

LEMMA LedgerChain ==
    ASSUME NullIsNoBlock
    PROVE  StoreInv => ChainIsEntries
<1> SUFFICES ASSUME StoreInv
             PROVE  ChainIsEntries
    OBVIOUS
<1>1. Count = Height /\ Height \in Nat
    BY CountIsHeight
<1>2. DOMAIN chaindata.H = 0..(Height - 1)
    BY DEF StoreInv, ChainInv, ChaindataInv
<1>3. StoredChain = [i \in 1..Height |-> Entry(i - 1)]
  <2>1. ASSUME NEW i \in 1..Height
        PROVE  /\ FindByNumber(i - 1) = Found(StoredBlock(i - 1))
               /\ CreatedAt(chaindata.H[i - 1]).block = StoredBlock(i - 1)
    <3>1. i - 1 \in DOMAIN chaindata.H
      BY <1>1, <1>2
    <3>2. QED
      BY <3>1, StoredIsFound DEF StoreInv, StoredBlock
  <2>2. StoredChain = [i \in 1..Height |->
            [block |-> BlockJson(FindByNumber(i - 1)),
             transactions |-> CreatedAt(chaindata.H[i - 1]).block.transactions]]
    BY <1>1 DEF StoredChain
  <2>3. QED
    BY <2>1, <2>2 DEF Entry
<1>4. ASSUME NEW n \in DOMAIN chaindata.H
      PROVE  /\ Entry(n).block.number = n
             /\ Entry(n).block.hash = chaindata.H[n]
             /\ Entry(n).block.parentHash =
                   IF n = 0 THEN NoParent ELSE chaindata.H[n - 1]
  <2>1. PICK block : block = StoredBlock(n)
    OBVIOUS
  <2>2. /\ block.number = n /\ block.hash = chaindata.H[n]
        /\ block.parentHash = IF n = 0 THEN NoParent ELSE chaindata.H[n - 1]
    BY <2>1 DEF StoreInv, ChainInv, StoredInv, CreatedInv, StoredBlock, CreatedAt
  <2>3. {"number", "hash", "parentHash"} \subseteq HeaderFields
    BY DEF HeaderFields
  <2>4. Entry(n).block = BlockJson(Found(block))
    BY <2>1 DEF Entry
  <2>5. QED
    BY <2>2, <2>3, <2>4, ShownFields
<1>5. \A n, m \in DOMAIN chaindata.H : m # n => chaindata.H[m] # chaindata.H[n]
  <2>1. \A n \in DOMAIN chaindata.H : chaindata.n[chaindata.H[n]] = n
    BY DEF StoreInv, ChainInv, StoredInv
  <2>2. QED
    BY <2>1
<1>6. QED
    BY <1>1, <1>2, <1>3, <1>4, <1>5 DEF ChainIsEntries

\* The ledger's view of the block that is being made.
LEMMA LedgerEffect ==
    ASSUME ChainIsEntries, SettledInv, step \in {"committing", "saving"}
    PROVE  /\ Made.block.transactions \in TheLedger!Bodies
           /\ Effect = TheLedger!Effect(Made.block.transactions)
           /\ SettledAccounts = Made.before
<1>1. StoredChain = <<>> <=> Height = 0
  <2>1. DOMAIN StoredChain = 1..Height /\ Height \in Nat
    BY DEF ChainIsEntries
  <2>2. ASSUME Height = 0
        PROVE  StoredChain = <<>>
    <3>1. 1..Height = {}
      BY <2>2
    <3>2. QED
      BY <3>1 DEF ChainIsEntries
  <2>3. ASSUME Height # 0
        PROVE  StoredChain # <<>>
    <3>1. 1 \in DOMAIN StoredChain
      BY <2>1, <2>3
    <3>2. QED
      BY <3>1
  <2>4. QED
    BY <2>2, <2>3
<1>2. SettledAccounts = Made.before
    BY DEF SettledAccounts
<1>3. QED
    BY <1>1, <1>2 DEF SettledInv, Effect, TheLedger!Bodies, TheLedger!Effect

\* The ledger's chain is the same as long as nothing is saved.
LEMMA LedgerChainStays ==
    ASSUME ChainIsEntries, ChainIsEntries', StoredStays, Height' = Height
    PROVE  StoredChain' = StoredChain
<1>1. \A n \in DOMAIN chaindata.H : Entry(n)' = Entry(n)
    BY DEF StoredStays, Entry
<1>2. \A i \in 1..Height : i - 1 \in DOMAIN chaindata.H
    BY DEF ChainIsEntries
<1>3. QED
    BY <1>1, <1>2 DEF ChainIsEntries

\* The block is saved: the ledger grows, and has its effect.
LEMMA LedgerGrows ==
    ASSUME StoreInv, AppliedInv, SettledInv, StoredStays,
           ChainIsEntries, ChainIsEntries', SaveBlock
    PROVE  TheLedger!Grow
<1>1. /\ step = "saving" /\ step' \in {"idle", "receipts"}
      /\ accounts' = accounts
    BY DEF SaveBlock
<1>2. unsaved = NoAccounts
    BY <1>1 DEF StoreInv, RootInv, TypeOK
<1>3. accounts = Effect
    BY <1>1, <1>2, NothingMerged DEF AppliedInv, SettledInv
<1>4. SettledAccounts' = Effect
    BY <1>1, <1>3 DEF SettledAccounts
<1>5. /\ Height \in Nat /\ Height' = Height + 1
      /\ \A n : n = Height => StoredBlock(n)' = Made.block
    BY ChainGrows DEF StoreInv, ChainIsEntries
<1>6. PICK k, s, t, after : /\ k = Height /\ s = StoredChain
                            /\ t = StoredChain' /\ after = Height'
    OBVIOUS
<1>7. /\ k \in Nat /\ s = [i \in 1..k |-> s[i]]
      /\ \A i \in 1..k : s[i] = Entry(i - 1)
    BY <1>5, <1>6 DEF ChainIsEntries
<1>8. /\ t = [i \in 1..(k + 1) |-> t[i]]
      /\ \A i \in 1..(k + 1) : t[i] = Entry(i - 1)'
    BY <1>5, <1>6 DEF ChainIsEntries
<1>9. \A i \in 1..k : t[i] = s[i]
  <2>1. \A n \in DOMAIN chaindata.H : Entry(n)' = Entry(n)
    BY DEF StoredStays, Entry
  <2>2. \A i \in 1..k : i - 1 \in DOMAIN chaindata.H
    BY <1>6 DEF ChainIsEntries
  <2>3. QED
    BY <1>7, <1>8, <2>1, <2>2
<1>10. /\ Len(s) = k /\ DOMAIN s = 1..k /\ Len(t) = k + 1
       /\ t = Append(s, t[k + 1])
    BY <1>7, <1>8, <1>9, OneMore
<1>11. t[k + 1].transactions = Made.block.transactions
  <2>1. t[k + 1] = Entry(k)'
    BY <1>7, <1>8
  <2>2. StoredBlock(k)' = Made.block
    BY <1>5, <1>6
  <2>3. QED
    BY <2>1, <2>2 DEF Entry
<1>12. ASSUME NEW i \in 1..(k + 1)
       PROVE  /\ t[i].block.number = i - 1
              /\ t[i].block.parentHash =
                    IF i = 1 THEN NoParent ELSE t[i - 1].block.hash
              /\ \A j \in 1..(k + 1) : j # i => t[j].block.hash # t[i].block.hash
  <2> DEFINE hashes == chaindata'.H
  <2>1. /\ DOMAIN hashes = 0..k
        /\ \A n \in DOMAIN hashes :
              /\ Entry(n)'.block.number = n
              /\ Entry(n)'.block.hash = hashes[n]
              /\ Entry(n)'.block.parentHash =
                    IF n = 0 THEN NoParent ELSE hashes[n - 1]
              /\ \A m \in DOMAIN hashes : m # n => hashes[m] # hashes[n]
    BY <1>5, <1>6 DEF ChainIsEntries
  <2> HIDE DEF hashes
  <2>2. \A j \in 1..(k + 1) :
            /\ j - 1 \in DOMAIN hashes
            /\ t[j].block.number = j - 1
            /\ t[j].block.hash = hashes[j - 1]
            /\ t[j].block.parentHash =
                  IF j - 1 = 0 THEN NoParent ELSE hashes[j - 1 - 1]
    BY <1>7, <1>8, <2>1
  <2>3. i # 1 => i - 1 \in 1..(k + 1)
    BY <1>7
  <2>4. ASSUME NEW j \in 1..(k + 1), j # i
        PROVE  t[j].block.hash # t[i].block.hash
    <3>1. j - 1 # i - 1
      BY <2>4
    <3>2. /\ i - 1 \in DOMAIN hashes /\ t[i].block.hash = hashes[i - 1]
          /\ j - 1 \in DOMAIN hashes /\ t[j].block.hash = hashes[j - 1]
      BY <2>2
    <3>3. \A n \in DOMAIN hashes : \A m \in DOMAIN hashes :
              m # n => hashes[m] # hashes[n]
      BY <2>1
    <3>4. hashes[j - 1] # hashes[i - 1]
      BY <3>1, <3>2, <3>3, ZenonT(30)
    <3>5. QED
      BY <3>2, <3>4
  <2>5. QED
    BY <2>2, <2>3, <2>4
<1>13. TheLedger!Follows(t[k + 1].block)
  <2>1. k + 1 \in 1..(k + 1) /\ (k + 1) - 1 = k
    BY <1>7
  <2>2. s = <<>> <=> k + 1 = 1
    BY <1>7, <1>10
  <2>3. k # 0 => t[k] = s[k]
    BY <1>7, <1>9
  <2>4. \A i \in 1..k : /\ i \in 1..(k + 1) /\ i # k + 1
                        /\ t[i] = s[i]
    BY <1>7, <1>9
  <2>5. QED
    BY <1>6, <1>10, <1>12, <2>1, <2>2, <2>3, <2>4 DEF TheLedger!Follows
<1>14. /\ Made.block.transactions \in TheLedger!Bodies
       /\ Effect = TheLedger!Effect(Made.block.transactions)
    BY <1>1, LedgerEffect
<1>15. QED
    BY <1>4, <1>6, <1>10, <1>11, <1>13, <1>14 DEF TheLedger!Grow

\* A crash or a failed write while a block's accounts are stored loses the block.
LEMMA LedgerLoses ==
    ASSUME StoreInv, AppliedInv, SettledInv, ChainIsEntries,
           StoredChain' = StoredChain, ProduceFails \/ Crash
    PROVE  \/ TheLedger!Lose
           \/ UNCHANGED <<StoredChain, SettledAccounts>>
<1>1. step' = "idle" /\ accounts' = accounts
    BY DEF ProduceFails, Crash, disk
<1>2. SettledAccounts' = accounts
    BY <1>1 DEF SettledAccounts
<1>3. CASE step \in {"committing", "saving"}
  <2>1. \A a \in Acct : accounts[a] \in {Made.before[a], Effect[a]}
    BY <1>3 DEF SettledInv
  <2>2. DOMAIN accounts = Acct
    BY DEF StoreInv, RootInv, TypeOK
  <2>3. QED
    BY <1>2, <1>3, <2>1, <2>2, LedgerEffect DEF TheLedger!Lose
<1>4. CASE step \notin {"committing", "saving"}
    BY <1>2, <1>4 DEF SettledAccounts
<1>5. QED
    BY <1>3, <1>4

\* No other step shows.
LEMMA LedgerRests ==
    ASSUME StoreInv, SettledInv, [Next]_vars, ~SaveBlock, ~ProduceFails, ~Crash
    PROVE  SettledAccounts' = SettledAccounts
<1>1. CASE StartNew
  <2>1. IsSequence(created)
    BY DEF StoreInv, ChainInv
  <2>2. PICK made : made = Genesis
    OBVIOUS
  <2>3. /\ created' = Append(created, made) /\ made.before = accounts
        /\ step = "idle" /\ step' = "committing"
    BY <1>1, <2>2 DEF StartNew, Genesis, StoreInv, RootInv, TypeOK
  <2>4. Made' = made
    BY <2>1, <2>3, SequenceIsAppended DEF Made
  <2>5. QED
    BY <2>3, <2>4 DEF SettledAccounts
<1>2. CASE BeginCommit
  <2>1. Made' = Made /\ step = "made" /\ step' = "committing"
    BY <1>2 DEF BeginCommit, Made
  <2>2. QED
    BY <2>1 DEF SettledAccounts, SettledInv
<1>3. CASE PutAccount
  <2>1. Made' = Made /\ step = "committing" /\ step' = "committing"
    BY <1>3 DEF PutAccount, Made, StoreInv, RootInv, TypeOK
  <2>2. QED
    BY <2>1 DEF SettledAccounts
<1>4. CASE ~(StartNew \/ BeginCommit \/ PutAccount)
  <2>1. /\ accounts' = accounts
        /\ \/ step' = step /\ Made' = Made
           \/ step = "committing" /\ step' = "saving" /\ Made' = Made
           \/ step = "idle" /\ step' = "made"
           \/ step = "receipts" /\ step' = "idle"
    BY <1>4 DEF Next, vars, disk, trieVars, bootVars, commitVars, StartAgain,
           RestoreState, EmptyTrie, Restored, CopyAccount, PutInTrie,
           CreateBlock, CommitEnd, SaveReceipt, EndBlock, ReadBlock,
           EvictHeader, Made
  <2>2. QED
    BY <2>1 DEF SettledAccounts
<1>5. QED
    BY <1>1, <1>2, <1>3, <1>4

\* Through failed writes and restarts the node is a ledger: its chain only
\* grows by blocks that follow it, each found together with its effect on the accounts
\* in one instant, and all else that is ever done to the accounts is a part of
\* the effect of a block that was lost.
THEOREM StoreIsALedger ==
    ASSUME NullIsNoBlock
    PROVE  Spec => ImplementsLedger
<1>1. StoreInv => ChainIsEntries
    BY LedgerChain
<1>2. Init => TheLedger!LedgerInit
  <2> SUFFICES ASSUME Init
               PROVE  TheLedger!LedgerInit
    OBVIOUS
  <2>1. ChainIsEntries
    BY <1>1, StoreStart, RootStart DEF StoreInv
  <2>2. Height = 0 /\ step = "idle" /\ accounts = NoAccounts
    BY DEF Init, NoChaindata, Height
  <2>3. StoredChain = <<>>
    <3>1. 1..0 = {}
      OBVIOUS
    <3>2. StoredChain = [i \in 1..0 |-> Entry(i - 1)]
      BY <2>1, <2>2 DEF ChainIsEntries
    <3>3. QED
      BY <3>1, <3>2
  <2>4. QED
    BY <2>2, <2>3 DEF TheLedger!LedgerInit, SettledAccounts, NoAccounts
<1>3. Init => SettledInv
    BY DEF Init, SettledInv
<1>4. StoreInv /\ AppliedInv /\ SettledInv /\ [Next]_vars => SettledInv'
    BY SettledStep
<1>5. /\ StoreInv /\ AppliedInv /\ SettledInv /\ StoredStays
      /\ ChainIsEntries /\ ChainIsEntries' /\ [Next]_vars
      => [TheLedger!LedgerNext]_(TheLedger!ledgerVars)
  <2> SUFFICES ASSUME StoreInv, AppliedInv, SettledInv, StoredStays,
                      ChainIsEntries, ChainIsEntries', [Next]_vars
               PROVE  [TheLedger!LedgerNext]_(TheLedger!ledgerVars)
    OBVIOUS
  <2>1. CASE SaveBlock
    BY <2>1, LedgerGrows DEF TheLedger!LedgerNext
  <2>2. CASE ~SaveBlock
    <3>1. StoredChain' = StoredChain
      BY <2>2, HeightStays, LedgerChainStays
    <3>2. CASE ProduceFails \/ Crash
      BY <3>1, <3>2, LedgerLoses DEF TheLedger!LedgerNext, TheLedger!ledgerVars
    <3>3. CASE ~ProduceFails /\ ~Crash
      <4>1. SettledAccounts' = SettledAccounts
        BY <2>2, <3>3, LedgerRests
      <4>2. QED
        BY <3>1, <4>1 DEF TheLedger!ledgerVars
    <3>4. QED
      BY <3>2, <3>3
  <2>3. QED
    BY <2>1, <2>2
<1>6. UNCHANGED vars => StoredStays
    BY DEF vars, disk, StoredStays, StoredBlock, StoredReceipts, CreatedAt
<1>7. Spec => []StoreInv /\ [][StoredStays]_vars
    BY StoreInvariant
<1>8. Spec => []AppliedInv
    BY AppliedInvariant
<1>9. QED
    BY <1>1, <1>2, <1>3, <1>4, <1>5, <1>6, <1>7, <1>8, PTL
       DEF Spec, ImplementsLedger, TheLedger!LedgerSpec
=============================================================================
