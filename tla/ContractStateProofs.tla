------------------------ MODULE ContractStateProofs ------------------------
(***************************************************************************)
(* Theorems about contract code and storage, for every set of contracts,   *)
(* codes, slot values and readers, every cache size, every depth of frames *)
(* and every number of blocks, undone creations and restarts.              *)
(***************************************************************************)
EXTENDS ContractState, BlockExecutionProofs

-----------------------------------------------------------------------------
(* The inductive invariant *)

\* An account that is somewhere other than in the journal: in the cache, in
\* the repository, on its way from it, or on its way to it.
Beneath(a, v) ==
    \/ cache[a] = v
    \/ repo[a] = v
    \/ unsaved[a] = v
    \/ \E r \in Reader : fetch[r].addr = a /\ fetch[r].value = v
    \/ save.addr = a /\ save.value = v

InJournal(a, v) == \E i \in DOMAIN journalStack : journalStack[i][a] = v

\* Everything the node has for an address, wherever it has it.
Known(a) == {v \in Value : Beneath(a, v) \/ InJournal(a, v)}

ContractTypeOK ==
    /\ codeStore \subseteq Code
    /\ accountCode \in [Addr -> codeStore \cup {NoCode}]
    /\ codeOf \in [Addr -> codeStore \cup {NoCode}]
    /\ creating.addr \in Addr \cup {NoEntry}
    /\ evm = Ready \/ evm.addr \in Addr

\* Whatever there is of an account is a contract with a code that is on disk.
\* Unless its constructor runs, the hash kept for the address is the one put
\* last and its own hash is that one or was dropped.
AccountsAreContracts ==
    \A a \in Addr : \A v \in Known(a) :
        /\ v.nonce = 1
        /\ IF creating.addr = a
           THEN v.code = NoCode
           ELSE /\ v.code \in {NoCode, codeOf[a]}
                /\ accountCode[a] = codeOf[a]

\* A contract whose constructor runs is nowhere but in the frame that creates
\* it and in the frames within: undoing that frame undoes all there is of it.
CreationIsInItsFrame ==
    creating.addr # NoEntry =>
        /\ phase = "block"
        /\ creating.frame \in 1..frames
        /\ journalStack[creating.frame + 1][creating.addr] # NoEntry
        /\ \A i \in 1..creating.frame :
               journalStack[i][creating.addr] = NoEntry
        /\ \A v \in Value : ~Beneath(creating.addr, v)

\* While a put is awaited the EVM does nothing else, and the account is in the
\* journal.
EvmWaits ==
    evm # Ready =>
        /\ phase = "block" /\ frames > 0
        /\ \A r \in Reader : fetch[r] = NoFetch
        /\ evm.addr \in Addr
        /\ Merged(journalStack)[evm.addr] # NoEntry
        /\ GetAccount(evm.addr) \in Known(evm.addr)
        /\ evm.step \in {"code", "hash"} =>
               /\ evm.addr = creating.addr
               /\ creating.frame = frames
               /\ evm.code \in codeStore
        /\ evm.step = "hash" => accountCode[evm.addr] = evm.code

CodeInv ==
    /\ TypeInv
    /\ ContractTypeOK
    /\ AccountsAreContracts
    /\ CreationIsInItsFrame
    /\ EvmWaits

\* There is one picture of the slots for what is committed, one for the block
\* and one for each open frame; the innermost one is what the EVM reads.
SlotsInv ==
    /\ TypeInv
    /\ DOMAIN slots = Addr
    /\ written \in Seq([Addr -> Slot \cup {0}])
    /\ Len(written) = IF phase = "idle" THEN 1 ELSE frames + 2
    /\ StorageIsKept

-----------------------------------------------------------------------------
(* What is known of an account *)

\* An account that is found has a value, and one that is not empty is known.
LEMMA GetAccountKnown ==
    ASSUME TypeInv, NEW a \in Addr
    PROVE  /\ GetAccount(a) \in Value
           /\ GetAccount(a) \in Known(a) \cup {EmptyAccount}
<1>t. /\ journalStack \in Seq(Journal)
      /\ cache[a] \in Value \cup {NoEntry}
      /\ repo[a] \in Value \cup {NoAccount}
      /\ NoEntry \notin Value /\ NoAccount \notin Value
    BY ObjectAssumption, MarksAssumption DEF TypeInv, TypeOK, StateTypeOK
<1>e. EmptyAccount \in Value
    BY ContractAssumption DEF EmptyAccount
<1>1. CASE Merged(journalStack)[a] # NoEntry
    <2>1. GetAccount(a) = Merged(journalStack)[a]
        BY <1>1 DEF GetAccount, Lookup
    <2>2. InJournal(a, GetAccount(a))
        BY <1>1, <1>t, <2>1, MergedIsEntry DEF InJournal
    <2>3. Merged(journalStack)[a] \in Value
        BY <1>1, <1>t, MergedType, ObjectAssumption DEF Journal, Entry
    <2>4. QED
        BY <2>1, <2>2, <2>3 DEF Known
<1>2. CASE Merged(journalStack)[a] = NoEntry
    BY <1>t, <1>e, <1>2 DEF GetAccount, Lookup, Known, Beneath
<1>3. QED
    BY <1>1, <1>2

\* Storing an account in an open block changes one entry of the innermost
\* level.
LEMMA PutOne ==
    ASSUME TypeInv, NEW a \in Addr, NEW v \in Value, SetAccount(a, v),
           journalStack # <<>>, UNCHANGED cacheAndRepo
    PROVE  /\ DOMAIN journalStack' = DOMAIN journalStack
           /\ \A i \in DOMAIN journalStack : \A b \in Addr :
                 journalStack'[i][b] =
                     IF i = Len(journalStack) /\ b = a
                     THEN v ELSE journalStack[i][b]
           /\ \A b \in Addr : \A w :
                 Beneath(b, w)' <=> Beneath(b, w)
           /\ \A b \in Addr : Known(b)' \subseteq
                 Known(b) \cup (IF b = a THEN {v} ELSE {})
<1>t. /\ journalStack \in Seq(Journal)
      /\ \A i \in DOMAIN journalStack : journalStack[i] \in [Addr -> Entry]
      /\ Len(journalStack) \in DOMAIN journalStack
    <2>1. journalStack \in Seq(Journal)
        BY DEF TypeInv, TypeOK, StateTypeOK
    <2>2. QED
        BY <2>1 DEF Journal
<1>1. journalStack' = [journalStack EXCEPT ![Len(journalStack)] =
                           [journalStack[Len(journalStack)] EXCEPT ![a] = v]]
    BY DEF SetAccount
<1>2. DOMAIN journalStack' = DOMAIN journalStack
    BY <1>1
<1>3. ASSUME NEW i \in DOMAIN journalStack, NEW b \in Addr
      PROVE  journalStack'[i][b] =
                 IF i = Len(journalStack) /\ b = a
                 THEN v ELSE journalStack[i][b]
    BY <1>1, <1>t
<1>4. \A b \in Addr : \A w : Beneath(b, w)' <=> Beneath(b, w)
    BY DEF Beneath, cacheAndRepo
<1>5. ASSUME NEW b \in Addr, NEW w \in Known(b)'
      PROVE  w \in Known(b) \cup (IF b = a THEN {v} ELSE {})
    BY <1>2, <1>3, <1>4 DEF Known, InJournal
<1>6. QED
    BY <1>2, <1>3, <1>4, <1>5

\* A read puts under the journal only what was there.
LEMMA ReadsBeneath ==
    ASSUME TypeInv, NEW a \in Addr, NEW v \in Value,
           \/ \E r \in Reader, b \in Addr : ReadMiss(r, b)
           \/ \E r \in Reader : ReadReturns(r)
    PROVE  Beneath(a, v)' => Beneath(a, v)
<1>t. /\ NoEntry \notin Value /\ NoAccount \notin Value
      /\ fetch \in [Reader -> [addr : Addr \cup {NoEntry},
                               value : Value \cup {NoAccount}]]
      /\ FetchTyped
    BY ObjectAssumption, MarksAssumption DEF TypeInv, TypeOK, StateTypeOK
<1> SUFFICES ASSUME Beneath(a, v)'
             PROVE  Beneath(a, v)
    OBVIOUS
<1>1. ASSUME NEW r \in Reader, NEW b \in Addr, ReadMiss(r, b)
      PROVE  Beneath(a, v)
    <2>1. /\ UNCHANGED <<cache, repo, unsaved, save>>
          /\ \E w \in {NoAccount, repo[b]} :
                fetch' = [fetch EXCEPT ![r] = [addr |-> b, value |-> w]]
        BY <1>1 DEF ReadMiss, Fetch
    <2>2. ASSUME NEW q \in Reader, fetch'[q].addr = a, fetch'[q].value = v
          PROVE  Beneath(a, v)
        BY <1>t, <2>1, <2>2 DEF Beneath
    <2>3. QED
        BY <2>1, <2>2 DEF Beneath
<1>2. ASSUME NEW r \in Reader, ReadReturns(r)
      PROVE  Beneath(a, v)
    <2>1. /\ UNCHANGED <<repo, unsaved, save>>
          /\ fetch[r] # NoFetch
          /\ fetch' = [fetch EXCEPT ![r] = NoFetch]
          /\ IF fetch[r].value = NoAccount
             THEN UNCHANGED <<cache, cacheKeys>>
             ELSE AddToCache(fetch[r].addr, fetch[r].value)
        BY <1>2 DEF ReadReturns, FetchDone
    <2>2. ASSUME cache'[a] = v
          PROVE  Beneath(a, v)
        <3>1. CASE fetch[r].value = NoAccount
            BY <2>1, <2>2, <3>1 DEF Beneath
        <3>2. CASE fetch[r].value # NoAccount
            <4>1. fetch[r].addr \in Addr /\ fetch[r].value \in Object
                BY <1>t, <2>1, <3>2, ObjectAssumption DEF FetchTyped
            <4>2. /\ cache'[fetch[r].addr] = fetch[r].value
                  /\ a # fetch[r].addr => cache'[a] \in {cache[a], NoEntry}
                BY <2>1, <3>2, <4>1, AddToCacheEntries
            <4>3. QED
                BY <1>t, <2>2, <4>2 DEF Beneath
        <3>3. QED
            BY <3>1, <3>2
    <2>3. ASSUME NEW q \in Reader, fetch'[q].addr = a, fetch'[q].value = v
          PROVE  Beneath(a, v)
        BY <1>t, <2>1, <2>3 DEF Beneath, NoFetch
    <2>4. QED
        BY <2>1, <2>2, <2>3 DEF Beneath
<1>3. QED
    BY <1>1, <1>2

\* A step that changes the journal alone, and puts nothing in it.
LEMMA JournalOnly ==
    ASSUME UNCHANGED cacheAndRepo, NEW a \in Addr,
           \A v \in Value : InJournal(a, v)' => InJournal(a, v)
    PROVE  Known(a)' \subseteq Known(a)
BY DEF Known, Beneath, cacheAndRepo

\* The steps by which nothing is written make nothing known: each value they
\* move was somewhere else before.
LEMMA NothingNew ==
    ASSUME TypeInv, NEW a \in Addr,
           \/ BeginBlock
           \/ OpenFrame
           \/ CommitFrame
           \/ RevertFrame
           \/ \E r \in Reader, b \in Addr : ReadMiss(r, b)
           \/ \E r \in Reader : ReadReturns(r)
           \/ BeginCommit
           \/ \E b \in Addr : SaveAccount(b)
           \/ AccountPersisted
           \/ AccountSaved
           \/ EndCommit
           \/ AbandonBlock
           \/ OtherCached
           \/ OtherCredited
           \/ UNCHANGED vars
    PROVE  Known(a)' \subseteq Known(a)
<1>t. /\ journalStack \in Seq(Journal)
      /\ Len(journalStack) \in Nat
      /\ NoEntry \notin Value /\ NoAccount \notin Value
      /\ cache \in [Addr -> Value \cup {NoEntry}]
      /\ repo \in [Addr -> Value \cup {NoAccount}]
      /\ unsaved \in [Addr -> Value \cup {NoEntry}]
      /\ fetch \in [Reader -> [addr : Addr \cup {NoEntry},
                               value : Value \cup {NoAccount}]]
      /\ FetchTyped /\ SaveMatches
      /\ phase = "block" => Len(journalStack) = frames + 1
      /\ frames \in Nat
    BY ObjectAssumption, MarksAssumption, BlockConstantsAssumption
       DEF TypeInv, TypeOK, StateTypeOK, Journal, Entry
<1>e. \A v \in Value : EmptyJournal[a] # v
    BY <1>t DEF EmptyJournal
<1>1. CASE BeginBlock
    <2>1. \A i \in DOMAIN journalStack' : journalStack'[i] = EmptyJournal
        BY <1>1 DEF BeginBlock, StartBlock
    <2>2. QED
        BY <1>1, <1>e, <2>1, JournalOnly DEF BeginBlock, InJournal
<1>2. CASE OpenFrame
    <2>1. \A i \in DOMAIN journalStack' :
              \/ i \in DOMAIN journalStack /\ journalStack'[i] = journalStack[i]
              \/ journalStack'[i] = EmptyJournal
        BY <1>2, <1>t DEF OpenFrame, Checkpoint
    <2>2. QED
        BY <1>2, <1>e, <2>1, JournalOnly DEF OpenFrame, InJournal
<1>3. CASE CommitFrame
    <2>1. CommitCheckpoint /\ Len(journalStack) > 1 /\ UNCHANGED cacheAndRepo
        BY <1>3, <1>t DEF CommitFrame, cacheAndRepo
    <2>2. ASSUME NEW i \in DOMAIN journalStack'
          PROVE  \E j \in DOMAIN journalStack :
                     journalStack'[i][a] = journalStack[j][a]
        <3>1. i \in 1..(Len(journalStack) - 1)
            BY <1>t, <2>1, CommittedLevels
        <3>2. CASE i = Len(journalStack) - 1
            BY <1>t, <2>1, <3>2, CommittedLevels
        <3>3. CASE i # Len(journalStack) - 1
            BY <1>t, <2>1, <3>1, <3>3, CommittedLevels
        <3>4. QED
            BY <3>2, <3>3
    <2>3. QED
        BY <2>1, <2>2, JournalOnly DEF InJournal
<1>4. CASE RevertFrame
    <2>1. \A i \in DOMAIN journalStack' :
              i \in DOMAIN journalStack /\ journalStack'[i] = journalStack[i]
        BY <1>4, <1>t DEF RevertFrame, RevertCheckpoint, Popped
    <2>2. QED
        BY <1>4, <2>1, JournalOnly DEF RevertFrame, InJournal
<1>5. CASE \/ \E r \in Reader, b \in Addr : ReadMiss(r, b)
           \/ \E r \in Reader : ReadReturns(r)
    <2>1. UNCHANGED journalStack
        BY <1>5 DEF ReadMiss, Fetch, ReadReturns
    <2>2. \A v \in Value : Beneath(a, v)' => Beneath(a, v)
        BY <1>5, ReadsBeneath
    <2>3. QED
        BY <2>1, <2>2 DEF Known, InJournal
<1>6. CASE BeginCommit
    <2>1. /\ UNCHANGED <<journalStack, cache, repo, fetch, save>>
          /\ unsaved' = Merged(journalStack)
        BY <1>6 DEF BeginCommit, CommitStart
    <2>2. \A v \in Value : unsaved'[a] = v => InJournal(a, v)
        BY <1>t, <2>1, MergedIsEntry DEF InJournal
    <2>3. QED
        BY <2>1, <2>2 DEF Known, Beneath, InJournal
<1>7. ASSUME NEW b \in Addr, SaveAccount(b)
      PROVE  Known(a)' \subseteq Known(a)
    <2>1. /\ UNCHANGED <<journalStack, cache, repo, fetch, unsaved>>
          /\ save'.addr = b /\ save'.value = unsaved[b]
        BY <1>7 DEF SaveAccount, Encode
    <2>2. QED
        BY <2>1 DEF Known, Beneath, InJournal
<1>8. CASE AccountPersisted
    <2>1. /\ UNCHANGED <<journalStack, cache, fetch, unsaved>>
          /\ save'.addr = save.addr /\ save'.value = save.value
          /\ repo' = [repo EXCEPT ![save.addr] = save.value]
          /\ save.addr \in Addr
        BY <1>8, <1>t
           DEF AccountPersisted, Persist, TypeInv, TypeOK, StateTypeOK,
               SaveMatches
    <2>2. repo'[a] = IF a = save.addr THEN save.value ELSE repo[a]
        BY <1>t, <2>1
    <2>3. QED
        BY <2>1, <2>2 DEF Known, Beneath, InJournal
<1>9. CASE AccountSaved
    <2>1. /\ UNCHANGED <<journalStack, repo, fetch>>
          /\ save # NoSave /\ save' = NoSave
          /\ AddToCache(save.addr, unsaved[save.addr])
          /\ unsaved' = [unsaved EXCEPT ![save.addr] = NoEntry]
        BY <1>9 DEF AccountSaved, SaveDone
    <2>2. save.addr \in Addr /\ unsaved[save.addr] \in Object
        BY <1>t, <2>1 DEF SaveMatches
    <2>3. /\ cache'[save.addr] = unsaved[save.addr]
          /\ a # save.addr => cache'[a] \in {cache[a], NoEntry}
        BY <2>1, <2>2, AddToCacheEntries
    <2>4. \A v \in Value : cache'[a] = v \/ unsaved'[a] = v => Beneath(a, v)
        BY <1>t, <2>1, <2>2, <2>3 DEF Beneath
    <2>5. \A v \in Value : ~(save'.addr = a /\ save'.value = v)
        BY <1>t, <2>1 DEF NoSave
    <2>6. QED
        BY <2>1, <2>4, <2>5 DEF Known, Beneath, InJournal
<1>10. CASE EndCommit
    BY <1>10 DEF EndCommit, CommitEnd, Known, Beneath, InJournal
<1>11. CASE AbandonBlock
    BY <1>11 DEF AbandonBlock, RollbackBlock, cacheAndRepo, Known, Beneath,
                 InJournal
<1>12. CASE UNCHANGED vars
    BY <1>12 DEF vars, stateVars, Known, Beneath, InJournal
<1>13. CASE OtherCached
    <2>1. UNCHANGED <<journalStack, repo, fetch, unsaved, save>>
        BY <1>13 DEF OtherCached
    <2>2. cache'[a] \in {cache[a], NoEntry}
        BY <1>t, <1>13 DEF OtherCached
    <2>3. QED
        BY <1>t, <2>1, <2>2 DEF Known, Beneath, InJournal
<1>14. CASE OtherCredited
    <2>1. \A i \in DOMAIN journalStack' : journalStack'[i] = EmptyJournal
        BY <1>14 DEF OtherCredited
    <2>2. QED
        BY <1>14, <1>e, <2>1, JournalOnly DEF OtherCredited, InJournal
<1>15. QED
    BY <1>1, <1>2, <1>3, <1>4, <1>5, <1>6, <1>7, <1>8, <1>9, <1>10, <1>11,
       <1>12, <1>13, <1>14

\* What is found is known.
LEMMA LookupKnown ==
    ASSUME TypeInv, NEW a \in Addr, Lookup(a) # NoEntry
    PROVE  GetAccount(a) \in Known(a)
<1>t. /\ journalStack \in Seq(Journal)
      /\ cache[a] \in Value \cup {NoEntry}
      /\ GetAccount(a) \in Value
      /\ GetAccount(a) = Lookup(a)
    BY GetAccountKnown, ObjectAssumption
       DEF TypeInv, TypeOK, StateTypeOK, GetAccount
<1>1. CASE Merged(journalStack)[a] # NoEntry
    <2>1. InJournal(a, GetAccount(a))
        BY <1>1, <1>t, MergedIsEntry DEF InJournal, Lookup
    <2>2. QED
        BY <1>t, <2>1 DEF Known
<1>2. CASE Merged(journalStack)[a] = NoEntry
    BY <1>t, <1>2 DEF Lookup, Known, Beneath
<1>3. QED
    BY <1>1, <1>2

-----------------------------------------------------------------------------
(* The EVM's writes *)

\* setAccount within a frame keeps the types; the stack has a level for it.
LEMMA PutTypes ==
    ASSUME TypeInv, phase = "block", frames > 0,
           NEW a \in Addr, NEW v \in Value, SetAccount(a, v),
           UNCHANGED <<cacheAndRepo, blockVars>>
    PROVE  /\ TypeInv'
           /\ journalStack # <<>>
           /\ journalStack \in Seq(Journal)
           /\ DOMAIN journalStack = 1..(frames + 1)
           /\ Len(journalStack) = frames + 1
           /\ frames \in Nat
<1>1. PutAccount(a, v)
    BY DEF PutAccount, blockVars
<1>2. TypeInv'
    BY <1>1, TypeStep DEF Next
<1>3. /\ journalStack \in Seq(Journal)
      /\ Len(journalStack) = frames + 1
      /\ frames \in Nat
    BY BlockConstantsAssumption DEF TypeInv, TypeOK, StateTypeOK
<1>4. QED
    BY <1>2, <1>3

\* The contract under construction stays in its frame.
LEMMA PutInFrame ==
    ASSUME CodeInv, phase = "block", frames > 0,
           NEW a \in Addr, NEW v \in Value, SetAccount(a, v),
           UNCHANGED <<cacheAndRepo, blockVars>>,
           UNCHANGED creating
    PROVE  CreationIsInItsFrame'
<1>t. NoEntry \notin Value
    BY ObjectAssumption, MarksAssumption
<1>1. /\ UNCHANGED <<phase, frames>>
      /\ DOMAIN journalStack = 1..(frames + 1)
      /\ Len(journalStack) = frames + 1
      /\ frames \in Nat
      /\ journalStack # <<>>
    BY PutTypes DEF CodeInv, blockVars
<1>2. /\ \A i \in DOMAIN journalStack : \A b \in Addr :
            journalStack'[i][b] =
                IF i = Len(journalStack) /\ b = a
                THEN v ELSE journalStack[i][b]
      /\ \A b \in Addr : \A w : Beneath(b, w)' <=> Beneath(b, w)
    BY <1>1, PutOne DEF CodeInv
<1>3. QED
    <2> SUFFICES ASSUME creating.addr # NoEntry
                 PROVE  /\ creating.frame \in 1..frames
                        /\ journalStack'[creating.frame + 1][creating.addr]
                               # NoEntry
                        /\ \A i \in 1..creating.frame :
                               journalStack'[i][creating.addr] = NoEntry
                        /\ \A w \in Value : ~Beneath(creating.addr, w)'
        BY <1>1 DEF CreationIsInItsFrame, Beneath
    <2>1. /\ creating.addr \in Addr
          /\ creating.frame \in 1..frames
          /\ journalStack[creating.frame + 1][creating.addr] # NoEntry
          /\ \A i \in 1..creating.frame :
                 journalStack[i][creating.addr] = NoEntry
          /\ \A w \in Value : ~Beneath(creating.addr, w)
        BY DEF CodeInv, ContractTypeOK, CreationIsInItsFrame
    <2>2. QED
        BY <1>t, <1>1, <1>2, <2>1

\* A contract is called or paid.
LEMMA TouchKeeps ==
    ASSUME CodeInv, NEW a \in Addr, TouchAccount(a)
    PROVE  CodeInv'
<1> DEFINE v == [GetAccount(a) EXCEPT !.code = NoCode]
<1>1. /\ phase = "block" /\ frames > 0 /\ evm = Ready
      /\ SetAccount(a, v)
      /\ UNCHANGED <<cacheAndRepo, blockVars>>
      /\ UNCHANGED contractVars
    BY DEF TouchAccount, EvmReady, Answered
<1>2. GetAccount(a) \in Known(a) /\ GetAccount(a) \in Value
    <2>1. GetAccount(a) # EmptyAccount
        BY DEF TouchAccount, EmptyAccount
    <2>2. QED
        BY <2>1, GetAccountKnown DEF CodeInv
<1>3. v \in Value /\ v.nonce = 1 /\ v.code = NoCode
    <2>1. GetAccount(a).nonce = 1
        BY DEF TouchAccount
    <2>2. QED
        BY <1>2, <2>1, ContractAssumption
<1> HIDE DEF v
<1>4. TypeInv' /\ journalStack # <<>>
    BY <1>1, <1>3, PutTypes DEF CodeInv
<1>5. CreationIsInItsFrame'
    BY <1>1, <1>3, PutInFrame DEF contractVars
<1>6. \A b \in Addr : Known(b)' \subseteq
          Known(b) \cup (IF b = a THEN {v} ELSE {})
    BY <1>1, <1>3, <1>4, PutOne DEF CodeInv
<1>7. AccountsAreContracts'
    BY <1>1, <1>2, <1>3, <1>6
       DEF CodeInv, AccountsAreContracts, contractVars, kv, contractHistory
<1>8. ContractTypeOK' /\ EvmWaits'
    BY <1>1 DEF CodeInv, ContractTypeOK, EvmWaits, contractVars, kv,
                contractHistory
<1>9. QED
    BY <1>4, <1>5, <1>7, <1>8 DEF CodeInv

\* putContractStorage ends.
LEMMA SetStorageRootKeeps ==
    ASSUME CodeInv, SetStorageRoot
    PROVE  CodeInv'
<1> DEFINE a == evm.addr
           v == GetAccount(a)
<1>1. /\ evm # Ready
      /\ SetAccount(a, v)
      /\ UNCHANGED <<cacheAndRepo, blockVars>>
      /\ UNCHANGED <<kv, creating, contractHistory>>
      /\ evm' = Ready
    BY DEF SetStorageRoot, Ready
<1>2. /\ phase = "block" /\ frames > 0
      /\ a \in Addr /\ v \in Known(a) /\ v \in Value
    BY <1>1, GetAccountKnown DEF CodeInv, EvmWaits
<1> HIDE DEF a, v
<1>4. TypeInv' /\ journalStack # <<>>
    BY <1>1, <1>2, PutTypes DEF CodeInv
<1>5. CreationIsInItsFrame'
    BY <1>1, <1>2, PutInFrame
<1>6. \A b \in Addr : Known(b)' \subseteq
          Known(b) \cup (IF b = a THEN {v} ELSE {})
    BY <1>1, <1>2, <1>4, PutOne DEF CodeInv
<1>7. AccountsAreContracts'
    BY <1>1, <1>2, <1>6
       DEF CodeInv, AccountsAreContracts, kv, contractHistory
<1>8. ContractTypeOK' /\ EvmWaits'
    BY <1>1 DEF CodeInv, ContractTypeOK, EvmWaits, kv, contractHistory
<1>9. QED
    BY <1>4, <1>5, <1>7, <1>8 DEF CodeInv

\* Where a contract is created there was nothing.
LEMMA NothingThere ==
    ASSUME CodeInv, NEW a \in Addr, EvmReady, AtHand(a),
           GetAccount(a) = EmptyAccount
    PROVE  /\ Known(a) = {}
           /\ \A i \in DOMAIN journalStack : journalStack[i][a] = NoEntry
<1>1. Lookup(a) = NoEntry
    <2> SUFFICES ASSUME Lookup(a) # NoEntry
                 PROVE  FALSE
        OBVIOUS
    <2>1. GetAccount(a) \in Known(a)
        BY LookupKnown DEF CodeInv
    <2>2. QED
        BY <2>1 DEF CodeInv, AccountsAreContracts, EmptyAccount
<1>2. repo[a] = NoAccount
    BY <1>1 DEF AtHand
<1>3. cache[a] = NoEntry /\ Merged(journalStack)[a] = NoEntry
    BY <1>1 DEF Lookup
<1>4. \A i \in DOMAIN journalStack : journalStack[i][a] = NoEntry
    <2>1. journalStack \in Seq(Journal)
        BY DEF CodeInv, TypeInv, TypeOK, StateTypeOK
    <2>2. QED
        BY <1>3, <2>1, MergedIsEntry
<1>5. /\ unsaved[a] = NoEntry
      /\ save.addr = NoEntry
      /\ \A r \in Reader : fetch[r].addr = NoEntry
    BY DEF CodeInv, TypeInv, TypeOK, EvmReady, Answered, EmptyJournal,
           NoSave, NoFetch
<1>6. QED
    BY <1>2, <1>3, <1>4, <1>5, ObjectAssumption, MarksAssumption
       DEF Known, Beneath, InJournal

\* A contract is created.
LEMMA CreateKeeps ==
    ASSUME CodeInv, NEW a \in Addr, Create(a)
    PROVE  CodeInv'
<1> DEFINE v == [nonce |-> 1, code |-> NoCode]
<1>1. /\ phase = "block" /\ frames > 0 /\ evm = Ready
      /\ creating = NotCreating
      /\ SetAccount(a, v)
      /\ UNCHANGED <<cacheAndRepo, blockVars>>
      /\ UNCHANGED <<kv, evm, contractHistory>>
      /\ creating' = [addr |-> a, frame |-> frames]
    BY DEF Create, EvmReady, Answered
<1>2. v \in Value /\ v.nonce = 1 /\ v.code = NoCode
    BY ContractAssumption
<1> HIDE DEF v
<1>3. /\ Known(a) = {}
      /\ \A i \in DOMAIN journalStack : journalStack[i][a] = NoEntry
    BY NothingThere DEF Create
<1>4. /\ TypeInv' /\ journalStack # <<>>
      /\ DOMAIN journalStack = 1..(frames + 1)
      /\ Len(journalStack) = frames + 1
      /\ frames \in Nat
    BY <1>1, <1>2, PutTypes DEF CodeInv
<1>5. /\ \A i \in DOMAIN journalStack : \A b \in Addr :
            journalStack'[i][b] =
                IF i = Len(journalStack) /\ b = a
                THEN v ELSE journalStack[i][b]
      /\ \A b \in Addr : \A w : Beneath(b, w)' <=> Beneath(b, w)
      /\ \A b \in Addr : Known(b)' \subseteq
            Known(b) \cup (IF b = a THEN {v} ELSE {})
    BY <1>1, <1>2, <1>4, PutOne DEF CodeInv
<1>n. NoEntry \notin Value /\ NoEntry \notin Addr
    BY ObjectAssumption, MarksAssumption
<1>6. CreationIsInItsFrame'
    <2>1. creating'.addr = a /\ creating'.frame = frames
          /\ phase' = "block" /\ frames' = frames
        BY <1>1 DEF blockVars
    <2>2. journalStack'[frames + 1][a] # NoEntry
        BY <1>2, <1>4, <1>5, <1>n
    <2>3. \A i \in 1..frames : journalStack'[i][a] = NoEntry
        BY <1>3, <1>4, <1>5
    <2>4. \A w \in Value : ~Beneath(a, w)'
        BY <1>3, <1>5 DEF Known
    <2>5. \A w \in Value : ~Beneath(creating.addr, w)'
        BY <2>1, <2>4 DEF Beneath
    <2>6. QED
        BY <1>1, <1>4, <2>1, <2>2, <2>3, <2>5 DEF CreationIsInItsFrame
<1>7. AccountsAreContracts'
    <2>1. creating'.addr = a /\ creating.addr = NoEntry
        BY <1>1 DEF NotCreating
    <2>2. UNCHANGED <<codeOf, accountCode>>
        BY <1>1 DEF kv, contractHistory
    <2>3. QED
        BY <1>2, <1>3, <1>5, <1>n, <2>1, <2>2
           DEF CodeInv, AccountsAreContracts
<1>8. ContractTypeOK' /\ EvmWaits'
    BY <1>1 DEF CodeInv, ContractTypeOK, EvmWaits, kv, contractHistory
<1>9. QED
    BY <1>4, <1>6, <1>7, <1>8 DEF CodeInv

\* putContractCode ends: the contract is no longer under construction.
LEMMA PutCodeInAccountKeeps ==
    ASSUME CodeInv, PutCodeInAccount
    PROVE  CodeInv'
<1> DEFINE a == evm.addr
           v == [GetAccount(a) EXCEPT !.code = evm.code]
<1>1. /\ evm.step = "hash" /\ evm # Ready
      /\ SetAccount(a, v)
      /\ UNCHANGED <<cacheAndRepo, blockVars>>
      /\ UNCHANGED <<kv, written, spoiled>>
      /\ evm' = Ready /\ creating' = NotCreating
      /\ codeOf' = [codeOf EXCEPT ![a] = evm.code]
    BY DEF PutCodeInAccount, Ready
<1>2. /\ phase = "block" /\ frames > 0
      /\ a \in Addr /\ GetAccount(a) \in Known(a)
      /\ GetAccount(a) \in Value
      /\ a = creating.addr
      /\ evm.code \in codeStore /\ evm.code \in Code
      /\ accountCode[a] = evm.code
    BY <1>1, GetAccountKnown DEF CodeInv, EvmWaits, ContractTypeOK
<1>3. v \in Value /\ v.nonce = 1 /\ v.code = evm.code
    <2>1. GetAccount(a).nonce = 1
        BY <1>2 DEF CodeInv, AccountsAreContracts
    <2>2. QED
        BY <1>2, <2>1, ContractAssumption
<1> HIDE DEF a, v
<1>4. TypeInv' /\ journalStack # <<>>
    BY <1>1, <1>2, <1>3, PutTypes DEF CodeInv
<1>5. \A b \in Addr : Known(b)' \subseteq
          Known(b) \cup (IF b = a THEN {v} ELSE {})
    BY <1>1, <1>2, <1>3, <1>4, PutOne DEF CodeInv
<1>n. creating'.addr = NoEntry /\ NoEntry \notin Addr
    BY <1>1, MarksAssumption DEF NotCreating
<1>6. CreationIsInItsFrame'
    BY <1>n DEF CreationIsInItsFrame
<1>7. /\ codeOf' \in [Addr -> codeStore \cup {NoCode}]
      /\ codeOf'[a] = evm.code
      /\ \A b \in Addr \ {a} : codeOf'[b] = codeOf[b]
      /\ accountCode' = accountCode
    BY <1>1, <1>2 DEF CodeInv, ContractTypeOK, kv
<1>8. AccountsAreContracts'
    <2> SUFFICES ASSUME NEW b \in Addr, NEW w \in Known(b)'
                 PROVE  /\ w.nonce = 1
                        /\ w.code \in {NoCode, codeOf'[b]}
                        /\ accountCode[b] = codeOf'[b]
        BY <1>n, <1>7 DEF AccountsAreContracts
    <2>1. CASE b = a
        <3>1. w = v \/ w \in Known(a)
            BY <1>5, <2>1
        <3>2. QED
            BY <1>2, <1>3, <1>7, <2>1, <3>1 DEF CodeInv, AccountsAreContracts
    <2>2. CASE b # a
        <3>1. w \in Known(b) /\ creating.addr # b
            BY <1>2, <1>5, <2>2
        <3>2. QED
            BY <1>7, <2>2, <3>1 DEF CodeInv, AccountsAreContracts
    <2>3. QED
        BY <2>1, <2>2
<1>9. ContractTypeOK' /\ EvmWaits'
    BY <1>1, <1>7, <1>n DEF CodeInv, ContractTypeOK, EvmWaits, kv
<1>10. QED
    BY <1>4, <1>6, <1>8, <1>9 DEF CodeInv
\* The puts to LevelDB leave the accounts alone.
LEMMA PutCodeKeeps ==
    ASSUME CodeInv, NEW c \in Code, PutCode(c)
    PROVE  CodeInv'
<1>1. /\ phase = "block" /\ frames > 0
      /\ \A r \in Reader : fetch[r] = NoFetch
      /\ creating.addr # NoEntry /\ creating.frame = frames
      /\ codeStore' = codeStore \cup {c}
      /\ evm' = [step |-> "code", addr |-> creating.addr, code |-> c]
      /\ UNCHANGED <<vars, accountCode, slots, creating, contractHistory>>
    BY DEF PutCode, EvmReady, Answered
<1>2. /\ creating.addr \in Addr
      /\ creating.frame \in 1..frames
      /\ journalStack[creating.frame + 1][creating.addr] # NoEntry
    BY <1>1 DEF CodeInv, ContractTypeOK, CreationIsInItsFrame
<1>3. /\ GetAccount(creating.addr) \in Known(creating.addr)
      /\ Merged(journalStack)[creating.addr] # NoEntry
    <2>1. /\ journalStack \in Seq(Journal)
          /\ Len(journalStack) = frames + 1
          /\ frames \in Nat
        BY <1>1, BlockConstantsAssumption
           DEF CodeInv, TypeInv, TypeOK, StateTypeOK
    <2>2. creating.frame + 1 \in DOMAIN journalStack
        BY <1>2, <2>1
    <2>3. Merged(journalStack)[creating.addr] # NoEntry
        BY <1>2, <2>1, <2>2, MergedIsEntry
    <2>4. Lookup(creating.addr) # NoEntry
        BY <2>3 DEF Lookup
    <2>5. QED
        BY <1>2, <2>3, <2>4, LookupKnown DEF CodeInv
<1>4. \A a \in Addr : Known(a)' = Known(a) /\ GetAccount(a)' = GetAccount(a)
    BY <1>1 DEF Known, Beneath, InJournal, GetAccount, Lookup, vars,
                stateVars
<1>5. TypeInv'
    BY <1>1, TypeStep DEF CodeInv
<1>6. AccountsAreContracts'
    BY <1>1, <1>4 DEF CodeInv, AccountsAreContracts, contractHistory
<1>7. CreationIsInItsFrame'
    BY <1>1 DEF CodeInv, CreationIsInItsFrame, Beneath, vars, stateVars,
                blockVars
<1>8. ContractTypeOK'
    BY <1>1, <1>2 DEF CodeInv, ContractTypeOK, contractHistory
<1>9. EvmWaits'
    <2>1. /\ GetAccount(creating.addr)' = GetAccount(creating.addr)
          /\ Known(creating.addr)' = Known(creating.addr)
        BY <1>1 DEF Known, Beneath, InJournal, GetAccount, Lookup, vars,
                    stateVars
    <2>2. evm'.addr = creating.addr /\ creating' = creating
          /\ evm'.step = "code" /\ evm'.code \in codeStore'
        BY <1>1
    <2>3. GetAccount(evm.addr)' \in Known(evm.addr)'
        BY <1>1, <1>3, <2>2 DEF Known, Beneath, InJournal, GetAccount,
           Lookup, vars, stateVars
    <2>4. Merged(journalStack')[evm'.addr] # NoEntry
        BY <1>1, <1>3, <2>2 DEF vars, stateVars
    <2>5. QED
        BY <1>1, <1>2, <2>2, <2>3, <2>4
           DEF EvmWaits, vars, stateVars, blockVars
<1>10. QED
    BY <1>5, <1>6, <1>7, <1>8, <1>9 DEF CodeInv

\* The hash of an address is put when the code is on disk.
LEMMA PutCodeHashKeeps ==
    ASSUME CodeInv, PutCodeHash
    PROVE  CodeInv'
<1>1. /\ evm.step = "code" /\ evm # Ready
      /\ accountCode' = [accountCode EXCEPT ![evm.addr] = evm.code]
      /\ evm' = [evm EXCEPT !.step = "hash"]
      /\ UNCHANGED <<vars, codeStore, slots, creating, contractHistory>>
    BY DEF PutCodeHash, Ready
<1>2. /\ phase = "block" /\ frames > 0
      /\ \A r \in Reader : fetch[r] = NoFetch
      /\ evm.addr \in Addr
      /\ Merged(journalStack)[evm.addr] # NoEntry
      /\ GetAccount(evm.addr) \in Known(evm.addr)
      /\ evm.addr = creating.addr /\ creating.frame = frames
      /\ evm.code \in codeStore
    BY <1>1 DEF CodeInv, EvmWaits
<1>3. \A a \in Addr : Known(a)' = Known(a)
    BY <1>1 DEF Known, Beneath, InJournal, vars, stateVars
<1>4. evm'.addr = evm.addr /\ evm'.code = evm.code
    BY <1>1
<1>5. TypeInv'
    BY <1>1, TypeStep DEF CodeInv
<1>6. /\ \A a \in Addr : creating.addr # a => accountCode'[a] = accountCode[a]
      /\ accountCode'[evm.addr] = evm.code
      /\ accountCode' \in [Addr -> codeStore \cup {NoCode}]
    BY <1>1, <1>2 DEF CodeInv, ContractTypeOK
<1>7. AccountsAreContracts'
    BY <1>1, <1>3, <1>6 DEF CodeInv, AccountsAreContracts, contractHistory
<1>8. CreationIsInItsFrame'
    BY <1>1 DEF CodeInv, CreationIsInItsFrame, Beneath, vars, stateVars,
                blockVars
<1>9. ContractTypeOK'
    BY <1>1, <1>2, <1>4, <1>6 DEF CodeInv, ContractTypeOK, contractHistory
<1>10. EvmWaits'
    <2>1. GetAccount(evm.addr)' \in Known(evm.addr)'
        BY <1>1, <1>2, <1>4 DEF Known, Beneath, InJournal, GetAccount,
           Lookup, vars, stateVars
    <2>2. QED
        BY <1>1, <1>2, <1>4, <1>6, <2>1
           DEF EvmWaits, vars, stateVars, blockVars
<1>11. QED
    BY <1>5, <1>7, <1>8, <1>9, <1>10 DEF CodeInv

\* A slot is put in LevelDB and the account, unchanged in what matters, in
\* the journal.
LEMMA PutStorageKeeps ==
    ASSUME CodeInv, NEW a \in Addr, NEW v \in Slot, PutStorage(a, v)
    PROVE  CodeInv'
<1>1. /\ phase = "block" /\ frames > 0
      /\ \A r \in Reader : fetch[r] = NoFetch
      /\ GetAccount(a).nonce = 1
      /\ Merged(journalStack)[a] # NoEntry
      /\ evm' = [step |-> "slot", addr |-> a, code |-> NoCode]
      /\ UNCHANGED <<vars, codeStore, accountCode, creating, codeOf, spoiled>>
    BY DEF PutStorage, EvmReady, Answered
<1>2. GetAccount(a) \in Known(a)
    BY <1>1, GetAccountKnown DEF CodeInv, EmptyAccount
<1>3. \A b \in Addr : Known(b)' = Known(b)
    BY <1>1 DEF Known, Beneath, InJournal, vars, stateVars
<1>4. evm'.addr = a /\ evm'.step = "slot"
    BY <1>1
<1>5. TypeInv'
    BY <1>1, TypeStep DEF CodeInv
<1>6. AccountsAreContracts'
    BY <1>1, <1>3 DEF CodeInv, AccountsAreContracts
<1>7. CreationIsInItsFrame'
    BY <1>1 DEF CodeInv, CreationIsInItsFrame, Beneath, vars, stateVars,
                blockVars
<1>8. ContractTypeOK'
    BY <1>1, <1>4 DEF CodeInv, ContractTypeOK
<1>9. EvmWaits'
    <2>1. GetAccount(evm.addr)' \in Known(evm.addr)'
        BY <1>1, <1>2, <1>4 DEF Known, Beneath, InJournal, GetAccount,
           Lookup, vars, stateVars
    <2>2. QED
        BY <1>1, <1>4, <2>1 DEF EvmWaits, vars, stateVars, blockVars
<1>10. QED
    BY <1>5, <1>6, <1>7, <1>8, <1>9 DEF CodeInv

-----------------------------------------------------------------------------
(* The block, its frames, reads and commits *)

\* Where nothing new is known and no code is put, what is known stays right,
\* if nothing is left of a contract whose construction is given up.
LEMMA ContractsStay ==
    ASSUME AccountsAreContracts,
           UNCHANGED <<codeOf, accountCode>>,
           \A a \in Addr : Known(a)' \subseteq Known(a),
           \/ UNCHANGED creating
           \/ /\ creating' = NotCreating
              /\ \A a \in Addr : creating.addr = a => Known(a)' = {}
    PROVE  AccountsAreContracts'
<1>1. CASE UNCHANGED creating
    BY <1>1 DEF AccountsAreContracts
<1>2. CASE creating' = NotCreating
    <2>1. creating'.addr = NoEntry /\ NoEntry \notin Addr
        BY <1>2, MarksAssumption DEF NotCreating
    <2>2. CASE UNCHANGED creating
        BY <2>2 DEF AccountsAreContracts
    <2>3. CASE \A a \in Addr : creating.addr = a => Known(a)' = {}
        <3> SUFFICES ASSUME NEW a \in Addr, NEW v \in Known(a)'
                     PROVE  /\ v.nonce = 1
                            /\ v.code \in {NoCode, codeOf[a]}
                            /\ accountCode[a] = codeOf[a]
            BY <2>1 DEF AccountsAreContracts
        <3>1. creating.addr # a
            BY <2>3
        <3>2. QED
            BY <3>1 DEF AccountsAreContracts
    <2>4. QED
        BY <2>2, <2>3
<1>3. QED
    BY <1>1, <1>2

\* The block's steps that only LevelDB and the EVM's frames are about; none of
\* them happens while the EVM awaits a put.
BlockSteps ==
    \/ StartBlockStep
    \/ OpenStep
    \/ CommitStep
    \/ RevertStep
    \/ EndStep
    \/ AbandonStep
    \/ OtherStep /\ ~OtherCached

\* The steps of BlockExecution learn of no account that was not known.
LEMMA BlockStepsAre ==
    ASSUME CodeInv, BlockSteps
    PROVE  /\ TypeInv'
           /\ \A a \in Addr : Known(a)' \subseteq Known(a)
           /\ UNCHANGED <<kv, evm, codeOf>>
           /\ evm = Ready
<1>1. [Next]_vars
    BY DEF BlockSteps, StartBlockStep, OpenStep, CommitStep, RevertStep,
           EndStep, AbandonStep, OtherStep, Next
<1>2. TypeInv'
    BY <1>1, TypeStep DEF CodeInv
<1>3. ASSUME NEW a \in Addr
      PROVE  Known(a)' \subseteq Known(a)
    BY NothingNew
       DEF CodeInv, BlockSteps, StartBlockStep, OpenStep, CommitStep,
           RevertStep, EndStep, AbandonStep, OtherStep
<1>4. UNCHANGED <<kv, evm, codeOf>>
    BY DEF BlockSteps, StartBlockStep, OpenStep, CommitStep, RevertStep,
           EndStep, AbandonStep, OtherStep, contractVars, contractHistory
<1>5. evm = Ready
    <2>1. /\ frames \in Nat
          /\ OtherCredited => phase # "block"
        BY BlockConstantsAssumption DEF CodeInv, TypeInv, TypeOK,
                                        OtherCredited
    <2>2. evm # Ready => /\ phase = "block" /\ frames > 0
                         /\ \A r \in Reader : fetch[r] = NoFetch
        BY DEF CodeInv, EvmWaits
    <2>3. QED
        BY <2>1, <2>2
           DEF BlockSteps, StartBlockStep, OpenStep, CommitStep, RevertStep,
               EndStep, AbandonStep, OtherStep, Answered, EvmReady,
               BeginBlock, EndCommit, BeginCommit, SaveAccount,
               AccountPersisted, AccountSaved, ReadReturns, FetchDone
<1>6. QED
    BY <1>2, <1>3, <1>4, <1>5

\* The contract under construction stays in its frame, or there is none.
LEMMA FramesKeepCreation ==
    ASSUME CodeInv, BlockSteps, creating.addr # NoEntry
    PROVE  \/ CreationIsInItsFrame' /\ UNCHANGED creating
           \/ creating' = NotCreating /\ (RevertStep \/ AbandonStep)
<1> DEFINE k == creating.frame
<1>a. PICK a \in Addr : a = creating.addr
    BY DEF CodeInv, ContractTypeOK
<1>t. /\ phase = "block" /\ frames \in Nat
      /\ journalStack \in Seq(Journal)
      /\ Len(journalStack) = frames + 1
      /\ DOMAIN journalStack = 1..(frames + 1)
      /\ k \in 1..frames
      /\ journalStack[k + 1][a] # NoEntry
      /\ \A i \in 1..k : journalStack[i][a] = NoEntry
      /\ \A v \in Value : ~Beneath(a, v)
    BY <1>a, BlockConstantsAssumption
       DEF CodeInv, ContractTypeOK, CreationIsInItsFrame, TypeInv, TypeOK,
           StateTypeOK
<1>s. ASSUME UNCHANGED creating, phase' = "block", k \in 1..frames',
             journalStack'[k + 1][a] # NoEntry,
             \A i \in 1..k : journalStack'[i][a] = NoEntry,
             \A v \in Value : Beneath(a, v)' => Beneath(a, v)
      PROVE  CreationIsInItsFrame'
    BY <1>a, <1>t, <1>s DEF CreationIsInItsFrame, Beneath
<1>b. UNCHANGED cacheAndRepo =>
          \A v \in Value : Beneath(a, v)' => Beneath(a, v)
    BY DEF Beneath, cacheAndRepo
<1> HIDE DEF k
<1>1. CASE OpenStep
    <2>1. /\ journalStack' = Append(journalStack, EmptyJournal)
          /\ frames' = frames + 1 /\ phase' = phase
          /\ UNCHANGED creating /\ UNCHANGED cacheAndRepo
        BY <1>1 DEF OpenStep, OpenFrame, Checkpoint, cacheAndRepo
    <2>2. \A i \in 1..(frames + 1) : journalStack'[i] = journalStack[i]
        BY <1>t, <2>1
    <2>3. QED
        BY <1>t, <1>s, <1>b, <2>1, <2>2
<1>2. CASE CommitStep
    <2>1. /\ CommitCheckpoint
          /\ frames > 0
          /\ frames' = frames - 1 /\ phase' = phase
          /\ UNCHANGED creating /\ UNCHANGED cacheAndRepo
          /\ k # frames
        BY <1>2 DEF CommitStep, CommitFrame, cacheAndRepo, k
    <2>2. k \in 1..(frames - 1)
        BY <1>t, <2>1
    <2>3. /\ \A i \in 1..(frames - 1) : journalStack'[i] = journalStack[i]
          /\ journalStack'[frames][a] =
                IF journalStack[frames + 1][a] # NoEntry
                THEN journalStack[frames + 1][a]
                ELSE journalStack[frames][a]
        BY <1>t, <2>1, CommittedLevels
    <2>4. journalStack'[k + 1][a] # NoEntry
        <3>1. CASE k = frames - 1
            BY <1>t, <2>3, <3>1
        <3>2. CASE k < frames - 1
            BY <1>t, <2>2, <2>3, <3>2
        <3>3. QED
            BY <1>t, <2>2, <3>1, <3>2
    <2>5. \A i \in 1..k : journalStack'[i][a] = NoEntry
        BY <1>t, <2>2, <2>3
    <2>6. QED
        BY <1>t, <1>s, <1>b, <2>1, <2>2, <2>4, <2>5
<1>3. CASE RevertStep
    <2>1. /\ journalStack' = Popped
          /\ frames' = frames - 1 /\ phase' = phase
          /\ creating' = IF k = frames THEN NotCreating ELSE creating
          /\ UNCHANGED cacheAndRepo
        BY <1>3 DEF RevertStep, RevertFrame, RevertCheckpoint, cacheAndRepo, k
    <2>2. \A i \in 1..frames : journalStack'[i] = journalStack[i]
        BY <1>t, <2>1 DEF Popped
    <2>3. CASE k = frames
        BY <1>3, <2>1, <2>3
    <2>4. CASE k # frames
        <3>1. k \in 1..(frames - 1)
            BY <1>t, <2>4
        <3>2. /\ journalStack'[k + 1][a] # NoEntry
              /\ \A i \in 1..k : journalStack'[i][a] = NoEntry
            BY <1>t, <2>2, <3>1
        <3>3. QED
            BY <1>t, <1>s, <1>b, <2>1, <2>4, <3>1, <3>2
    <2>5. QED
        BY <2>3, <2>4
<1>4. CASE AbandonStep
    BY <1>4 DEF AbandonStep
<1>5. CASE \/ EvmReady /\ (\E r \in Reader, b \in Addr : ReadMiss(r, b))
              /\ UNCHANGED contractVars
           \/ (\E r \in Reader : ReadReturns(r)) /\ UNCHANGED contractVars
    <2>1. UNCHANGED <<journalStack, phase, frames, creating>>
        BY <1>5 DEF ReadMiss, Fetch, ReadReturns, blockVars, contractVars
    <2>2. \A v \in Value : Beneath(a, v)' => Beneath(a, v)
        BY <1>5, <1>t, ReadsBeneath DEF CodeInv
    <2>3. QED
        BY <1>t, <1>s, <2>1, <2>2
<1>6. QED
    BY <1>t, <1>1, <1>2, <1>3, <1>4, <1>5
       DEF OtherCredited, BlockSteps, StartBlockStep, BeginBlock, EndStep, EndCommit,
           OtherStep, BeginCommit, SaveAccount, AccountPersisted,
           AccountSaved, k

\* So every hash they move about resolves.
LEMMA BlockStepsKeep ==
    ASSUME CodeInv, BlockSteps
    PROVE  CodeInv'
<1>1. /\ TypeInv'
      /\ \A a \in Addr : Known(a)' \subseteq Known(a)
      /\ UNCHANGED <<kv, evm, codeOf>>
      /\ evm = Ready
    BY BlockStepsAre
<1>2. CASE creating.addr = NoEntry
    <2>1. creating'.addr = NoEntry /\ NoEntry \notin Addr
        BY <1>2, MarksAssumption
           DEF BlockSteps, StartBlockStep, OpenStep, CommitStep, RevertStep,
               EndStep, AbandonStep, OtherStep, contractVars, NotCreating
    <2>2. AccountsAreContracts'
        BY <1>1, <1>2, <2>1 DEF CodeInv, AccountsAreContracts, kv
    <2>3. CreationIsInItsFrame'
        BY <2>1 DEF CreationIsInItsFrame
    <2>4. QED
        BY <1>1, <2>1, <2>2, <2>3
           DEF CodeInv, ContractTypeOK, EvmWaits, kv
<1>3. CASE creating.addr # NoEntry
    <2>1. CASE CreationIsInItsFrame' /\ UNCHANGED creating
        <3>1. AccountsAreContracts'
            BY <1>1, <2>1, ContractsStay DEF CodeInv, kv
        <3>2. QED
            BY <1>1, <2>1, <3>1 DEF CodeInv, ContractTypeOK, EvmWaits, kv
    <2>2. CASE creating' = NotCreating /\ (RevertStep \/ AbandonStep)
        <3>1. ASSUME NEW a \in Addr, creating.addr = a
              PROVE  Known(a)' = {}
            <4>t. /\ phase = "block" /\ frames \in Nat
                  /\ journalStack \in Seq(Journal)
                  /\ Len(journalStack) = frames + 1
                  /\ NoEntry \notin Value
                  /\ creating.frame \in 1..frames
                  /\ \A i \in 1..creating.frame :
                         journalStack[i][a] = NoEntry
                  /\ \A v \in Value : ~Beneath(a, v)
                BY <1>3, <3>1, BlockConstantsAssumption, MarksAssumption,
                   ObjectAssumption
                   DEF CodeInv, CreationIsInItsFrame, TypeInv, TypeOK,
                       StateTypeOK
            <4>1. UNCHANGED cacheAndRepo
                BY <2>2 DEF RevertStep, RevertFrame, AbandonStep,
                            AbandonBlock, cacheAndRepo
            <4>2. \A v \in Value : ~Beneath(a, v)'
                BY <4>t, <4>1 DEF Beneath, cacheAndRepo
            <4>3. \A v \in Value : ~InJournal(a, v)'
                <5>1. CASE RevertStep
                    <6>1. creating.frame = frames
                        BY <1>3, <2>2, <5>1 DEF RevertStep, NotCreating
                    <6>2. /\ DOMAIN journalStack' = 1..frames
                          /\ \A i \in 1..frames :
                                journalStack'[i] = journalStack[i]
                        BY <4>t, <5>1
                           DEF RevertStep, RevertFrame, RevertCheckpoint,
                               Popped
                    <6>3. QED
                        BY <4>t, <6>1, <6>2 DEF InJournal
                <5>2. CASE AbandonStep
                    BY <5>2 DEF AbandonStep, AbandonBlock, RollbackBlock,
                                InJournal
                <5>3. QED
                    BY <2>2, <5>1, <5>2
            <4>4. QED
                BY <4>2, <4>3 DEF Known
        <3>2. AccountsAreContracts'
            BY <1>1, <2>2, <3>1, ContractsStay DEF CodeInv, kv
        <3>3. creating'.addr = NoEntry
            BY <2>2 DEF NotCreating
        <3>4. CreationIsInItsFrame'
            BY <3>3 DEF CreationIsInItsFrame
        <3>5. QED
            BY <1>1, <3>2, <3>3, <3>4
               DEF CodeInv, ContractTypeOK, EvmWaits, kv
    <2>3. QED
        BY <1>3, <2>1, <2>2, FramesKeepCreation
<1>4. QED
    BY <1>2, <1>3

\* Another account that is cached pushes out one that is elsewhere too, also
\* while the EVM awaits a put: that one's account is in the journal.
LEMMA EvictionKeeps ==
    ASSUME CodeInv, OtherCached, UNCHANGED contractVars
    PROVE  CodeInv'
<1>1. /\ UNCHANGED <<journalStack, repo, fetch, unsaved, save, phase, frames>>
      /\ UNCHANGED <<codeStore, accountCode, evm, creating, codeOf>>
    BY DEF OtherCached, contractVars, kv, contractHistory, blockVars
<1>2. TypeInv'
    BY TypeStep DEF CodeInv, Next
<1>3. \A a \in Addr : Known(a)' \subseteq Known(a)
    BY NothingNew DEF CodeInv
<1>4. AccountsAreContracts'
    BY <1>1, <1>3, ContractsStay DEF CodeInv
<1>5. ASSUME NEW a \in Addr, NEW v \in Value, Beneath(a, v)'
      PROVE  Beneath(a, v)
    <2>1. cache'[a] \in {cache[a], NoEntry} /\ NoEntry \notin Value
        BY MarksAssumption, ObjectAssumption
           DEF OtherCached, CodeInv, TypeInv, TypeOK, StateTypeOK
    <2>2. QED
        BY <1>1, <1>5, <2>1 DEF Beneath
<1>6. CreationIsInItsFrame'
    <2>1. creating.addr # NoEntry => creating.addr \in Addr
        BY DEF CodeInv, ContractTypeOK
    <2>2. creating.addr # NoEntry =>
              \A v \in Value : Beneath(creating.addr, v)' =>
                                   Beneath(creating.addr, v)
        <3>1. SUFFICES ASSUME creating.addr # NoEntry, NEW v \in Value,
                              Beneath(creating.addr, v)'
                       PROVE  Beneath(creating.addr, v)
            OBVIOUS
        <3>2. PICK a \in Addr : a = creating.addr
            BY <2>1, <3>1
        <3>3. Beneath(a, v)'
            BY <1>1, <3>1, <3>2 DEF Beneath
        <3>4. QED
            BY <1>5, <3>2, <3>3
    <2>3. QED
        BY <1>1, <2>2 DEF CodeInv, CreationIsInItsFrame
<1>7. ContractTypeOK'
    BY <1>1 DEF CodeInv, ContractTypeOK
<1>8. EvmWaits'
    <2>1. SUFFICES ASSUME evm # Ready
                   PROVE  EvmWaits'
        BY <1>1 DEF EvmWaits
    <2>2. /\ evm.addr \in Addr
          /\ Merged(journalStack)[evm.addr] # NoEntry
        BY <2>1 DEF CodeInv, EvmWaits
    <2>3. GetAccount(evm.addr)' = Merged(journalStack)[evm.addr]
        BY <1>1, <2>2 DEF GetAccount, Lookup
    <2>4. /\ InJournal(evm.addr, Merged(journalStack)[evm.addr])
          /\ Merged(journalStack)[evm.addr] \in Value
        <3>1. /\ journalStack \in Seq(Journal)
              /\ Merged(journalStack)[evm.addr] = GetAccount(evm.addr)
            BY <2>2 DEF CodeInv, TypeInv, TypeOK, StateTypeOK, GetAccount,
                        Lookup
        <3>2. Merged(journalStack)[evm.addr] \in Value
            BY <2>2, <3>1, GetAccountKnown DEF CodeInv
        <3>3. QED
            BY <2>2, <3>1, <3>2, MergedIsEntry DEF InJournal
    <2>5. GetAccount(evm.addr)' \in Known(evm.addr)'
        BY <1>1, <2>3, <2>4 DEF Known, InJournal
    <2>6. QED
        BY <1>1, <2>1, <2>2, <2>5 DEF CodeInv, EvmWaits
<1>9. QED
    BY <1>2, <1>4, <1>6, <1>7, <1>8 DEF CodeInv

\* After a restart only the repository is left, and a contract whose
\* construction was interrupted is not in it.
LEMMA CrashTypes ==
    ASSUME TypeInv, Crash
    PROVE  TypeInv'
<1>1. EmptyJournal \in Journal
    BY DEF EmptyJournal, Journal, Entry
<1>2. StateTypeOK'
    BY <1>1 DEF TypeInv, TypeOK, StateTypeOK, Crash, NoFetch, NoSave
<1>3. /\ journalStack' = <<>> /\ Len(journalStack') = 0
      /\ phase' = "idle" /\ frames' = 0
      /\ unsaved' = EmptyJournal /\ save' = NoSave
      /\ \A r \in Reader : fetch'[r] = NoFetch
      /\ before' \in Accounts /\ late' \subseteq Addr
    BY DEF Crash, NoAccounts, Accounts
<1>b. torn' \in BOOLEAN
    <2>1. torn \in BOOLEAN
        BY DEF TypeInv, TypeOK
    <2>2. QED
        BY <2>1 DEF Crash
<1>4. TypeOK'
    BY <1>2, <1>3, <1>b, BlockConstantsAssumption DEF TypeOK
<1>5. FetchTyped' /\ SaveMatches'
    BY <1>3 DEF FetchTyped, SaveMatches, NoSave, NoFetch
<1>6. QED
    BY <1>4, <1>5 DEF TypeInv

\* A crash leaves what is on disk, whose hashes resolve already.
LEMMA CrashKeeps ==
    ASSUME CodeInv, Crash
    PROVE  CodeInv'
<1>1. TypeInv'
    BY CrashTypes DEF CodeInv
<1>n. NoEntry \notin Value /\ NoAccount \notin Value /\ NoEntry \notin Addr
    BY MarksAssumption, ObjectAssumption
<1>2. ASSUME NEW a \in Addr, NEW v \in Known(a)'
      PROVE  v \in Value /\ repo[a] = v
    BY <1>n, <1>2
       DEF Crash, Known, Beneath, InJournal, EmptyJournal, NoFetch, NoSave
<1>3. /\ \A a \in Addr : Known(a)' \subseteq Known(a)
      /\ \A a \in Addr : creating.addr = a => Known(a)' = {}
    <2>1. ASSUME NEW a \in Addr, NEW v \in Known(a)'
          PROVE  v \in Known(a) /\ creating.addr # a
        <3>1. Beneath(a, v) /\ v \in Value
            BY <1>2, <2>1 DEF Beneath
        <3>2. QED
            BY <1>n, <3>1 DEF CodeInv, CreationIsInItsFrame, Known
    <2>2. QED
        BY <2>1
<1>4. /\ creating' = NotCreating /\ creating'.addr = NoEntry
      /\ evm' = Ready
      /\ UNCHANGED <<kv, codeOf>>
    BY DEF Crash, NotCreating
<1>5. AccountsAreContracts'
    BY <1>3, <1>4, ContractsStay DEF CodeInv, kv
<1>6. CreationIsInItsFrame'
    BY <1>4 DEF CreationIsInItsFrame
<1>7. QED
    BY <1>1, <1>4, <1>5, <1>6 DEF CodeInv, ContractTypeOK, EvmWaits, kv

-----------------------------------------------------------------------------
(* Code *)

\* There are neither codes nor hashes at first.
LEMMA CodeInit == ContractInit => CodeInv
<1> SUFFICES ASSUME ContractInit PROVE CodeInv
    OBVIOUS
<1>1. TypeInv
    BY TypeInit DEF ContractInit
<1>n. NoEntry \notin Value /\ NoAccount \notin Value
    BY MarksAssumption, ObjectAssumption
<1>2. ASSUME NEW a \in Addr
      PROVE  Known(a) = {}
    <2>1. /\ journalStack = <<>>
          /\ cache[a] = NoEntry /\ unsaved[a] = NoEntry
          /\ repo[a] = NoAccount
          /\ \A r \in Reader : fetch[r].value = NoAccount
          /\ save.value = NoAccount
        BY DEF ContractInit, Init, StateInit, EmptyJournal, NoFetch, NoSave
    <2>2. QED
        BY <1>n, <2>1 DEF Known, Beneath, InJournal
<1>3. AccountsAreContracts
    BY <1>2 DEF AccountsAreContracts
<1>4. creating.addr = NoEntry /\ evm = Ready
    BY DEF ContractInit, NotCreating
<1>5. QED
    BY <1>1, <1>3, <1>4
       DEF ContractInit, CodeInv, ContractTypeOK, CreationIsInItsFrame,
           EvmWaits

\* The invariant about codes is kept by every step.
LEMMA CodeStep == CodeInv /\ [ContractNext]_allVars => CodeInv'
<1> SUFFICES ASSUME CodeInv, [ContractNext]_allVars PROVE CodeInv'
    OBVIOUS
<1>1. CASE UNCHANGED allVars
    <2>1. TypeInv'
        BY <1>1, TypeStep DEF CodeInv, allVars
    <2>2. AccountsAreContracts'
        BY <1>1 DEF CodeInv, AccountsAreContracts, Known, Beneath, InJournal,
           allVars, vars, stateVars, contractVars, kv, contractHistory
    <2>3. CreationIsInItsFrame'
        BY <1>1 DEF CodeInv, CreationIsInItsFrame, Beneath, allVars, vars,
           stateVars, blockVars, contractVars
    <2>4. ContractTypeOK' /\ EvmWaits'
        BY <1>1 DEF CodeInv, ContractTypeOK, EvmWaits, GetAccount, Lookup,
           Known, Beneath, InJournal, allVars, vars, stateVars, blockVars,
           contractVars, kv, contractHistory
    <2>5. QED
        BY <2>1, <2>2, <2>3, <2>4 DEF CodeInv
<1>2. QED
    BY <1>1, TouchKeeps, CreateKeeps, PutStorageKeeps, PutCodeKeeps,
       PutCodeHashKeeps, PutCodeInAccountKeeps, SetStorageRootKeeps,
       BlockStepsKeep, EvictionKeeps, CrashKeeps
       DEF ContractNext, BlockSteps, OtherStep

\* The invariant about codes in every state.
LEMMA CodeInvariant == ContractSpec => []CodeInv
BY CodeInit, CodeStep, PTL DEF ContractSpec

\* No account and no address ever has the hash of a code that is not on disk:
\* not in the journal, not in the cache, not in the repository, at whichever
\* of the three puts of a deployment the process ends.
THEOREM HashesResolve == ContractSpec => []CodeHashesResolve
<1>1. CodeInv => CodeHashesResolve
    <2> SUFFICES ASSUME CodeInv PROVE CodeHashesResolve
        OBVIOUS
    <2>t. /\ journalStack \in Seq(Journal)
          /\ cache \in [Addr -> Value \cup {NoEntry}]
          /\ repo \in [Addr -> Value \cup {NoAccount}]
        BY ObjectAssumption DEF CodeInv, TypeInv, TypeOK, StateTypeOK
    <2>1. ASSUME NEW a \in Addr, NEW v \in Known(a)
          PROVE  v.code \in codeStore \cup {NoCode}
        BY DEF CodeInv, AccountsAreContracts, ContractTypeOK
    <2>2. ASSUME NEW a \in Addr, Merged(journalStack)[a] # NoEntry
          PROVE  Merged(journalStack)[a] \in Known(a)
        <3>1. InJournal(a, Merged(journalStack)[a])
            BY <2>t, <2>2, MergedIsEntry DEF InJournal
        <3>2. Merged(journalStack)[a] \in Value
            BY <2>t, <2>2, MergedType, ObjectAssumption DEF Journal, Entry
        <3>3. QED
            BY <3>1, <3>2 DEF Known
    <2>3. \A a \in Addr : /\ repo[a] # NoAccount => repo[a] \in Known(a)
                          /\ cache[a] # NoEntry => cache[a] \in Known(a)
        BY <2>t DEF Known, Beneath
    <2>4. \A a \in Addr : accountCode[a] \in codeStore \cup {NoCode}
        BY DEF CodeInv, ContractTypeOK
    <2>5. QED
        BY <2>1, <2>2, <2>3, <2>4 DEF CodeHashesResolve
<1>2. QED
    BY CodeInvariant, <1>1, PTL

\* A contract that is there, and not still under construction, is found with
\* the code that was put for it last, though every later change of its
\* account drops the hash.
THEOREM CodeIsFound == ContractSpec => []DeployedCodeIsFound
<1>1. CodeInv => DeployedCodeIsFound
    <2> SUFFICES ASSUME CodeInv, NEW a \in Addr,
                        GetAccount(a).nonce = 1, creating.addr # a
                 PROVE  GetContractCode(a) = codeOf[a]
        BY DEF DeployedCodeIsFound
    <2>1. GetAccount(a) \in Known(a)
        BY GetAccountKnown DEF CodeInv, EmptyAccount
    <2>2. /\ GetAccount(a).code \in {NoCode, codeOf[a]}
          /\ accountCode[a] = codeOf[a]
        BY <2>1 DEF CodeInv, AccountsAreContracts
    <2>3. /\ codeOf[a] \in codeStore \cup {NoCode}
          /\ NoCode \notin codeStore
        BY ContractAssumption DEF CodeInv, ContractTypeOK
    <2>4. QED
        BY <2>2, <2>3 DEF GetContractCode
<1>2. QED
    BY CodeInvariant, <1>1, PTL

-----------------------------------------------------------------------------
(* Storage *)

\* All slots are 0 at first.
LEMMA SlotsInit == ContractInit => SlotsInv
<1> SUFFICES ASSUME ContractInit PROVE SlotsInv
    OBVIOUS
<1>1. TypeInv /\ phase = "idle"
    BY TypeInit DEF ContractInit, Init
<1>2. NoSlots \in [Addr -> Slot \cup {0}]
    BY DEF NoSlots
<1>3. QED
    BY <1>1, <1>2 DEF ContractInit, SlotsInv, StorageIsKept,
                      GetContractStorage, Seen, NoSlots
\* The last two of the pictures.
LEMMA LastOfMore ==
    ASSUME NEW S, NEW seq \in Seq(S), Len(seq) > 0, NEW x \in S
    PROVE  /\ Append(seq, x) \in Seq(S)
           /\ Len(Append(seq, x)) = Len(seq) + 1
           /\ Append(seq, x)[Len(seq) + 1] = x
OBVIOUS

\* Dropping the last picture, and replacing the one under it.
LEMMA LastDropped ==
    ASSUME NEW S, NEW seq \in Seq(S), Len(seq) > 1
    PROVE  /\ Drop(seq) \in Seq(S)
           /\ Len(Drop(seq)) = Len(seq) - 1
           /\ Drop(seq)[Len(seq) - 1] = seq[Len(seq) - 1]
           /\ \A x \in S :
                 LET one == [Drop(seq) EXCEPT ![Len(seq) - 1] = x]
                 IN  /\ one \in Seq(S)
                     /\ Len(one) = Len(seq) - 1
                     /\ one[Len(seq) - 1] = x
<1>1. /\ Drop(seq) \in Seq(S)
      /\ Len(Drop(seq)) = Len(seq) - 1
      /\ Drop(seq)[Len(seq) - 1] = seq[Len(seq) - 1]
    BY DEF Drop
<1> HIDE DEF Drop
<1>2. QED
    BY <1>1

\* The invariant about slots is kept by every step.
LEMMA SlotsStep == SlotsInv /\ TypeInv' /\ [ContractNext]_allVars => SlotsInv'
<1> DEFINE Slots == [Addr -> Slot \cup {0}]
           n == Len(written)
<1> SUFFICES ASSUME SlotsInv, TypeInv', [ContractNext]_allVars
             PROVE  SlotsInv'
    OBVIOUS
<1>t. /\ DOMAIN slots = Addr
      /\ written \in Seq(Slots) /\ n \in Nat
      /\ n = IF phase = "idle" THEN 1 ELSE frames + 2
      /\ frames \in Nat
      /\ Seen \in Slots /\ written[1] \in Slots
      /\ \A a \in Addr \ spoiled : slots[a] = Seen[a]
    <2>1. /\ written \in Seq(Slots) /\ frames \in Nat
          /\ n = IF phase = "idle" THEN 1 ELSE frames + 2
        BY BlockConstantsAssumption DEF SlotsInv, TypeInv, TypeOK
    <2>2. 1 \in 1..n /\ n \in 1..n
        BY <2>1
    <2>3. QED
        BY <2>1, <2>2 DEF SlotsInv, StorageIsKept, GetContractStorage, Seen
<1> HIDE DEF Slots
<1>s. ASSUME DOMAIN slots' = Addr,
             written' \in Seq(Slots),
             Len(written') = IF phase' = "idle" THEN 1 ELSE frames' + 2,
             \A a \in Addr \ spoiled' : slots'[a] = written'[Len(written')][a]
      PROVE  SlotsInv'
    BY <1>s DEF SlotsInv, StorageIsKept, GetContractStorage, Seen, Slots
<1>1. CASE UNCHANGED <<slots, written, spoiled, phase, frames>>
    BY <1>1, <1>t, <1>s DEF Seen
<1>2. ASSUME NEW a \in Addr, NEW v \in Slot, PutStorage(a, v)
      PROVE  SlotsInv'
    <2>1. /\ slots' = [b \in Addr |-> IF b = a THEN v ELSE slots[b]]
          /\ written' = [written EXCEPT ![n] = [written[n] EXCEPT ![a] = v]]
          /\ UNCHANGED <<spoiled, phase, frames>>
        BY <1>2 DEF PutStorage, StorageKey, vars, blockVars
    <2>2. [Seen EXCEPT ![a] = v] \in Slots
        BY <1>t DEF Slots
    <2>3. /\ written' \in Seq(Slots) /\ Len(written') = n
          /\ written'[n] = [Seen EXCEPT ![a] = v]
        BY <1>t, <2>1, <2>2 DEF Seen
    <2>4. \A b \in Addr : written'[n][b] = IF b = a THEN v ELSE Seen[b]
        BY <1>t, <2>3 DEF Slots
    <2>5. QED
        BY <1>t, <1>s, <2>1, <2>3, <2>4
<1>3. CASE StartBlockStep \/ OpenStep
    <2>1. /\ written' = Append(written, Seen)
          /\ UNCHANGED <<slots, spoiled>>
        BY <1>3 DEF StartBlockStep, OpenStep, kv
    <2>2. CASE StartBlockStep
        <3>1. phase = "idle" /\ phase' = "block" /\ frames' = frames
            BY <2>2 DEF StartBlockStep, BeginBlock
        <3>2. frames = 0
            BY <3>1 DEF SlotsInv, TypeInv, TypeOK
        <3>3. n = 1
            BY <1>t, <3>1
        <3>4. Len(written) > 0
            BY <3>3
        <3>5. /\ written' \in Seq(Slots) /\ Len(written') = n + 1
              /\ written'[n + 1] = Seen
            BY <1>t, <2>1, <3>4, LastOfMore
        <3>6. frames' + 2 = n + 1
            BY <3>1, <3>2, <3>3
        <3>7. QED
            BY <1>t, <1>s, <2>1, <3>1, <3>5, <3>6
    <2>3. CASE OpenStep
        <3>1. phase = "block" /\ phase' = phase /\ frames' = frames + 1
            BY <2>3 DEF OpenStep, OpenFrame
        <3>2. QED
            BY <1>t, <1>s, <2>1, <3>1, LastOfMore
    <2>4. QED
        BY <1>3, <2>2, <2>3
<1>4. CASE CommitStep
    <2>1. /\ written' = [Drop(written) EXCEPT ![n - 1] = Seen]
          /\ UNCHANGED <<slots, spoiled>>
          /\ phase' # "idle" /\ n > 1
          /\ frames' + 2 = n - 1
        BY <1>4, <1>t DEF CommitStep, CommitFrame, kv
    <2>2. QED
        BY <1>t, <1>s, <2>1, LastDropped
<1>5. CASE RevertStep
    <2>1. /\ written' = Drop(written)
          /\ UNCHANGED slots
          /\ spoiled' = spoiled \cup Undone(n - 1)
          /\ phase' # "idle" /\ n > 1
          /\ frames' + 2 = n - 1
        BY <1>5, <1>t DEF RevertStep, RevertFrame, kv
    <2>2. /\ written' \in Seq(Slots) /\ Len(written') = n - 1
          /\ written'[n - 1] = written[n - 1]
        BY <1>t, <2>1, LastDropped
    <2>3. \A a \in Addr \ spoiled' : Seen[a] = written[n - 1][a]
        BY <2>1 DEF Undone
    <2>4. QED
        BY <1>t, <1>s, <2>1, <2>2, <2>3
<1>6. CASE EndStep
    <2>1. /\ written' = <<Seen>>
          /\ UNCHANGED <<slots, spoiled>>
          /\ phase' = "idle"
        BY <1>6 DEF EndStep, EndCommit, kv
    <2>2. QED
        BY <1>t, <1>s, <2>1
<1>7. CASE AbandonStep \/ Crash
    <2>1. /\ written' = <<written[1]>>
          /\ UNCHANGED slots
          /\ spoiled' = spoiled \cup Undone(1)
          /\ phase' = "idle"
        BY <1>7 DEF AbandonStep, AbandonBlock, Crash, kv
    <2>2. \A a \in Addr \ spoiled' : Seen[a] = written[1][a]
        BY <2>1 DEF Undone
    <2>3. QED
        BY <1>t, <1>s, <2>1, <2>2
<1>8. CASE OtherStep
    <2>1. UNCHANGED <<slots, written, spoiled>>
        BY <1>8 DEF OtherStep, contractVars, kv, contractHistory
    <2>2. CASE BeginCommit
        BY <1>t, <1>s, <2>1, <2>2 DEF BeginCommit, Seen
    <2>3. CASE UNCHANGED <<phase, frames>>
        BY <1>1, <2>1, <2>3
    <2>4. QED
        BY <1>8, <2>2, <2>3
           DEF OtherStep, ReadMiss, ReadReturns, SaveAccount,
               AccountPersisted, AccountSaved, OtherCached, OtherCredited,
               blockVars
<1>9. QED
    BY <1>1, <1>2, <1>3, <1>4, <1>5, <1>6, <1>7, <1>8
       DEF ContractNext, TouchAccount, Create, PutCode, PutCodeHash,
           PutCodeInAccount, SetStorageRoot, contractVars, allVars, kv,
           contractHistory, vars, blockVars

\* A slot of a contract none of whose writes was undone reads as the frames
\* that are kept have left it, through commits, restarts and other contracts'
\* undone writes.
THEOREM SlotsAreKept == ContractSpec => []StorageIsKept
<1>1. CodeInv => TypeInv
    BY DEF CodeInv
<1>2. SlotsInv => StorageIsKept
    BY DEF SlotsInv
<1>3. QED
    BY CodeInvariant, SlotsInit, SlotsStep, <1>1, <1>2, PTL DEF ContractSpec
-----------------------------------------------------------------------------
(* The nested store, through restarts *)

\* Whatever the EVM does to an account is a setAccount in an open frame, so
\* every step is one of BlockExecution, one that leaves its variables alone,
\* or the end of the process.
LEMMA StepsOfTheBlock ==
    ASSUME CodeInv, [ContractNext]_allVars
    PROVE  [Next]_vars \/ Crash
<1>1. ASSUME NEW a \in Addr, TouchAccount(a)
      PROVE  Next
    <2> DEFINE v == [GetAccount(a) EXCEPT !.code = NoCode]
    <2>1. GetAccount(a).nonce = 1 /\ GetAccount(a) # EmptyAccount
        BY <1>1 DEF TouchAccount, EmptyAccount
    <2>2. GetAccount(a) \in Value
        BY <2>1, GetAccountKnown DEF CodeInv
    <2>3. v \in Value
        BY <2>1, <2>2, ContractAssumption
    <2>4. PutAccount(a, v)
        BY <1>1 DEF TouchAccount, EvmReady, PutAccount
    <2> HIDE DEF v
    <2>5. QED
        BY <2>3, <2>4 DEF Next
<1>2. ASSUME NEW a \in Addr, Create(a)
      PROVE  Next
    <2>1. [nonce |-> 1, code |-> NoCode] \in Value
        BY ContractAssumption
    <2>2. PutAccount(a, [nonce |-> 1, code |-> NoCode])
        BY <1>2 DEF Create, EvmReady, PutAccount
    <2>3. QED
        BY <2>1, <2>2 DEF Next
<1>3. CASE PutCodeInAccount
    <2> DEFINE a == evm.addr
               v == [GetAccount(a) EXCEPT !.code = evm.code]
    <2>1. /\ evm.step = "hash" /\ evm # Ready
          /\ SetAccount(a, v)
          /\ UNCHANGED <<cacheAndRepo, blockVars>>
        BY <1>3 DEF PutCodeInAccount, Ready
    <2>2. /\ phase = "block" /\ frames > 0
          /\ a \in Addr
          /\ GetAccount(a) \in Value
          /\ evm.code \in Code
        BY <2>1, GetAccountKnown DEF CodeInv, EvmWaits, ContractTypeOK
    <2>3. v \in Value
        BY <2>2, ContractAssumption
    <2> HIDE DEF a, v
    <2>4. PutAccount(a, v)
        BY <2>1, <2>2 DEF PutAccount
    <2>5. QED
        BY <2>2, <2>3, <2>4 DEF Next
<1>4. CASE SetStorageRoot
    <2> DEFINE a == evm.addr
               v == GetAccount(a)
    <2>1. /\ evm # Ready
          /\ SetAccount(a, v)
          /\ UNCHANGED <<cacheAndRepo, blockVars>>
        BY <1>4 DEF SetStorageRoot, Ready
    <2>2. /\ phase = "block" /\ frames > 0
          /\ a \in Addr /\ v \in Value
        BY <2>1, GetAccountKnown DEF CodeInv, EvmWaits
    <2> HIDE DEF a, v
    <2>3. PutAccount(a, v)
        BY <2>1, <2>2 DEF PutAccount
    <2>4. QED
        BY <2>2, <2>3 DEF Next
<1>5. ASSUME \/ \E a \in Addr, v \in Slot : PutStorage(a, v)
             \/ \E c \in Code : PutCode(c)
             \/ PutCodeHash
             \/ UNCHANGED allVars
      PROVE  UNCHANGED vars
    BY <1>5 DEF PutStorage, PutCode, PutCodeHash, allVars
<1>6. CASE BlockSteps \/ OtherStep
    BY <1>6 DEF BlockSteps, StartBlockStep, OpenStep, CommitStep, RevertStep,
                EndStep, AbandonStep, OtherStep, Next
<1>7. QED
    BY <1>1, <1>2, <1>3, <1>4, <1>5, <1>6 DEF ContractNext, BlockSteps

\* The repository has what the cache has, unless the cached account's save is
\* its way; then it has what the block says.
LEMMA RepositoryIsBeneath ==
    ASSUME StoreInv, NEW a \in Addr, a \notin late
    PROVE  \/ repo[a] = Stored[a]
           \/ /\ phase = "saving"
              /\ Merged(journalStack)[a] # NoEntry
              /\ repo[a] = Merged(journalStack)[a]
<1>t. NoEntry \notin Addr /\ NoEntry \notin Object
    BY MarksAssumption
<1>1. CASE cache[a] = NoEntry \/ cache[a] = repo[a]
    BY <1>1 DEF Stored
<1>2. CASE save.addr = a /\ save.persisted
    <2>1. save # NoSave
        BY <1>2 DEF NoSave
    <2>2. phase = "saving"
        BY <2>1 DEF StoreInv, TypeInv, TypeOK
    <2>3. repo[a] = unsaved[a] /\ unsaved[a] # NoEntry
        BY <1>2, <2>1, <1>t DEF StoreInv, TypeInv, SaveMatches, CoherenceInv,
                                PersistedIsStored
    <2>4. QED
        BY <2>2, <2>3 DEF StoreInv, SavingInv
<1>3. QED
    BY <1>1, <1>2 DEF StoreInv, CoherenceInv, StaleOnlyByLateAnswer

\* After a restart the cache is empty and no commit is in progress.
LEMMA CrashStores ==
    ASSUME StoreInv, Crash
    PROVE  StoreInv'
<1>1. TypeInv'
    BY CrashTypes DEF StoreInv
<1>2. CoherenceInv'
    BY DEF Crash, CoherenceInv, FetchIsCurrent, PersistedIsStored,
           StaleOnlyByLateAnswer
<1>3. SavingInv'
    BY DEF Crash, SavingInv
<1>4. QED
    BY <1>1, <1>2, <1>3 DEF StoreInv

\* The end of the process is, for the store, a commit that fails, a block
\* that is abandoned or nothing at all.
LEMMA CrashRefines ==
    ASSUME StoreInv, late = {}, Crash
    PROVE  [Store!StoreNext]_(Store!storeVars)
<1>t. /\ Stored \in Accounts /\ repo \in Accounts
      /\ Stored' = repo
      /\ phase' = "idle"
      /\ phase \in {"idle", "block", "saving"}
    BY StoredType, ObjectAssumption
       DEF StoreInv, TypeInv, TypeOK, StateTypeOK, Crash, Stored, Accounts
<1>1. Levels' = <<>>
    BY <1>t DEF Levels
<1>2. ASSUME phase # "saving"
      PROVE  Stored = repo /\ torn' = torn
    <2>1. \A a \in Addr : Stored[a] = repo[a]
        BY <1>2, RepositoryIsBeneath
    <2>2. QED
        BY <1>t, <1>2, <2>1 DEF Accounts, Crash
<1>3. CASE phase = "idle"
    <2>1. Levels = <<>>
        BY <1>3 DEF Levels
    <2>2. QED
        BY <1>t, <1>1, <1>2, <1>3, <2>1, LevelsAreMapped, LevelsAreMappedNext
           DEF Store!storeVars
<1>4. CASE phase = "block"
    <2>1. journalStack \in Seq(Journal) /\ journalStack # <<>>
        BY <1>4, BlockConstantsAssumption
           DEF StoreInv, TypeInv, TypeOK, StateTypeOK
    <2>2. Levels # <<>>
        BY <1>t, <1>4, <2>1, PicturesSplit DEF Levels
    <2>3. Store!Abandon
        BY <1>t, <1>1, <1>2, <1>4, <2>2, LevelsAreMapped, LevelsAreMappedNext
           DEF Store!Abandon
    <2>4. QED
        BY <2>3 DEF Store!StoreNext
<1>5. CASE phase = "saving"
    <2> DEFINE x == PictureOf(journalStack, before)
    <2>1. Levels = <<x>>
        BY <1>5, SavingIsMapped
    <2>2. ASSUME NEW a \in Addr
          PROVE  repo[a] \in {before[a], x[a]}
        <3>1. x[a] = IF Merged(journalStack)[a] # NoEntry
                     THEN Merged(journalStack)[a] ELSE before[a]
            BY DEF PictureOf
        <3>2. Stored[a] \in {before[a], x[a]}
            BY <1>5, <3>1 DEF StoreInv, SavingInv
        <3>3. QED
            BY <3>1, <3>2, RepositoryIsBeneath
    <2>3. torn' = TRUE
        BY <1>5 DEF Crash
    <2> HIDE DEF x
    <2>4. Store!Tear
        BY <1>t, <1>1, <1>5, <2>1, <2>2, <2>3, LevelsAreMapped,
           LevelsAreMappedNext
           DEF Store!Tear, Store!Top, Store!Accounts, Accounts
    <2>5. QED
        BY <2>4 DEF Store!StoreNext
<1>6. QED
    BY <1>t, <1>3, <1>4, <1>5

\* Both invariants, of the codes and of the store, hold in every state.
LEMMA ContractStoreInvariant == ContractSpec => [](CodeInv /\ StoreInv)
<1>1. ContractInit => CodeInv /\ StoreInv
    BY CodeInit, TypeInit, CoherenceInit
       DEF StoreInv, SavingInv, Init, ContractInit
<1>2. CodeInv /\ StoreInv /\ [ContractNext]_allVars =>
          CodeInv' /\ StoreInv'
    <2> SUFFICES ASSUME CodeInv, StoreInv, [ContractNext]_allVars
                 PROVE  CodeInv' /\ StoreInv'
        OBVIOUS
    <2>1. CodeInv'
        BY CodeStep
    <2>2. CASE [Next]_vars
        BY <2>1, <2>2, TypeStep, TypeInvIsDiskTyped, CoherenceStep, SavingStep
           DEF StoreInv
    <2>3. QED
        BY <2>1, <2>2, StepsOfTheBlock, CrashStores
<1>3. QED
    BY <1>1, <1>2, PTL DEF ContractSpec

\* The accounts of contracts are those of a nested store wherever the process
\* ends and is started again: in a block it is as if the block had been
\* abandoned, in a commit each account is as it was or as the block left it,
\* and between blocks nothing is lost.
THEOREM StoreIsImplementedThroughRestarts == ContractSpec => ImplementsStore
<1>1. ContractInit => Store!StoreInit
    BY MarksAssumption, ObjectAssumption
       DEF ContractInit, Init, StateInit, Store!StoreInit, Store!Accounts,
           Stored
<1>2. CodeInv /\ StoreInv /\ (CodeInv /\ StoreInv)' /\ [ContractNext]_allVars =>
          [NoneIsLate => Store!StoreNext]_(Store!storeVars)
    <2> SUFFICES ASSUME CodeInv, StoreInv, StoreInv', [ContractNext]_allVars,
                        NoneIsLate
                 PROVE  [Store!StoreNext]_(Store!storeVars)
        OBVIOUS
    <2>1. CASE [Next]_vars
        BY <2>1, StepRefines
    <2>2. CASE Crash
        BY <2>2, CrashRefines DEF NoneIsLate
    <2>3. QED
        BY <2>1, <2>2, StepsOfTheBlock
<1>3. QED
    BY <1>1, <1>2, ContractStoreInvariant, PTL
       DEF ContractSpec, ImplementsStore
=============================================================================
