------------------------ MODULE BlockExecutionProofs ------------------------
(***************************************************************************)
(* Theorems about BlockExecution and the eth_calls beside it, for every    *)
(* set of accounts, values, readers and callers, every cache size and      *)
(* every depth of EVM frames.                                              *)
(***************************************************************************)
EXTENDS EthCall, StateManagerProofs, FiniteSets, FiniteSetTheorems

-----------------------------------------------------------------------------
(* The inductive invariant *)

\* A reader that waits, waits for an account.
FetchTyped ==
    \A r \in Reader :
        fetch[r] # NoFetch => fetch[r].addr \in Addr

\* The save being awaited is of an entry of mergedJournal that is still there,
\* and writes that entry.
SaveMatches ==
    save # NoSave =>
        /\ save.addr \in Addr
        /\ unsaved[save.addr] \in Object
        /\ save.value = unsaved[save.addr]

TypeInv == TypeOK /\ FetchTyped /\ SaveMatches

\* What is said of the cache, the repository and a commit, whatever the
\* levels of the stack: eth_calls add levels of their own.
DiskTyped ==
    /\ cache \in [Addr -> Object \cup {NoEntry}]
    /\ repo \in [Addr -> Value \cup {NoAccount}]
    /\ fetch \in [Reader -> [addr : Addr \cup {NoEntry},
                             value : Value \cup {NoAccount}]]
    /\ unsaved \in Journal
    /\ save \in [addr : Addr \cup {NoEntry}, value : Value \cup {NoAccount},
                 persisted : BOOLEAN]
    /\ phase # "saving" => save = NoSave
    /\ FetchTyped /\ SaveMatches

\* What a waiting reader will be given is still what the repository holds, or
\* null, unless the account is late.
FetchIsCurrent ==
    \A r \in Reader :
        fetch[r] # NoFetch /\ fetch[r].addr \notin late =>
            fetch[r].value \in {repo[fetch[r].addr], NoAccount}

\* A save that LevelDB has performed is in the repository.
PersistedIsStored ==
    save # NoSave /\ save.persisted => repo[save.addr] = save.value

CoherenceInv ==
    FetchIsCurrent /\ PersistedIsStored /\ StaleOnlyByLateAnswer

-----------------------------------------------------------------------------
(* Types *)

\* Before the first block everything is empty, and typed.
LEMMA TypeInit == Init => TypeInv
<1> SUFFICES ASSUME Init PROVE TypeInv
    OBVIOUS
<1> USE DEF Init, StateInit
<1>1. EmptyJournal \in Journal
    BY DEF EmptyJournal, Journal, Entry
<1>2. StateTypeOK
    BY <1>1 DEF StateTypeOK, NoFetch, NoSave
<1>b. torn \in BOOLEAN
    OBVIOUS
<1>3. TypeOK
    BY <1>2, <1>b, BlockConstantsAssumption
       DEF TypeOK, Accounts, NoAccounts, NoSave
<1>4. QED
    BY <1>3 DEF TypeInv, FetchTyped, SaveMatches

\* Every step of a block, of a reader and of commitBlock keeps the types.
LEMMA TypeStep == TypeInv /\ [Next]_vars => TypeInv'
<1> SUFFICES ASSUME TypeInv, [Next]_vars PROVE TypeInv'
    OBVIOUS
<1> USE ObjectAssumption, MarksAssumption, BlockConstantsAssumption
        DEF TypeInv, TypeOK, StateTypeOK, FetchTyped, SaveMatches
<1> USE DEF blockVars, history, cacheAndRepo, Accounts, NoAccounts
<1>e. EmptyJournal \in Journal
    BY DEF EmptyJournal, Journal, Entry
<1>n. phase = "block" => journalStack # <<>>
    OBVIOUS
<1>1. CASE BeginBlock
    <2>1. /\ journalStack' \in Seq(Journal)
          /\ Len(journalStack') = 1
        BY <1>1, <1>e DEF BeginBlock, StartBlock
    <2>2. torn' \in BOOLEAN
        BY <1>1 DEF BeginBlock
    <2>3. QED
        BY <1>1, <2>1, <2>2 DEF BeginBlock
<1>2. ASSUME NEW a \in Addr, NEW v \in Value, PutAccount(a, v)
      PROVE  TypeInv'
    <2>1. /\ journalStack' \in Seq(Journal)
          /\ Len(journalStack') = Len(journalStack)
        BY <1>2, <1>n, SetAccountType DEF PutAccount
    <2>2. QED
        BY <1>2, <2>1 DEF PutAccount
<1>3. CASE OpenFrame
    <2>1. /\ journalStack' \in Seq(Journal)
          /\ Len(journalStack') = Len(journalStack) + 1
        BY <1>3, CheckpointType DEF OpenFrame
    <2>2. QED
        BY <1>3, <2>1 DEF OpenFrame
<1>4. CASE CommitFrame
    <2>1. /\ journalStack' \in Seq(Journal)
          /\ Len(journalStack') = Len(journalStack) - 1
        BY <1>4, CommitCheckpointType DEF CommitFrame
    <2>2. QED
        BY <1>4, <2>1 DEF CommitFrame
<1>5. CASE RevertFrame
    <2>1. /\ journalStack' \in Seq(Journal)
          /\ Len(journalStack') = Len(journalStack) - 1
        BY <1>5, PoppedType DEF RevertFrame, RevertCheckpoint
    <2>2. QED
        BY <1>5, <2>1 DEF RevertFrame
<1>6. ASSUME NEW r \in Reader, NEW a \in Addr, ReadMiss(r, a)
      PROVE  TypeInv'
    BY <1>6 DEF ReadMiss, Fetch
<1>7. ASSUME NEW r \in Reader, ReadReturns(r)
      PROVE  TypeInv'
    <2>1. fetch' = [fetch EXCEPT ![r] = NoFetch] /\ fetch[r] # NoFetch
        BY <1>7 DEF ReadReturns, FetchDone
    <2>2. /\ cache' \in [Addr -> Object \cup {NoEntry}]
          /\ cacheKeys' \in Seq(Addr)
        <3>1. CASE fetch[r].value = NoAccount
            BY <1>7, <3>1 DEF ReadReturns, FetchDone
        <3>2. CASE fetch[r].value # NoAccount
            <4>1. fetch[r].addr \in Addr /\ fetch[r].value \in Object
                BY <2>1, <3>2
            <4>2. QED
                BY <1>7, <3>2, <4>1, AddToCacheType
                   DEF ReadReturns, FetchDone
        <3>3. QED
            BY <3>1, <3>2
    <2>3. QED
        BY <1>7, <2>1, <2>2 DEF ReadReturns, NoFetch
<1>8. CASE BeginCommit
    <2>1. Merged(journalStack) \in Journal
        BY <1>8, MergedType DEF BeginCommit
    <2>2. Stored \in Accounts
        BY DEF Stored
    <2>3. QED
        BY <1>8, <2>1, <2>2 DEF BeginCommit, CommitStart
<1>9. ASSUME NEW a \in Addr, SaveAccount(a)
      PROVE  TypeInv'
    BY <1>9 DEF SaveAccount, Encode
<1>10. CASE AccountPersisted
    <2>1. late' \subseteq Addr
        BY <1>10 DEF AccountPersisted, Persist
    <2>2. QED
        BY <1>10, <2>1 DEF AccountPersisted, Persist
<1>11. CASE AccountSaved
    <2>1. save # NoSave /\ AddToCache(save.addr, unsaved[save.addr])
        BY <1>11 DEF AccountSaved, SaveDone
    <2>2. save.addr \in Addr /\ unsaved[save.addr] \in Object
        BY <2>1
    <2>3. /\ cache' \in [Addr -> Object \cup {NoEntry}]
          /\ cacheKeys' \in Seq(Addr)
        BY <2>1, <2>2, AddToCacheType
    <2>4. unsaved' \in Journal
        BY <1>11 DEF AccountSaved, SaveDone, Journal, Entry
    <2>5. late' \subseteq Addr
        BY <1>11 DEF AccountSaved
    <2>6. QED
        BY <1>11, <2>3, <2>4, <2>5 DEF AccountSaved, SaveDone, NoSave
<1>12. CASE EndCommit
    BY <1>12 DEF EndCommit, CommitEnd
<1>13. CASE AbandonBlock
    BY <1>13 DEF AbandonBlock, RollbackBlock
<1>14. CASE SaveFails
    BY <1>14, <1>e DEF SaveFails, CommitFails, RollbackBlock, NoSave
<1>15. CASE OtherCached
    <2>1. cacheKeys' \in Seq(Addr)
        BY <1>15 DEF OtherCached
    <2>2. QED
        BY <1>15, <2>1 DEF OtherCached
<1>16. CASE OtherCredited
    <2>1. phase = "idle"
        BY <1>16 DEF OtherCredited
    <2>2. journalStack' \in Seq(Journal)
        BY <1>16, <1>e DEF OtherCredited
    <2>3. QED
        BY <1>16, <2>1, <2>2 DEF OtherCredited
<1>17. CASE UNCHANGED vars
    BY <1>17 DEF vars, stateVars
<1>18. QED
    BY <1>1, <1>2, <1>3, <1>4, <1>5, <1>6, <1>7, <1>8, <1>9, <1>10, <1>11,
       <1>12, <1>13, <1>14, <1>15, <1>16, <1>17 DEF Next

\* The inductive invariant of the types holds in every reachable state.
THEOREM TypeInvariant == Spec => []TypeInv
BY TypeInit, TypeStep, PTL DEF Spec

\* In every reachable state the variables have their types and the journal
\* stack has exactly the block's level and one for each open EVM frame, between
\* blocks none but the empty one of a credit.
THEOREM TypeCorrectness == Spec => []TypeOK
<1>1. TypeInv => TypeOK
    BY DEF TypeInv
<1>2. QED
    BY TypeInvariant, <1>1, PTL

-----------------------------------------------------------------------------
(* Coherence of the cache *)

\* The cache is empty at first.
LEMMA CoherenceInit == Init => CoherenceInv
BY DEF Init, StateInit, CoherenceInv, FetchIsCurrent, PersistedIsStored,
       StaleOnlyByLateAnswer

\* A step that leaves the cache, the repository, the waiting reads, the save
\* and the late accounts alone keeps the cache coherent.
LEMMA CoherenceUntouched ==
    ASSUME CoherenceInv, UNCHANGED <<cache, repo, fetch, save, late>>
    PROVE  CoherenceInv'
BY DEF CoherenceInv, FetchIsCurrent, PersistedIsStored, StaleOnlyByLateAnswer

\* Without eth_calls it is part of the inductive invariant.
LEMMA TypeInvIsDiskTyped == TypeInv => DiskTyped
BY DEF TypeInv, TypeOK, StateTypeOK, DiskTyped

\* The hard steps are the three that touch the cache or the repository: an
\* answer that arrives, LevelDB's put and the return of saveAccount.
LEMMA CoherenceStep ==
    DiskTyped /\ CoherenceInv /\ [Next]_vars => CoherenceInv'
<1> SUFFICES ASSUME DiskTyped, CoherenceInv, [Next]_vars
             PROVE  CoherenceInv'
    OBVIOUS
<1>u. ASSUME UNCHANGED <<cache, repo, fetch, save, late>>
      PROVE  CoherenceInv'
    BY <1>u, CoherenceUntouched
<1>1. CASE \/ BeginBlock \/ OpenFrame \/ CommitFrame \/ RevertFrame
           \/ BeginCommit \/ EndCommit \/ AbandonBlock \/ OtherCredited
    BY <1>1, <1>u DEF BeginBlock, OpenFrame, CommitFrame, RevertFrame,
          BeginCommit, CommitStart, EndCommit, CommitEnd, AbandonBlock,
          OtherCredited, cacheAndRepo, blockVars, history
<1>2. ASSUME NEW a \in Addr, NEW v \in Value, PutAccount(a, v)
      PROVE  CoherenceInv'
    BY <1>2, <1>u DEF PutAccount, cacheAndRepo, blockVars, history
<1>3. ASSUME NEW r \in Reader, NEW a \in Addr, ReadMiss(r, a)
      PROVE  CoherenceInv'
    <2>1. /\ \E v \in {repo[a], NoAccount} :
                fetch' = [fetch EXCEPT ![r] = [addr |-> a, value |-> v]]
          /\ UNCHANGED <<cache, repo, save, late>>
        BY <1>3 DEF ReadMiss, Fetch, blockVars, history
    <2>2. FetchIsCurrent'
        BY <2>1 DEF DiskTyped, CoherenceInv, FetchIsCurrent
    <2>3. QED
        BY <2>1, <2>2 DEF CoherenceInv, PersistedIsStored,
                          StaleOnlyByLateAnswer
<1>4. ASSUME NEW r \in Reader, ReadReturns(r)
      PROVE  CoherenceInv'
    <2>1. /\ fetch[r] # NoFetch
          /\ fetch' = [fetch EXCEPT ![r] = NoFetch]
          /\ UNCHANGED <<repo, save, late>>
        BY <1>4 DEF ReadReturns, FetchDone, blockVars, history
    <2>2. FetchIsCurrent'
        BY <2>1 DEF DiskTyped, CoherenceInv, FetchIsCurrent
    <2>3. StaleOnlyByLateAnswer'
        <3>1. CASE fetch[r].value = NoAccount
            BY <1>4, <2>1, <3>1 DEF ReadReturns, FetchDone, CoherenceInv,
                                    StaleOnlyByLateAnswer
        <3>2. CASE fetch[r].value # NoAccount
            <4>1. /\ fetch[r].addr \in Addr
                  /\ fetch[r].value \in Object
                  /\ \/ fetch[r].addr \in late
                     \/ fetch[r].value = repo[fetch[r].addr]
                BY <2>1, <3>2, ObjectAssumption
                   DEF DiskTyped, FetchTyped, CoherenceInv, FetchIsCurrent
            <4>2. AddToCache(fetch[r].addr, fetch[r].value)
                BY <1>4, <3>2 DEF ReadReturns, FetchDone
            <4>3. /\ cache'[fetch[r].addr] = fetch[r].value
                  /\ \A b \in Addr \ {fetch[r].addr} :
                        cache'[b] \in {cache[b], NoEntry}
                BY <4>1, <4>2, AddToCacheEntries
            <4>4. QED
                BY <2>1, <4>1, <4>3 DEF CoherenceInv, StaleOnlyByLateAnswer
        <3>3. QED
            BY <3>1, <3>2
    <2>4. QED
        BY <2>1, <2>2, <2>3 DEF CoherenceInv, PersistedIsStored
<1>5. ASSUME NEW a \in Addr, SaveAccount(a)
      PROVE  CoherenceInv'
    \* No save was being awaited, so no account was excused by one.
    <2>1. /\ save = NoSave
          /\ save'.persisted = FALSE
          /\ UNCHANGED <<cache, repo, fetch, late>>
        BY <1>5 DEF SaveAccount, Encode, blockVars, history
    <2>2. \A b \in Addr :
              cache[b] # NoEntry /\ cache[b] # repo[b] => b \in late
        BY <2>1 DEF CoherenceInv, StaleOnlyByLateAnswer, NoSave
    <2>3. QED
        BY <2>1, <2>2 DEF CoherenceInv, FetchIsCurrent, PersistedIsStored,
                          StaleOnlyByLateAnswer
<1>6. CASE AccountPersisted
    <2>1. /\ save # NoSave
          /\ ~save.persisted
          /\ repo' = [repo EXCEPT ![save.addr] = save.value]
          /\ save' = [save EXCEPT !.persisted = TRUE]
          /\ UNCHANGED <<cache, fetch>>
          /\ late \subseteq late'
          /\ AnswerIsOlder(save.addr, save.value) => save.addr \in late'
        BY <1>6 DEF AccountPersisted, Persist
    <2>2. /\ save.addr \in Addr
          /\ repo \in [Addr -> Value \cup {NoAccount}]
          /\ save \in [addr : Addr \cup {NoEntry},
                       value : Value \cup {NoAccount}, persisted : BOOLEAN]
        BY <2>1 DEF DiskTyped, SaveMatches
    <2>3. /\ save'.addr = save.addr
          /\ save'.value = save.value
          /\ save'.persisted = TRUE
        BY <2>1, <2>2
    \* Whoever waits for this account will get what was put, or it is late.
    <2>4. ASSUME NEW r \in Reader, fetch[r].addr = save.addr,
                 save.addr \notin late'
          PROVE  fetch[r].value \in {save.value, NoAccount}
        BY <2>1, <2>4 DEF AnswerIsOlder
    <2>5. FetchIsCurrent'
        BY <2>1, <2>2, <2>4 DEF DiskTyped, FetchTyped, CoherenceInv,
                                FetchIsCurrent
    <2>6. PersistedIsStored'
        BY <2>1, <2>2, <2>3 DEF PersistedIsStored
    <2>7. StaleOnlyByLateAnswer'
        BY <2>1, <2>2, <2>3 DEF CoherenceInv, StaleOnlyByLateAnswer
    <2>8. QED
        BY <2>5, <2>6, <2>7 DEF CoherenceInv
<1>7. CASE AccountSaved
    <2>1. /\ save # NoSave
          /\ save.persisted
          /\ AddToCache(save.addr, unsaved[save.addr])
          /\ save' = NoSave
          /\ UNCHANGED <<repo, fetch>>
          /\ late' \cup {save.addr} = late \cup {save.addr}
          /\ AnswerIsOlder(save.addr, save.value) => late' = late
        BY <1>7 DEF AccountSaved, SaveDone
    <2>2. /\ save.addr \in Addr
          /\ unsaved[save.addr] \in Object
          /\ unsaved[save.addr] = repo[save.addr]
          /\ save.value = repo[save.addr]
        BY <2>1 DEF DiskTyped, SaveMatches, CoherenceInv, PersistedIsStored
    <2>3. /\ cache'[save.addr] = repo[save.addr]
          /\ \A b \in Addr \ {save.addr} : cache'[b] \in {cache[b], NoEntry}
        BY <2>1, <2>2, AddToCacheEntries
    <2>4. StaleOnlyByLateAnswer'
        BY <2>1, <2>2, <2>3 DEF CoherenceInv, StaleOnlyByLateAnswer
    <2>5. FetchIsCurrent'
        <3>1. SUFFICES ASSUME NEW r \in Reader, fetch[r] # NoFetch,
                              fetch[r].addr \notin late'
                       PROVE  fetch[r].value
                                  \in {repo[fetch[r].addr], NoAccount}
            BY <2>1 DEF FetchIsCurrent
        <3>2. CASE fetch[r].addr \notin late
            BY <3>1, <3>2 DEF CoherenceInv, FetchIsCurrent
        \* It was late until this save: no answer under way was older.
        <3>3. CASE fetch[r].addr \in late
            BY <2>1, <2>2, <3>1, <3>3 DEF AnswerIsOlder
        <3>4. QED
            BY <3>2, <3>3
    <2>6. QED
        BY <2>1, <2>4, <2>5 DEF CoherenceInv, PersistedIsStored
<1>8. CASE SaveFails
    \* The account was not persisted, so it was not excused by its save.
    <2>1. /\ ~save.persisted
          /\ save' = NoSave
          /\ UNCHANGED <<cache, repo, fetch, late>>
        BY <1>8 DEF SaveFails, CommitFails
    <2>2. QED
        BY <2>1 DEF CoherenceInv, FetchIsCurrent, PersistedIsStored,
                    StaleOnlyByLateAnswer
<1>9. CASE OtherCached
    <2>1. /\ UNCHANGED <<repo, fetch, save, late>>
          /\ \A b \in Addr : cache'[b] \in {cache[b], NoEntry}
        BY <1>9 DEF OtherCached, DiskTyped, blockVars, history
    <2>2. QED
        BY <2>1 DEF CoherenceInv, FetchIsCurrent, PersistedIsStored,
                    StaleOnlyByLateAnswer
<1>10. CASE UNCHANGED vars
    BY <1>10, <1>u DEF vars, stateVars, blockVars, history
<1>11. QED
    BY <1>1, <1>2, <1>3, <1>4, <1>5, <1>6, <1>7, <1>8, <1>9, <1>10 DEF Next

\* Whatever reads, evictions, commits, failures and rollbacks overlap, and in
\* whatever order LevelDB answers, a cached account is the one in the
\* repository, except during its save or after a save that an older answer
\* was under way to overtake.
THEOREM OnlyLateAnswersMakeStale == Spec => []StaleOnlyByLateAnswer
<1>1. CoherenceInv => StaleOnlyByLateAnswer
    BY DEF CoherenceInv
<1>2. TypeInv /\ CoherenceInv /\ [Next]_vars => CoherenceInv'
    BY CoherenceStep, TypeInvIsDiskTyped
<1>3. QED
    BY TypeInvariant, CoherenceInit, <1>1, <1>2, PTL DEF Spec

-----------------------------------------------------------------------------
(* The size of the cache and the order of its keys *)

\* addToCache keeps the cache within its limit, also when the key it sets is
\* in a full cache, first or not.
LEMMA AddToCacheWithinLimit ==
    ASSUME NEW a \in Addr, NEW obj \in Object,
           cache \in [Addr -> Object \cup {NoEntry}],
           cacheKeys \in Seq(Addr),
           CacheWithinLimit,
           AddToCache(a, obj)
    PROVE  CacheWithinLimit'
<1> DEFINE full == Len(cacheKeys) >= CacheSizeLimit
           kept == IF full THEN Tail(cacheKeys) ELSE cacheKeys
<1> USE CacheSizeLimitAssumption
<1>1. /\ Len(cacheKeys) <= CacheSizeLimit
      /\ NoRepeat(cacheKeys)
      /\ \A b \in Addr : cache[b] # NoEntry <=> Occurs(b, cacheKeys)
    BY DEF CacheWithinLimit, NoRepeat, Occurs
<1>2. /\ kept \in Seq(Addr)
      /\ Len(kept) <= CacheSizeLimit - 1
      /\ NoRepeat(kept)
      /\ \A b \in Addr : Occurs(b, kept) <=>
            Occurs(b, cacheKeys) /\ ~(full /\ b = Head(cacheKeys))
    <2>1. CASE full
        <3>1. cacheKeys # <<>>
            BY <2>1
        <3>2. QED
            BY <1>1, <2>1, <3>1, TailKeys
    <2>2. CASE ~full
        BY <1>1, <2>2
    <2>3. QED
        BY <2>1, <2>2
<1>3. /\ cacheKeys' = IF Occurs(a, kept) THEN kept ELSE Append(kept, a)
      /\ cache' = [b \in Addr |->
                      IF b = a THEN obj
                      ELSE IF full /\ b = Head(cacheKeys) THEN NoEntry
                      ELSE cache[b]]
    BY DEF AddToCache, Occurs
<1> HIDE DEF kept, full
<1>4. /\ Len(cacheKeys') <= CacheSizeLimit
      /\ NoRepeat(cacheKeys')
      /\ \A b \in Addr : Occurs(b, cacheKeys') <=> Occurs(b, kept) \/ b = a
    <2>1. CASE Occurs(a, kept)
        BY <1>2, <1>3, <2>1
    <2>2. CASE ~Occurs(a, kept)
        BY <1>2, <1>3, <2>2, AppendKey
    <2>3. QED
        BY <2>1, <2>2
<1>5. ASSUME NEW b \in Addr
      PROVE  cache'[b] # NoEntry <=> Occurs(b, cacheKeys')
    BY <1>1, <1>2, <1>3, <1>4, MarksAssumption
<1>6. QED
    BY <1>4, <1>5 DEF CacheWithinLimit, NoRepeat, Occurs

\* The return of a read and of saveAccount go through addToCache; other
\* accounts that are cached push out the oldest one.
LEMMA WithinLimitStep ==
    TypeInv /\ CacheWithinLimit /\ [Next]_vars => CacheWithinLimit'
<1> SUFFICES ASSUME TypeInv, CacheWithinLimit, [Next]_vars
             PROVE  CacheWithinLimit'
    OBVIOUS
<1>t. /\ cache \in [Addr -> Object \cup {NoEntry}]
      /\ cacheKeys \in Seq(Addr)
    BY DEF TypeInv, TypeOK, StateTypeOK
<1>u. ASSUME UNCHANGED <<cache, cacheKeys>>
      PROVE  CacheWithinLimit'
    BY <1>u DEF CacheWithinLimit
<1>1. ASSUME NEW r \in Reader, ReadReturns(r)
      PROVE  CacheWithinLimit'
    <2>1. CASE fetch[r].value = NoAccount
        BY <1>1, <1>u, <2>1 DEF ReadReturns, FetchDone
    <2>2. CASE fetch[r].value # NoAccount
        <3>1. fetch[r].addr \in Addr /\ fetch[r].value \in Object
            BY <1>1, <2>2, ObjectAssumption
               DEF ReadReturns, FetchDone, TypeInv, TypeOK, StateTypeOK,
                   FetchTyped
        <3>2. QED
            BY <1>1, <1>t, <2>2, <3>1, AddToCacheWithinLimit
               DEF ReadReturns, FetchDone
    <2>3. QED
        BY <2>1, <2>2
<1>2. CASE AccountSaved
    <2>1. /\ save.addr \in Addr
          /\ unsaved[save.addr] \in Object
          /\ AddToCache(save.addr, unsaved[save.addr])
        BY <1>2 DEF AccountSaved, SaveDone, TypeInv, SaveMatches
    <2>2. QED
        BY <1>t, <2>1, AddToCacheWithinLimit
<1>3. CASE OtherCached
    <2>1. /\ cacheKeys # <<>>
          /\ cacheKeys' = Tail(cacheKeys)
          /\ cache' = [cache EXCEPT ![Head(cacheKeys)] = NoEntry]
        BY <1>3 DEF OtherCached
    <2>2. /\ Len(cacheKeys) <= CacheSizeLimit
          /\ NoRepeat(cacheKeys)
          /\ \A b \in Addr : cache[b] # NoEntry <=> Occurs(b, cacheKeys)
        BY DEF CacheWithinLimit, NoRepeat, Occurs
    <2>3. /\ Len(cacheKeys') = Len(cacheKeys) - 1
          /\ NoRepeat(cacheKeys')
          /\ \A b \in Addr : Occurs(b, cacheKeys') <=>
                Occurs(b, cacheKeys) /\ b # Head(cacheKeys)
        BY <1>t, <2>1, <2>2, TailKeys
    <2>4. \A b \in Addr : cache'[b] # NoEntry <=> Occurs(b, cacheKeys')
        BY <1>t, <2>1, <2>2, <2>3
    <2>5. Len(cacheKeys') <= CacheSizeLimit
        BY <1>t, <2>1, <2>2, <2>3, CacheSizeLimitAssumption
    <2>6. QED
        BY <2>3, <2>4, <2>5 DEF CacheWithinLimit, NoRepeat, Occurs
<1>4. CASE UNCHANGED vars
    BY <1>4, <1>u DEF vars, stateVars
<1>5. QED
    BY <1>1, <1>2, <1>3, <1>4, <1>u
       DEF OtherCredited, Next, BeginBlock, PutAccount, OpenFrame, CommitFrame, RevertFrame,
           ReadMiss, Fetch, BeginCommit, CommitStart, SaveAccount, Encode,
           AccountPersisted, Persist, EndCommit, CommitEnd, SaveFails,
           CommitFails, AbandonBlock,
           cacheAndRepo

\* The cache never has more than CACHE_SIZE_LIMIT entries and its keys and
\* values never part.
THEOREM CacheBound == Spec => []CacheWithinLimit
<1>1. Init => CacheWithinLimit
    BY CacheSizeLimitAssumption DEF Init, StateInit, CacheWithinLimit
<1>2. QED
    BY TypeInvariant, <1>1, WithinLimitStep, PTL DEF Spec

-----------------------------------------------------------------------------
(* The nested store that StateManager implements *)

\* While a block is committed every account is on its way from what it was to
\* what the block's level says: entries not yet saved are those of the level,
\* the others are stored, and no other account has changed.  What is stored of
\* an account that is late is not said.
SavingInv ==
    phase = "saving" =>
        \A a \in Addr :
            LET m == Merged(journalStack)[a]
            IN  IF m = NoEntry
                THEN /\ unsaved[a] = NoEntry
                     /\ a \notin late => Stored[a] = before[a]
                ELSE /\ unsaved[a] \in {m, NoEntry}
                     /\ a \notin late =>
                            /\ Stored[a] \in {before[a], m}
                            /\ unsaved[a] = NoEntry => Stored[a] = m

StoreInv == TypeInv /\ CoherenceInv /\ SavingInv

\* addToCache changes no account that the cache has as the repository has it:
\* eviction does not show, and neither does an entry that is the repository's.
LEMMA StoredStays ==
    ASSUME NEW a \in Addr, NEW obj \in Object, NEW b \in Addr,
           AddToCache(a, obj), UNCHANGED repo,
           cache[b] # NoEntry => cache[b] = repo[b],
           a = b => obj = repo[b]
    PROVE  Stored'[b] = Stored[b]
<1>1. Stored[b] = repo[b]
    BY DEF Stored
<1>2. cache'[b] \in {repo[b], NoEntry}
    BY AddToCacheEntries
<1>3. Stored'[b] = repo[b]
    BY <1>2 DEF Stored
<1>4. QED
    BY <1>1, <1>3

\* An answer that arrives, or another account that is cached, changes no
\* account that is not late, except that it may show early the one whose save
\* LevelDB has performed.
LEMMA ReadChangesNothing ==
    ASSUME DiskTyped, CoherenceInv,
           (\E r \in Reader : ReadReturns(r)) \/ OtherCached,
           NEW b \in Addr, b \notin late
    PROVE  \/ Stored'[b] = Stored[b]
           \/ save.addr = b /\ save.persisted /\ Stored'[b] = repo[b]
<1> USE MarksAssumption, ObjectAssumption
<1>1. UNCHANGED repo
    BY DEF ReadReturns, OtherCached
<1>e. ASSUME cache'[b] \in {cache[b], NoEntry}
      PROVE  \/ Stored'[b] = Stored[b]
             \/ save.addr = b /\ save.persisted /\ Stored'[b] = repo[b]
    BY <1>1, <1>e DEF Stored, CoherenceInv, StaleOnlyByLateAnswer
<1>2. ASSUME NEW r \in Reader, ReadReturns(r)
      PROVE  \/ Stored'[b] = Stored[b]
             \/ save.addr = b /\ save.persisted /\ Stored'[b] = repo[b]
    <2>1. CASE fetch[r].value = NoAccount
        BY <1>1, <1>2, <2>1 DEF ReadReturns, FetchDone, Stored
    <2>2. CASE fetch[r].value # NoAccount
        <3>1. /\ fetch[r].addr \in Addr
              /\ fetch[r].value \in Object
              /\ fetch[r].addr = b => fetch[r].value = repo[b]
              /\ AddToCache(fetch[r].addr, fetch[r].value)
            BY <1>2, <2>2 DEF ReadReturns, FetchDone, DiskTyped, FetchTyped,
                              CoherenceInv, FetchIsCurrent
        <3>2. CASE fetch[r].addr # b
            BY <1>e, <3>1, <3>2, AddToCacheEntries
        <3>3. CASE fetch[r].addr = b
            <4>1. cache'[b] = repo[b]
                BY <3>1, <3>3, AddToCacheEntries
            <4>2. Stored'[b] = repo[b]
                BY <1>1, <4>1 DEF Stored
            <4>3. QED
                BY <4>2 DEF Stored, CoherenceInv, StaleOnlyByLateAnswer
        <3>4. QED
            BY <3>2, <3>3
    <2>3. QED
        BY <2>1, <2>2
<1>3. CASE OtherCached
    BY <1>e, <1>3 DEF OtherCached, DiskTyped
<1>4. QED
    BY <1>2, <1>3

\* Of the steps of a commit LevelDB's put is the one that shows: then, or when
\* saveAccount returns, the account is what the block's level says.
LEMMA SavingStep == StoreInv /\ [Next]_vars => SavingInv'
<1> SUFFICES ASSUME StoreInv, [Next]_vars PROVE SavingInv'
    OBVIOUS
<1> USE MarksAssumption, ObjectAssumption
<1>t. /\ TypeInv /\ CoherenceInv /\ SavingInv
      /\ journalStack \in Seq(Journal)
      /\ unsaved \in Journal
      /\ Merged(journalStack) \in Journal
    BY MergedType DEF StoreInv, TypeInv, TypeOK, StateTypeOK
<1>u. ASSUME UNCHANGED <<journalStack, cache, repo, unsaved, phase, before,
                         late>>
      PROVE  SavingInv'
    BY <1>t, <1>u DEF SavingInv, Stored
<1>1. CASE BeginCommit
    BY <1>1, <1>t DEF BeginCommit, CommitStart, SavingInv, Stored
<1>2. CASE (\E r \in Reader : ReadReturns(r)) \/ OtherCached
    <2>1. UNCHANGED <<journalStack, unsaved, save, phase, before, late>>
        BY <1>2 DEF ReadReturns, OtherCached, blockVars, history
    <2>2. SUFFICES
            ASSUME phase = "saving", NEW b \in Addr
            PROVE  LET m == Merged(journalStack)[b]
                   IN  IF m = NoEntry
                       THEN /\ unsaved[b] = NoEntry
                            /\ b \notin late => Stored'[b] = before[b]
                       ELSE /\ unsaved[b] \in {m, NoEntry}
                            /\ b \notin late =>
                                 /\ Stored'[b] \in {before[b], m}
                                 /\ unsaved[b] = NoEntry => Stored'[b] = m
        BY <2>1 DEF SavingInv
    <2>3. CASE b \in late \/ Stored'[b] = Stored[b]
        BY <1>t, <2>2, <2>3 DEF SavingInv
    <2>4. CASE save.addr = b /\ save.persisted /\ Stored'[b] = repo[b]
        <3>1. save # NoSave
            BY <2>4 DEF NoSave
        <3>2. repo[b] = unsaved[b] /\ unsaved[b] # NoEntry
            BY <1>t, <2>4, <3>1 DEF TypeInv, SaveMatches, CoherenceInv,
                                    PersistedIsStored
        <3>3. QED
            BY <1>t, <2>2, <2>4, <3>2 DEF SavingInv
    <2>5. QED
        BY <1>t, <1>2, <2>3, <2>4, TypeInvIsDiskTyped, ReadChangesNothing
<1>3. CASE AccountPersisted
    <2>1. /\ save # NoSave
          /\ repo' = [repo EXCEPT ![save.addr] = save.value]
          /\ UNCHANGED <<journalStack, cache, unsaved, phase, before>>
          /\ late \subseteq late'
        BY <1>3 DEF AccountPersisted, Persist
    <2>2. /\ save.addr \in Addr
          /\ save.value = unsaved[save.addr]
          /\ unsaved[save.addr] # NoEntry
          /\ repo \in [Addr -> Value \cup {NoAccount}]
        BY <1>t, <2>1 DEF TypeInv, TypeOK, StateTypeOK, SaveMatches
    <2>3. \A b \in Addr :
              \/ Stored'[b] = Stored[b]
              \/ b = save.addr /\ Stored'[b] = unsaved[b]
        BY <2>1, <2>2 DEF Stored
    <2>4. QED
        BY <1>t, <2>1, <2>2, <2>3 DEF SavingInv
<1>4. CASE AccountSaved
    <2>1. /\ save # NoSave
          /\ save.persisted
          /\ phase = "saving"
          /\ AddToCache(save.addr, unsaved[save.addr])
          /\ unsaved' = [unsaved EXCEPT ![save.addr] = NoEntry]
          /\ UNCHANGED <<journalStack, repo, phase, before>>
          /\ late \subseteq late' \cup {save.addr}
        BY <1>4 DEF AccountSaved, SaveDone
    <2>2. /\ save.addr \in Addr
          /\ unsaved[save.addr] \in Object
          /\ unsaved[save.addr] = repo[save.addr]
        BY <1>t, <2>1 DEF TypeInv, SaveMatches, CoherenceInv,
                          PersistedIsStored
    <2>3. ASSUME NEW b \in Addr, b # save.addr, b \notin late
          PROVE  Stored'[b] = Stored[b]
        BY <1>t, <2>1, <2>2, <2>3, StoredStays
           DEF CoherenceInv, StaleOnlyByLateAnswer
    <2>4. Stored'[save.addr] = unsaved[save.addr]
        BY <2>1, <2>2, AddToCacheEntries DEF Stored
    <2>5. Merged(journalStack)[save.addr] = unsaved[save.addr]
        BY <1>t, <2>1, <2>2 DEF SavingInv
    <2>6. \A b \in Addr : b # save.addr => unsaved'[b] = unsaved[b]
        BY <1>t, <2>1 DEF Journal
    <2>7. unsaved'[save.addr] = NoEntry
        BY <1>t, <2>1, <2>2 DEF Journal
    <2>8. QED
        BY <1>t, <2>1, <2>2, <2>3, <2>4, <2>5, <2>6, <2>7 DEF SavingInv
<1>5. CASE phase' # "saving"
    BY <1>5 DEF SavingInv
<1>6. CASE UNCHANGED vars
    BY <1>6, <1>u DEF vars, stateVars, blockVars, history
<1>7. CASE BeginBlock \/ OpenFrame \/ CommitFrame \/ RevertFrame
    BY <1>5, <1>7 DEF BeginBlock, OpenFrame, CommitFrame, RevertFrame
<1>8. CASE EndCommit \/ SaveFails \/ AbandonBlock
    BY <1>5, <1>8 DEF EndCommit, SaveFails, AbandonBlock
<1>9. CASE \E a \in Addr, v \in Value : PutAccount(a, v)
    BY <1>5, <1>9 DEF PutAccount, blockVars
<1>10. CASE \/ \E r \in Reader, a \in Addr : ReadMiss(r, a)
            \/ \E a \in Addr : SaveAccount(a)
    BY <1>10, <1>u
       DEF ReadMiss, Fetch, SaveAccount, Encode, blockVars, history
<1>11. CASE OtherCredited
    <2>1. phase = "idle" /\ phase' = phase
        <3>1. journalStack = <<>> /\ phase' = phase
            BY <1>11 DEF OtherCredited, blockVars
        <3>2. phase # "idle" => Len(journalStack) = frames + 1
              /\ frames \in Nat
            BY <1>t, BlockConstantsAssumption DEF TypeInv, TypeOK
        <3>3. QED
            BY <3>1, <3>2
    <2>2. QED
        BY <1>5, <2>1
<1>12. QED
    BY <1>1, <1>2, <1>3, <1>4, <1>6, <1>7, <1>8, <1>9, <1>10, <1>11 DEF Next

\* SavingInv with the two invariants before it.
LEMMA StoreInvariant == Spec => []StoreInv
<1>1. Init => StoreInv
    BY TypeInit, CoherenceInit DEF StoreInv, SavingInv, Init
<1>2. StoreInv /\ [Next]_vars => StoreInv'
    BY TypeStep, TypeInvIsDiskTyped, CoherenceStep, SavingStep DEF StoreInv
<1>3. QED
    BY <1>1, <1>2, PTL DEF Spec

\* The picture a stack gives of the accounts over what is stored.
PictureOf(s, stored) ==
    [a \in Addr |-> IF Merged(s)[a] # NoEntry THEN Merged(s)[a] ELSE stored[a]]

\* The pictures its levels give, outermost first.
Pictures(s, stored) ==
    [k \in 1..Len(s) |-> PictureOf(SubSeq(s, 1, k), stored)]

\* Pictures are sequences of accounts.
LEMMA PictureType ==
    ASSUME NEW s \in Seq(Journal), NEW stored \in Accounts
    PROVE  /\ PictureOf(s, stored) \in Accounts
           /\ Pictures(s, stored) \in Seq(Accounts)
           /\ Len(Pictures(s, stored)) = Len(s)
<1>1. ASSUME NEW t \in Seq(Journal)
      PROVE  PictureOf(t, stored) \in Accounts
    <2>1. Merged(t) \in Journal
        BY MergedType
    <2>2. QED
        BY <2>1, ObjectAssumption DEF PictureOf, Accounts, Journal, Entry
<1>2. \A k \in 1..Len(s) : SubSeq(s, 1, k) \in Seq(Journal)
    OBVIOUS
<1>3. Len(s) \in Nat
    OBVIOUS
<1>4. \A k \in 1..Len(s) : PictureOf(SubSeq(s, 1, k), stored) \in Accounts
    BY <1>1, <1>2
<1>5. QED
    BY <1>1, <1>3, <1>4 DEF Pictures

\* A further level adds the picture that overrides the last one.
LEMMA PicturesAppend ==
    ASSUME NEW s \in Seq(Journal), NEW j \in Journal, NEW stored \in Accounts
    PROVE  /\ Pictures(Append(s, j), stored) =
                 Append(Pictures(s, stored), PictureOf(Append(s, j), stored))
           /\ PictureOf(Append(s, j), stored) =
                 [a \in Addr |-> IF j[a] # NoEntry THEN j[a]
                                 ELSE PictureOf(s, stored)[a]]
<1> DEFINE n == Len(s)
           t == Append(s, j)
           p == Pictures(s, stored)
           q == Pictures(t, stored)
           r == Append(p, PictureOf(t, stored))
<1>1. /\ n \in Nat
      /\ t \in Seq(Journal) /\ Len(t) = n + 1
      /\ SubSeq(t, 1, n + 1) = t
    OBVIOUS
<1>2. ASSUME NEW k \in 1..n
      PROVE  SubSeq(t, 1, k) = SubSeq(s, 1, k)
    <2>1. /\ SubSeq(t, 1, k) \in Seq(Journal) /\ Len(SubSeq(t, 1, k)) = k
          /\ SubSeq(s, 1, k) \in Seq(Journal) /\ Len(SubSeq(s, 1, k)) = k
          /\ \A i \in 1..k : SubSeq(t, 1, k)[i] = SubSeq(s, 1, k)[i]
        BY <1>1
    <2>2. QED
        BY <2>1, SameSequence
<1>3. /\ p \in Seq(Accounts) /\ Len(p) = n
      /\ q \in Seq(Accounts) /\ Len(q) = n + 1
      /\ PictureOf(t, stored) \in Accounts
    BY <1>1, PictureType
<1>4. /\ \A k \in 1..n : p[k] = PictureOf(SubSeq(s, 1, k), stored)
      /\ \A k \in 1..(n + 1) : q[k] = PictureOf(SubSeq(t, 1, k), stored)
    BY <1>1 DEF Pictures
<1> HIDE DEF t, p, q
<1>5. /\ r \in Seq(Accounts) /\ Len(r) = n + 1
      /\ \A k \in 1..n : r[k] = p[k]
      /\ r[n + 1] = PictureOf(t, stored)
    BY <1>1, <1>3
<1> HIDE DEF r
<1>6. ASSUME NEW k \in 1..(n + 1)
      PROVE  r[k] = q[k]
    <2>1. CASE k = n + 1
        BY <1>1, <1>4, <1>5, <2>1
    <2>2. CASE k \in 1..n
        BY <1>2, <1>4, <1>5, <2>2
    <2>3. QED
        BY <1>1, <2>1, <2>2
<1>7. q = r
    BY <1>3, <1>5, <1>6, SameSequence
<1>8. Merged(t) = [a \in Addr |-> IF j[a] # NoEntry THEN j[a] ELSE Merged(s)[a]]
    BY MergedAppend DEF t
<1>9. PictureOf(t, stored) =
         [a \in Addr |-> IF j[a] # NoEntry THEN j[a] ELSE PictureOf(s, stored)[a]]
    BY <1>8 DEF PictureOf
<1>10. QED
    BY <1>7, <1>9 DEF t, p, q, r

\* No level, no picture but what is stored.
LEMMA PicturesOfNothing ==
    ASSUME NEW stored \in Accounts
    PROVE  /\ Pictures(<<>>, stored) = <<>>
           /\ PictureOf(<<>>, stored) = stored
<1>1. \A a \in Addr : Merged(<<>>)[a] = NoEntry
    BY MergedNothing DEF EmptyJournal
<1>2. QED
    BY <1>1 DEF Pictures, PictureOf, Accounts

\* The levels of the nested store.
Levels == IF phase = "idle" THEN <<>> ELSE Pictures(journalStack, Stored)

\* They are what Store has for them.
LEMMA LevelsAreMapped ==
    Levels = IF phase = "idle"
             THEN <<>>
             ELSE [k \in 1..Len(journalStack) |-> Picture(k)]
BY DEF Levels, Pictures, PictureOf, Picture

\* And so they are after a step.
LEMMA LevelsAreMappedNext ==
    Levels' = (IF phase = "idle"
               THEN <<>>
               ELSE [k \in 1..Len(journalStack) |-> Picture(k)])'
BY DEF Levels, Pictures, PictureOf, Picture

\* The accounts under the journal are accounts.
LEMMA StoredType ==
    ASSUME DiskTyped
    PROVE  Stored \in Accounts
BY MarksAssumption, ObjectAssumption DEF DiskTyped, Stored, Accounts

\* The pictures of an open block: that of the innermost level and the others.
LEMMA PicturesSplit ==
    ASSUME journalStack \in Seq(Journal), journalStack # <<>>,
           NEW stored \in Accounts
    PROVE  LET p == Pictures(Popped, stored)
               x == PictureOf(journalStack, stored)
               levels == Pictures(journalStack, stored)
           IN  /\ p \in Seq(Accounts) /\ x \in Accounts
               /\ levels = Append(p, x)
               /\ Len(levels) = Len(journalStack)
               /\ levels # <<>>
               /\ levels[Len(levels)] = x
               /\ SubSeq(levels, 1, Len(levels) - 1) = p
<1> DEFINE top == journalStack[Len(journalStack)]
           p == Pictures(Popped, stored)
           x == PictureOf(journalStack, stored)
           levels == Pictures(journalStack, stored)
<1>1. /\ Popped \in Seq(Journal)
      /\ top \in Journal
      /\ journalStack = Append(Popped, top)
    BY StackSplits
<1> HIDE DEF top
<1>2. levels = Append(p, x)
    BY <1>1, PicturesAppend
<1>3. p \in Seq(Accounts) /\ x \in Accounts /\ Len(levels) = Len(journalStack)
    BY <1>1, PictureType
<1> HIDE DEF p, x, levels
<1>4. /\ Len(levels) = Len(p) + 1 /\ Len(p) \in Nat
      /\ levels[Len(p) + 1] = x
    BY <1>2, <1>3, Appended
<1>5. SubSeq(levels, 1, Len(levels) - 1) = p
    BY <1>2, <1>3, AppendedGoes
<1>6. levels # <<>>
    BY <1>4
<1>7. QED
    BY <1>2, <1>3, <1>4, <1>5, <1>6 DEF p, x, levels

\* A write changes the innermost picture.
LEMMA WriteRefines ==
    ASSUME journalStack \in Seq(Journal), Stored \in Accounts,
           phase = "block", journalStack # <<>>,
           UNCHANGED <<phase, cache, repo, torn>>,
           NEW a \in Addr, NEW v \in Value, SetAccount(a, v)
    PROVE  Store!Write(a, v)
<1> DEFINE n == Len(journalStack)
           top == journalStack[n]
           new == [top EXCEPT ![a] = v]
           low == PictureOf(Popped, Stored)
           p == Pictures(Popped, Stored)
           x == PictureOf(journalStack, Stored)
           y == PictureOf(journalStack', Stored)
<1>t. /\ journalStack \in Seq(Journal) /\ Stored \in Accounts
      /\ Stored' = Stored
    BY DEF Stored
<1>1. /\ Popped \in Seq(Journal) /\ top \in Journal
      /\ journalStack = Append(Popped, top)
      /\ \A j \in Journal : [journalStack EXCEPT ![n] = j] = Append(Popped, j)
    BY <1>t, StackSplits
<1>2. new \in Journal
    BY <1>1, ObjectAssumption DEF Journal, Entry
<1>3. journalStack' = [journalStack EXCEPT ![n] = new]
    BY DEF SetAccount
<1>4. new = [b \in Addr |-> IF b = a THEN v ELSE top[b]]
    BY <1>1 DEF Journal
<1> HIDE DEF top, new, n
<1>5. journalStack' = Append(Popped, new)
    BY <1>1, <1>2, <1>3
<1>6. /\ Pictures(journalStack, Stored) = Append(p, x)
      /\ x = [b \in Addr |-> IF top[b] # NoEntry THEN top[b] ELSE low[b]]
    BY <1>t, <1>1, PicturesAppend
<1>7. /\ Pictures(journalStack', Stored) = Append(p, y)
      /\ y = [b \in Addr |-> IF new[b] # NoEntry THEN new[b] ELSE low[b]]
    BY <1>t, <1>1, <1>2, <1>5, PicturesAppend
<1>8. y = [x EXCEPT ![a] = v]
  <2> HIDE DEF x, y, low
  <2>1. QED
    BY <1>4, <1>6, <1>7, MarksAssumption, ObjectAssumption
<1>9. /\ Levels = Pictures(journalStack, Stored)
      /\ Levels' = Append(p, [x EXCEPT ![a] = v])
    BY <1>t, <1>7, <1>8 DEF Levels
<1>10. /\ Levels # <<>>
       /\ Levels[Len(Levels)] = x
       /\ SubSeq(Levels, 1, Len(Levels) - 1) = p
    BY <1>t, <1>9, PicturesSplit
<1> HIDE DEF p, x, y
<1>11. QED
    BY <1>t, <1>9, <1>10, LevelsAreMapped, LevelsAreMappedNext
       DEF Store!Write, Store!Top, Store!Outer

\* A new level shows what the one under it shows.
LEMMA NestRefines ==
    ASSUME journalStack \in Seq(Journal), Stored \in Accounts,
           phase = "block", journalStack # <<>>,
           UNCHANGED <<phase, cache, repo, torn>>, Checkpoint
    PROVE  Store!Nest
<1> DEFINE p == Pictures(journalStack, Stored)
           x == PictureOf(journalStack, Stored)
           y == PictureOf(journalStack', Stored)
<1>t. /\ journalStack \in Seq(Journal) /\ Stored \in Accounts
      /\ Stored' = Stored
    BY DEF Stored
<1>1. EmptyJournal \in Journal
    BY DEF EmptyJournal, Journal, Entry
<1>2. journalStack' = Append(journalStack, EmptyJournal)
    BY DEF Checkpoint
<1>3. /\ Pictures(journalStack', Stored) = Append(p, y)
      /\ y = [b \in Addr |-> IF EmptyJournal[b] # NoEntry THEN EmptyJournal[b]
                             ELSE x[b]]
    BY <1>t, <1>1, <1>2, PicturesAppend
<1>4. x \in Accounts
    BY <1>t, PictureType
<1>5. y = x
  <2> HIDE DEF x, y
  <2>1. QED
    BY <1>3, <1>4 DEF EmptyJournal, Accounts
<1>6. Levels = p /\ Levels' = Append(p, x)
    BY <1>t, <1>3, <1>5 DEF Levels
<1>7. Levels # <<>> /\ Levels[Len(Levels)] = x
    BY <1>t, <1>6, PicturesSplit
<1> HIDE DEF p, x, y
<1>8. QED
    BY <1>t, <1>6, <1>7, LevelsAreMapped, LevelsAreMappedNext
       DEF Store!Nest, Store!Top

\* Closing a level leaves the one under it with what the closed one showed.
LEMMA KeepRefines ==
    ASSUME journalStack \in Seq(Journal), Stored \in Accounts,
           phase = "block", Len(journalStack) > 1,
           UNCHANGED <<phase, cache, repo, torn>>, CommitCheckpoint
    PROVE  Store!Keep
<1> DEFINE n == Len(journalStack)
           top == journalStack[n]
           low == journalStack[n - 1]
           both == [a \in Addr |-> IF top[a] # NoEntry THEN top[a] ELSE low[a]]
           rest == SubSeq(Popped, 1, Len(Popped) - 1)
           q == Pictures(rest, Stored)
           z == PictureOf(rest, Stored)
           y == PictureOf(Popped, Stored)
           x == PictureOf(journalStack, Stored)
           w == PictureOf(journalStack', Stored)
<1>t. /\ journalStack \in Seq(Journal) /\ Stored \in Accounts
      /\ Stored' = Stored /\ journalStack # <<>>
    BY DEF Stored
<1>1. /\ Popped \in Seq(Journal) /\ top \in Journal
      /\ Len(Popped) = n - 1
      /\ journalStack = Append(Popped, top)
    BY <1>t, StackSplits
<1>2. low = Popped[n - 1]
    BY <1>t, <1>1 DEF Popped
<1>3. journalStack' = [Popped EXCEPT ![n - 1] = both]
    BY <1>t DEF CommitCheckpoint
<1>4. n \in Nat /\ n > 1
    BY <1>t
<1> HIDE DEF top, low, n
<1>5. /\ rest \in Seq(Journal) /\ low \in Journal
      /\ Popped = Append(rest, low)
      /\ \A j \in Journal : [Popped EXCEPT ![n - 1] = j] = Append(rest, j)
    <2>1. Popped # <<>>
        BY <1>1, <1>4
    <2>2. /\ rest \in Seq(Journal)
          /\ Popped[Len(Popped)] \in Journal
          /\ Popped = Append(rest, Popped[Len(Popped)])
          /\ \A j \in Journal :
                [Popped EXCEPT ![Len(Popped)] = j] = Append(rest, j)
        BY <1>1, <2>1, SequenceSplits
    <2> HIDE DEF rest
    <2>3. QED
        BY <1>1, <1>2, <2>2
<1>6. both \in Journal
    BY <1>1, <1>5 DEF Journal
<1> HIDE DEF both, rest
<1>7. journalStack' = Append(rest, both)
    BY <1>3, <1>5, <1>6
<1>8. /\ Pictures(Popped, Stored) = Append(q, y)
      /\ y = [a \in Addr |-> IF low[a] # NoEntry THEN low[a] ELSE z[a]]
    BY <1>t, <1>5, PicturesAppend
<1>9. x = [a \in Addr |-> IF top[a] # NoEntry THEN top[a] ELSE y[a]]
    BY <1>t, <1>1, PicturesAppend
<1>10. /\ Pictures(journalStack', Stored) = Append(q, w)
       /\ w = [a \in Addr |-> IF both[a] # NoEntry THEN both[a] ELSE z[a]]
    BY <1>t, <1>5, <1>6, <1>7, PicturesAppend
<1>11. w = x
  <2> HIDE DEF w, x, y, z
  <2>1. QED
    BY <1>8, <1>9, <1>10 DEF both
<1>12. /\ q \in Seq(Accounts) /\ y \in Accounts /\ x \in Accounts
    BY <1>t, <1>1, <1>5, PictureType
<1>13. /\ Levels = Pictures(journalStack, Stored)
       /\ Levels' = Append(q, x)
    BY <1>t, <1>10, <1>11 DEF Levels
<1>14. /\ Len(Levels) = n
       /\ Levels[Len(Levels)] = x
       /\ SubSeq(Levels, 1, Len(Levels) - 1) = Append(q, y)
    BY <1>t, <1>8, <1>13, PicturesSplit DEF n
<1> HIDE DEF q, x, y, z, w
<1>15. [Append(q, y) EXCEPT ![Len(Append(q, y))] = x] = Append(q, x)
    BY <1>12, LastReplaced
<1>16. QED
    BY <1>t, <1>4, <1>13, <1>14, <1>15, LevelsAreMapped, LevelsAreMappedNext
       DEF Store!Keep, Store!Top, Store!Outer

\* Undoing a level leaves the pictures of the others.
LEMMA UndoRefines ==
    ASSUME journalStack \in Seq(Journal), Stored \in Accounts,
           phase = "block", Len(journalStack) > 1,
           UNCHANGED <<phase, cache, repo, torn>>, RevertCheckpoint
    PROVE  Store!Undo
<1>t. /\ journalStack \in Seq(Journal) /\ Stored \in Accounts
      /\ Stored' = Stored /\ journalStack # <<>>
    BY DEF Stored
<1>1. /\ Levels = Pictures(journalStack, Stored)
      /\ Levels' = Pictures(Popped, Stored)
    BY <1>t DEF Levels, RevertCheckpoint
<1>2. /\ Len(Levels) = Len(journalStack)
      /\ SubSeq(Levels, 1, Len(Levels) - 1) = Pictures(Popped, Stored)
    BY <1>t, <1>1, PicturesSplit
<1>3. QED
    BY <1>t, <1>1, <1>2, LevelsAreMapped, LevelsAreMappedNext
       DEF Store!Undo, Store!Outer

\* One level that is partly stored gives the picture it gives on what was
\* stored before.
LEMMA PicturesOfOne ==
    ASSUME NEW s \in Seq(Journal), Len(s) = 1,
           NEW stored \in Accounts, NEW earlier \in Accounts,
           \A a \in Addr : IF Merged(s)[a] = NoEntry
                           THEN stored[a] = earlier[a]
                           ELSE stored[a] \in {earlier[a], Merged(s)[a]}
    PROVE  Pictures(s, stored) = <<PictureOf(s, earlier)>>
<1>1. SubSeq(s, 1, 1) = s
    OBVIOUS
<1>2. PictureOf(s, stored) = PictureOf(s, earlier)
    BY DEF PictureOf
<1> DEFINE x == PictureOf(s, earlier)
           t == [k \in 1..1 |-> PictureOf(SubSeq(s, 1, k), stored)]
<1>3. \A k \in 1..1 : PictureOf(SubSeq(s, 1, k), stored) = x
    <2> SUFFICES ASSUME NEW k \in 1..1
                 PROVE  PictureOf(SubSeq(s, 1, k), stored) = x
        OBVIOUS
    <2>1. k = 1
        OBVIOUS
    <2>2. SubSeq(s, 1, k) = s
        BY <1>1, <2>1
    <2>3. QED
        BY <1>2, <2>2
<1> HIDE DEF x
<1>4. [k \in 1..1 |-> x] = <<x>>
    OBVIOUS
<1>5. t = [k \in 1..1 |-> x]
    BY <1>3
<1>6. Pictures(s, stored) = t
    BY DEF Pictures
<1>7. QED
    BY <1>4, <1>5, <1>6 DEF x

\* What the nested store has while a block is committed does not depend on how
\* far the commit is.
LEMMA SavingIsMapped ==
    ASSUME StoreInv, late = {}, phase = "saving"
    PROVE  Levels = <<PictureOf(journalStack, before)>>
<1>1. /\ journalStack \in Seq(Journal)
      /\ Len(journalStack) = 1
      /\ Stored \in Accounts /\ before \in Accounts
    BY StoredType, TypeInvIsDiskTyped DEF StoreInv, TypeInv, TypeOK, StateTypeOK
<1>2. QED
    BY <1>1, PicturesOfOne DEF StoreInv, SavingInv, Levels

\* The next state has it too.
LEMMA SavingIsMappedNext ==
    ASSUME StoreInv', late' = {}, phase' = "saving"
    PROVE  Levels' = <<PictureOf(journalStack', before')>>
<1>1. /\ journalStack' \in Seq(Journal)
      /\ Len(journalStack') = 1
      /\ Stored' \in Accounts /\ before' \in Accounts
    BY MarksAssumption, ObjectAssumption
       DEF StoreInv, TypeInv, TypeOK, StateTypeOK, Stored, Accounts
<1>2. QED
    BY <1>1, PicturesOfOne DEF StoreInv, SavingInv, Levels

\* A block that begins has one picture, that of what is stored.
LEMMA BeginRefines ==
    ASSUME Stored \in Accounts, BeginBlock
    PROVE  Store!Begin
<1>t. Stored \in Accounts /\ Stored' = Stored
    BY DEF BeginBlock, cacheAndRepo, Stored
<1>1. <<>> \in Seq(Journal) /\ EmptyJournal \in Journal
    BY DEF EmptyJournal, Journal, Entry
<1>2. journalStack' = Append(<<>>, EmptyJournal)
    BY DEF BeginBlock, StartBlock
<1>3. /\ Pictures(journalStack', Stored) =
            Append(Pictures(<<>>, Stored), PictureOf(journalStack', Stored))
      /\ PictureOf(journalStack', Stored) =
            [a \in Addr |-> IF EmptyJournal[a] # NoEntry THEN EmptyJournal[a]
                            ELSE PictureOf(<<>>, Stored)[a]]
    BY <1>t, <1>1, <1>2, PicturesAppend
<1>4. /\ Pictures(<<>>, Stored) = <<>>
      /\ PictureOf(<<>>, Stored) = Stored
    BY <1>t, PicturesOfNothing
<1>5. PictureOf(journalStack', Stored) = Stored
    BY <1>t, <1>3, <1>4 DEF EmptyJournal, Accounts
<1>e. \A x : Append(<<>>, x) = <<x>>
    OBVIOUS
<1>6. Levels = <<>> /\ Levels' = <<Stored>>
    <2>1. Pictures(journalStack', Stored) = <<Stored>>
        BY <1>3, <1>4, <1>5, <1>e
    <2>2. Levels' = Pictures(journalStack', Stored')
        BY DEF Levels, BeginBlock
    <2>3. QED
        BY <1>t, <2>1, <2>2 DEF Levels, BeginBlock
<1>7. QED
    BY <1>t, <1>6, LevelsAreMapped, LevelsAreMappedNext
       DEF Store!Begin, BeginBlock

\* A commit ends with everything stored, or torn.
LEMMA EndRefines ==
    ASSUME StoreInv, late = {}, EndCommit \/ SaveFails
    PROVE  Store!Commit \/ Store!Tear
<1> DEFINE x == PictureOf(journalStack, before)
<1>t. /\ Stored \in Accounts /\ before \in Accounts
      /\ unsaved \in Journal
      /\ Stored' = Stored
      /\ phase = "saving" /\ phase' = "idle"
    BY StoredType, TypeInvIsDiskTyped
       DEF StoreInv, TypeInv, TypeOK, StateTypeOK, EndCommit,
       SaveFails, CommitEnd, CommitFails, Stored
<1>1. Levels = <<x>> /\ Levels' = <<>>
    BY <1>t, SavingIsMapped DEF Levels
<1>2. \A a \in Addr : Stored[a] \in {before[a], x[a]}
    BY <1>t DEF StoreInv, SavingInv, PictureOf
<1>3. CASE EndCommit
    <2>1. \A a \in Addr : Stored[a] = x[a]
        BY <1>3, <1>t DEF StoreInv, SavingInv, PictureOf, EndCommit,
                          CommitEnd, EmptyJournal
    <2>2. Stored = x
        BY <1>t, <2>1 DEF Accounts, PictureOf
    <2> HIDE DEF x
    <2>3. QED
        BY <1>t, <1>1, <1>3, <2>2, LevelsAreMapped, LevelsAreMappedNext
           DEF Store!Commit, Store!Top, EndCommit
<1>4. CASE SaveFails
  <2> HIDE DEF x
  <2>1. QED
    BY <1>t, <1>1, <1>2, <1>4, LevelsAreMapped, LevelsAreMappedNext
       DEF Store!Tear, Store!Top, Store!Accounts, Accounts, SaveFails
<1>5. QED
    BY <1>3, <1>4

\* A block that is rolled back was never there.
LEMMA AbandonRefines ==
    ASSUME TypeInv, AbandonBlock
    PROVE  Store!Abandon
<1>1. /\ journalStack \in Seq(Journal) /\ journalStack # <<>>
      /\ Stored \in Accounts /\ Stored' = Stored
      /\ phase = "block" /\ phase' = "idle" /\ UNCHANGED torn
    BY StoredType, TypeInvIsDiskTyped
       DEF TypeInv, TypeOK, StateTypeOK, AbandonBlock,
       cacheAndRepo, history, Stored
<1>2. Levels # <<>> /\ Levels' = <<>>
    BY <1>1, PicturesSplit DEF Levels
<1>3. QED
    BY <1>1, <1>2, LevelsAreMapped, LevelsAreMappedNext DEF Store!Abandon

\* The other steps do not show: reads and what is evicted, credits of other
\* accounts, the beginning of a commit and each of its saves.
LEMMA QuietRefines ==
    ASSUME StoreInv, StoreInv', NoneIsLate,
           \/ \E r \in Reader, a \in Addr : ReadMiss(r, a)
           \/ \E r \in Reader : ReadReturns(r)
           \/ BeginCommit
           \/ \E a \in Addr : SaveAccount(a)
           \/ AccountPersisted
           \/ AccountSaved
           \/ OtherCached
           \/ OtherCredited
           \/ UNCHANGED vars
    PROVE  UNCHANGED Store!storeVars
<1>t. /\ TypeInv /\ CoherenceInv /\ UNCHANGED torn
      /\ phase # "idle" => UNCHANGED journalStack
      /\ late = {} /\ late' = {}
    <2>1. CASE OtherCredited
        BY <2>1 DEF StoreInv, TypeInv, TypeOK, OtherCredited, NoneIsLate,
                    blockVars, history
    <2>2. QED
        BY <2>1
           DEF StoreInv, ReadMiss, Fetch, ReadReturns, BeginCommit,
           CommitStart, SaveAccount, Encode, AccountPersisted, Persist,
           AccountSaved, SaveDone, OtherCached, NoneIsLate, blockVars,
           history, vars, stateVars
<1>1. CASE phase = "saving"
    <2>1. UNCHANGED <<phase, before>>
        BY <1>1 DEF ReadMiss, ReadReturns, BeginCommit, SaveAccount,
           AccountPersisted, AccountSaved, OtherCached, OtherCredited,
           blockVars, history, vars
    <2>2. Levels' = Levels
        BY <1>t, <1>1, <2>1, SavingIsMapped, SavingIsMappedNext
    <2>3. QED
        BY <1>t, <1>1, <2>1, <2>2, LevelsAreMapped, LevelsAreMappedNext
           DEF Store!storeVars
<1>2. CASE phase # "saving"
    <2>1. Stored' = Stored
        <3>1. CASE UNCHANGED <<cache, repo>>
            BY <3>1 DEF Stored
        <3>2. CASE (\E r \in Reader : ReadReturns(r)) \/ OtherCached
            <4>1. save = NoSave /\ save.persisted = FALSE
                BY <1>t, <1>2 DEF TypeInv, TypeOK, NoSave
            <4>2. \A b \in Addr : Stored'[b] = Stored[b]
                BY <1>t, <3>2, <4>1, TypeInvIsDiskTyped, ReadChangesNothing
            <4>3. QED
                BY <4>2 DEF Stored
        <3>3. QED
            BY <1>2, <3>1, <3>2 DEF ReadMiss, Fetch, BeginCommit, CommitStart,
               SaveAccount, AccountPersisted, AccountSaved, OtherCredited,
               cacheAndRepo, vars, stateVars
    <2>2. CASE BeginCommit
        BY <1>t, <2>1, <2>2, LevelsAreMapped, LevelsAreMappedNext
           DEF Store!storeVars, BeginCommit, Levels
    <2>3. CASE UNCHANGED phase
        <3>1. Levels' = Levels
            BY <1>t, <2>1, <2>3 DEF Levels
        <3>2. QED
            BY <1>t, <1>2, <2>1, <2>3, <3>1, LevelsAreMapped,
               LevelsAreMappedNext DEF Store!storeVars
    <2>4. QED
        BY <1>2, <2>2, <2>3 DEF ReadMiss, ReadReturns, SaveAccount,
           AccountPersisted, AccountSaved, OtherCached, OtherCredited,
           blockVars, vars
<1>3. QED
    BY <1>1, <1>2

\* With no account late every step is a step of the nested store or none.
LEMMA StepRefines ==
    ASSUME StoreInv, StoreInv', NoneIsLate, [Next]_vars
    PROVE  [Store!StoreNext]_(Store!storeVars)
<1> USE DEF Store!StoreNext
<1>t. /\ TypeInv
      /\ journalStack \in Seq(Journal) /\ Stored \in Accounts
      /\ phase # "idle" => Len(journalStack) = frames + 1
      /\ frames \in Nat
      /\ late = {}
    BY BlockConstantsAssumption, StoredType, TypeInvIsDiskTyped
       DEF StoreInv, TypeInv, TypeOK, StateTypeOK, NoneIsLate
<1>s. phase = "block" => journalStack # <<>>
    BY <1>t
<1>1. CASE BeginBlock
    BY <1>t, <1>1, BeginRefines
<1>2. ASSUME NEW a \in Addr, NEW v \in Value, PutAccount(a, v)
      PROVE  Store!StoreNext
    BY <1>t, <1>s, <1>2, WriteRefines
       DEF PutAccount, cacheAndRepo, blockVars, history
<1>3. CASE OpenFrame
    BY <1>t, <1>s, <1>3, NestRefines DEF OpenFrame, cacheAndRepo, history
<1>4. CASE CommitFrame
    BY <1>t, <1>4, KeepRefines DEF CommitFrame, cacheAndRepo, history
<1>5. CASE RevertFrame
    BY <1>t, <1>5, UndoRefines DEF RevertFrame, cacheAndRepo, history
<1>6. CASE EndCommit \/ SaveFails
    BY <1>t, <1>6, EndRefines
<1>7. CASE AbandonBlock
    BY <1>t, <1>7, AbandonRefines
<1>8. QED
    BY <1>1, <1>2, <1>3, <1>4, <1>5, <1>6, <1>7, QuietRefines DEF Next

\* Journal, cache and slow commit together implement the nested store: its
\* levels are the pictures of the open levels, its commits happen when
\* commitBlock ends, and nobody sees a read, an eviction or a save go by.
\* Steps with an account that is late are excepted.
THEOREM StoreIsImplemented == Spec => ImplementsStore
<1>1. Init => Store!StoreInit
    BY MarksAssumption, ObjectAssumption
       DEF Init, StateInit, Store!StoreInit, Store!Accounts, Stored
<1>2. StoreInv /\ StoreInv' /\ [Next]_vars =>
          [NoneIsLate => Store!StoreNext]_(Store!storeVars)
    BY StepRefines
<1>3. QED
    BY <1>1, <1>2, StoreInvariant, PTL DEF Spec, ImplementsStore

-----------------------------------------------------------------------------
(* eth_call beside the block *)

\* The requests that have opened a checkpoint and not reverted it, and those
\* in which runCall has opened its own.
Opened == {c \in Caller : call[c] \in {"open", "running"}}
Running == {c \in Caller : call[c] = "running"}

\* With no block open, a level that has an entry, and all that are above it,
\* are fewer than the levels that calls are still going to revert, or as many.
\* A level that a late write made on an empty stack counts as one of the two
\* that its call has lost; the level of a credit has no entry.
CallsInv ==
    /\ journalStack \in Seq(Journal)
    /\ call \in [Caller -> {"none", "open", "running", "thrown"}]
    /\ IsFiniteSet(Opened) /\ IsFiniteSet(Running)
    /\ phase = "idle" =>
           \A i \in DOMAIN journalStack :
               journalStack[i] # EmptyJournal =>
                   Len(journalStack) <
                       i + Cardinality(Opened) + Cardinality(Running)

\* No call runs at first and the stack is empty.
LEMMA CallsInit == CallInit => CallsInv
<1> SUFFICES ASSUME CallInit PROVE CallsInv
    OBVIOUS
<1>1. Opened = {} /\ Running = {}
    BY DEF CallInit, Opened, Running
<1>2. QED
    BY <1>1, FS_EmptySet DEF CallInit, Init, StateInit, CallsInv

\* A finite set that an element is put in or taken out of.
LEMMA OneMoves ==
    ASSUME NEW S, IsFiniteSet(S), NEW T, NEW c,
           T = S \cup {c} \/ T = S \ {c}
    PROVE  /\ IsFiniteSet(T)
           /\ Cardinality(S) \in Nat
           /\ Cardinality(T) = Cardinality(S)
                 + (IF c \in T THEN 1 ELSE 0) - (IF c \in S THEN 1 ELSE 0)
<1>1. Cardinality(S) \in Nat
    BY FS_CardinalityType
<1>2. CASE T = S \cup {c}
    <2>1. /\ IsFiniteSet(T)
          /\ Cardinality(T) =
                 IF c \in S THEN Cardinality(S) ELSE Cardinality(S) + 1
        BY <1>2, FS_AddElement
    <2>2. c \in T
        BY <1>2
    <2>3. QED
        BY <1>1, <2>1, <2>2
<1>3. CASE T = S \ {c}
    <2>1. /\ IsFiniteSet(T)
          /\ Cardinality(T) =
                 IF c \in S THEN Cardinality(S) - 1 ELSE Cardinality(S)
        BY <1>3, FS_RemoveElement
    <2>2. c \notin T
        BY <1>3
    <2>3. QED
        BY <1>1, <2>1, <2>2
<1>4. QED
    BY <1>2, <1>3

\* The levels that a call in a given place is going to revert.
Owes(place) ==
    (IF place \in {"open", "running"} THEN 1 ELSE 0)
        + (IF place = "running" THEN 1 ELSE 0)

\* What a call that goes on does to the two sets.
LEMMA CallMoves ==
    ASSUME CallsInv, NEW c \in Caller,
           NEW s \in {"none", "open", "running", "thrown"},
           call' = [call EXCEPT ![c] = s]
    PROVE  /\ call' \in [Caller -> {"none", "open", "running", "thrown"}]
           /\ IsFiniteSet(Opened') /\ IsFiniteSet(Running')
           /\ Cardinality(Opened) + Cardinality(Running) \in Nat
           /\ Cardinality(Opened') + Cardinality(Running') =
                  Cardinality(Opened) + Cardinality(Running)
                      + Owes(s) - Owes(call[c])
           /\ Cardinality(Opened') + Cardinality(Running') >= Owes(s)
<1>1. /\ call' \in [Caller -> {"none", "open", "running", "thrown"}]
      /\ call'[c] = s
      /\ IsFiniteSet(Opened) /\ IsFiniteSet(Running)
    BY DEF CallsInv
<1>2. Opened' = Opened \cup {c} \/ Opened' = Opened \ {c}
    BY DEF CallsInv, Opened
<1>3. Running' = Running \cup {c} \/ Running' = Running \ {c}
    BY DEF CallsInv, Running
<1>4. /\ c \in Opened <=> call[c] \in {"open", "running"}
      /\ c \in Running <=> call[c] = "running"
      /\ c \in Opened' <=> s \in {"open", "running"}
      /\ c \in Running' <=> s = "running"
    BY <1>1 DEF Opened, Running
<1> HIDE DEF Opened, Running
<1>5. /\ IsFiniteSet(Opened')
      /\ Cardinality(Opened) \in Nat
      /\ Cardinality(Opened') = Cardinality(Opened)
            + (IF c \in Opened' THEN 1 ELSE 0)
            - (IF c \in Opened THEN 1 ELSE 0)
    BY <1>1, <1>2, OneMoves
<1>6. /\ IsFiniteSet(Running')
      /\ Cardinality(Running) \in Nat
      /\ Cardinality(Running') = Cardinality(Running)
            + (IF c \in Running' THEN 1 ELSE 0)
            - (IF c \in Running THEN 1 ELSE 0)
    BY <1>1, <1>3, OneMoves
<1>7. /\ Cardinality(Opened') \in Nat /\ Cardinality(Running') \in Nat
      /\ c \in Opened' => Cardinality(Opened') # 0
      /\ c \in Running' => Cardinality(Running') # 0
    BY <1>5, <1>6, FS_CardinalityType, FS_EmptySet
<1>8. Cardinality(Opened') + Cardinality(Running') >= Owes(s)
    BY <1>4, <1>7 DEF Owes
<1>9. /\ (IF c \in Opened' THEN 1 ELSE 0) + (IF c \in Running' THEN 1 ELSE 0)
           = Owes(s)
      /\ (IF c \in Opened THEN 1 ELSE 0) + (IF c \in Running THEN 1 ELSE 0)
           = Owes(call[c])
    BY <1>4 DEF Owes
<1>10. PICK o, r, p, q \in 0..1 :
           /\ o = (IF c \in Opened' THEN 1 ELSE 0)
           /\ r = (IF c \in Running' THEN 1 ELSE 0)
           /\ p = (IF c \in Opened THEN 1 ELSE 0)
           /\ q = (IF c \in Running THEN 1 ELSE 0)
    OBVIOUS
<1> HIDE DEF Owes
<1>11. /\ Cardinality(Opened) + Cardinality(Running) \in Nat
       /\ Cardinality(Opened') + Cardinality(Running') =
              Cardinality(Opened) + Cardinality(Running)
                  + (o + r) - (p + q)
    BY <1>5, <1>6, <1>10
<1>12. o + r = Owes(s) /\ p + q = Owes(call[c])
    BY <1>9, <1>10
<1>13. QED
    BY <1>1, <1>5, <1>6, <1>8, <1>11, <1>12

\* What a call in each state has still to take off the stack.
LEMMA OwesValues ==
    /\ Owes("none") = 0 /\ Owes("thrown") = 0
    /\ Owes("open") = 1 /\ Owes("running") = 2
BY DEF Owes

\* A call keeps the account of the levels when what is above an old entry
\* shrinks by what the call owes no longer, and what is above a new one is
\* less than it owes.
LEMMA CallMoved ==
    ASSUME CallsInv, NEW c \in Caller,
           NEW s \in {"none", "open", "running", "thrown"},
           call' = [call EXCEPT ![c] = s],
           phase' = phase,
           journalStack' \in Seq(Journal),
           \A i \in 1..Len(journalStack') :
               \/ journalStack'[i] = EmptyJournal
               \/ /\ i <= Len(journalStack)
                  /\ journalStack[i] # EmptyJournal
                  /\ Len(journalStack') <=
                         Len(journalStack) + Owes(s) - Owes(call[c])
               \/ Len(journalStack') < i + Owes(s)
    PROVE  CallsInv'
<1> DEFINE n == Cardinality(Opened) + Cardinality(Running)
           m == Cardinality(Opened') + Cardinality(Running')
<1>1. /\ call' \in [Caller -> {"none", "open", "running", "thrown"}]
      /\ IsFiniteSet(Opened') /\ IsFiniteSet(Running')
      /\ n \in Nat /\ m = n + Owes(s) - Owes(call[c])
      /\ m >= Owes(s)
    BY CallMoves
<1>2. Cardinality(Opened') \in Nat /\ Cardinality(Running') \in Nat
    BY <1>1, FS_CardinalityType
<1>3. m \in Nat
    BY <1>2
<1>4. /\ call[c] \in {"none", "open", "running", "thrown"}
      /\ Len(journalStack) \in Nat /\ Len(journalStack') \in Nat
      /\ DOMAIN journalStack' = 1..Len(journalStack')
      /\ DOMAIN journalStack = 1..Len(journalStack)
    BY DEF CallsInv
<1>5. Owes(s) \in Nat /\ Owes(call[c]) \in Nat
    BY <1>4 DEF Owes
<1>6. ASSUME phase = "idle", NEW i \in 1..Len(journalStack),
             journalStack[i] # EmptyJournal
      PROVE  Len(journalStack) < i + n
    <2>1. /\ Cardinality(Opened) \in Nat /\ Cardinality(Running) \in Nat
        BY FS_CardinalityType DEF CallsInv
    <2>2. Len(journalStack) < i + Cardinality(Opened) + Cardinality(Running)
        BY <1>4, <1>6 DEF CallsInv
    <2>3. QED
        BY <2>1, <2>2
<1>7. ASSUME phase' = "idle", NEW i \in 1..Len(journalStack'),
             journalStack'[i] # EmptyJournal
      PROVE  Len(journalStack') <
                 i + Cardinality(Opened') + Cardinality(Running')
    <2> HIDE DEF n
    <2>1. ASSUME i <= Len(journalStack), journalStack[i] # EmptyJournal,
                 Len(journalStack') <=
                     Len(journalStack) + Owes(s) - Owes(call[c])
          PROVE  Len(journalStack') < i + m
        <3>1. i \in 1..Len(journalStack)
            BY <1>4, <1>7, <2>1
        <3>2. Len(journalStack) < i + n
            BY <1>6, <1>7, <2>1, <3>1
        <3> HIDE DEF m
        <3>3. QED
            BY <1>1, <1>3, <1>4, <1>5, <2>1, <3>2
    <2>2. ASSUME Len(journalStack') < i + Owes(s)
          PROVE  Len(journalStack') < i + m
        <3> HIDE DEF m
        <3>1. QED
            BY <1>1, <1>3, <1>4, <1>5, <2>2
    <2>3. Len(journalStack') < i + m
        BY <1>7, <2>1, <2>2
    <2>4. QED
        BY <1>2, <2>3
<1>8. QED
    BY <1>1, <1>4, <1>7 DEF CallsInv

\* Each step of a call keeps the account of the levels.
LEMMA CallStepKeeps == CallsInv /\ CallStep => CallsInv'
<1> SUFFICES ASSUME CallsInv, NEW c \in Caller,
                    \/ CallOpens(c)
                    \/ CallRuns(c)
                    \/ \E a \in Addr, v \in Value : CallWrites(c, a, v)
                    \/ CallReturns(c)
                    \/ CallThrows(c)
                    \/ CallReverts(c)
                    \/ CallRevertsAgain(c)
             PROVE  CallsInv'
    BY DEF CallStep
<1>t. /\ journalStack \in Seq(Journal)
      /\ Len(journalStack) \in Nat
    BY DEF CallsInv
<1>c. ASSUME Checkpoint
      PROVE  /\ journalStack' \in Seq(Journal)
             /\ Len(journalStack') = Len(journalStack) + 1
             /\ \A i \in 1..Len(journalStack') :
                   \/ journalStack'[i] = EmptyJournal
                   \/ /\ i <= Len(journalStack)
                      /\ journalStack[i] # EmptyJournal
    <2>1. /\ journalStack' \in Seq(Journal)
          /\ Len(journalStack') = Len(journalStack) + 1
        BY <1>t, <1>c, CheckpointType
    <2>2. ASSUME NEW i \in 1..Len(journalStack')
          PROVE  journalStack'[i] = IF i <= Len(journalStack)
                                    THEN journalStack[i] ELSE EmptyJournal
        BY <1>t, <1>c, <2>1 DEF Checkpoint
    <2>3. QED
        BY <2>1, <2>2
<1>p. ASSUME RevertCheckpoint
      PROVE  /\ journalStack' \in Seq(Journal)
             /\ Len(journalStack') = Len(journalStack) - 1
             /\ \A i \in 1..Len(journalStack') :
                   i <= Len(journalStack) /\ journalStack'[i] = journalStack[i]
    <2>1. /\ journalStack' \in Seq(Journal)
          /\ Len(journalStack') = Len(journalStack) - 1
          /\ journalStack' = Popped
        BY <1>t, <1>p, PoppedType DEF RevertCheckpoint
    <2>2. QED
        BY <1>t, <2>1 DEF Popped
<1>1. CASE CallOpens(c)
    <2>1. call[c] = "none" /\ call' = [call EXCEPT ![c] = "open"]
          /\ phase' = phase /\ Checkpoint
        BY <1>1 DEF CallOpens, blockVars
    <2>2. Len(journalStack') <=
              Len(journalStack) + Owes("open") - Owes(call[c])
        BY <1>t, <1>c, <2>1, OwesValues
    <2>3. QED
        BY <1>c, <2>1, <2>2, CallMoved
<1>2. CASE CallRuns(c)
    <2>1. call[c] = "open" /\ call' = [call EXCEPT ![c] = "running"]
          /\ phase' = phase /\ Checkpoint
        BY <1>2 DEF CallRuns, blockVars
    <2>2. Len(journalStack') <=
              Len(journalStack) + Owes("running") - Owes(call[c])
        BY <1>t, <1>c, <2>1, OwesValues
    <2>3. QED
        BY <1>c, <2>1, <2>2, CallMoved
<1>3. ASSUME NEW a \in Addr, NEW v \in Value, CallWrites(c, a, v)
      PROVE  CallsInv'
    <2>1. /\ call[c] = "running" /\ call' = [call EXCEPT ![c] = "running"]
          /\ phase' = phase /\ SetAccount(a, v)
          /\ v \in Object
        BY <1>3, ObjectAssumption DEF CallWrites, blockVars, CallsInv
    <2>2. /\ journalStack' \in Seq(Journal)
          /\ Len(journalStack') = IF journalStack = <<>> THEN 1
                                  ELSE Len(journalStack)
        BY <1>t, <2>1, SetAccountType
    \* What is below the top is as it was; the call owes more than the top.
    <2>3. ASSUME NEW i \in 1..Len(journalStack'), i # Len(journalStack')
          PROVE  i <= Len(journalStack) /\ journalStack'[i] = journalStack[i]
        <3>1. journalStack # <<>>
            BY <2>2, <2>3
        <3>2. QED
            BY <1>t, <2>1, <2>2, <2>3, <3>1 DEF SetAccount
    <2>4. Len(journalStack') <=
              Len(journalStack) + Owes("running") - Owes(call[c])
             \/ Len(journalStack') = 1
        BY <1>t, <2>1, <2>2, OwesValues
    <2>5. ASSUME NEW i \in 1..Len(journalStack')
          PROVE  \/ journalStack'[i] = EmptyJournal
                 \/ /\ i <= Len(journalStack)
                    /\ journalStack[i] # EmptyJournal
                    /\ Len(journalStack') <=
                           Len(journalStack) + Owes("running") - Owes(call[c])
                 \/ Len(journalStack') < i + Owes("running")
        <3>1. CASE i = Len(journalStack')
            BY <2>2, <3>1, OwesValues
        <3>2. CASE i # Len(journalStack')
            BY <2>2, <2>3, <2>4, <3>2
        <3>3. QED
            BY <3>1, <3>2
    <2>6. QED
        BY <2>1, <2>2, <2>5, CallMoved
<1>4. CASE CallReturns(c)
    <2>1. call[c] = "running" /\ call' = [call EXCEPT ![c] = "open"]
          /\ phase' = phase
        BY <1>4 DEF CallReturns, blockVars
    <2>2. /\ journalStack' \in Seq(Journal)
          /\ Len(journalStack') = Len(journalStack) - 1
        BY <1>t, <1>4, PoppedType, CommitCheckpointType
           DEF CallReturns, RevertCheckpoint
    <2>3. Len(journalStack') <=
              Len(journalStack) + Owes("open") - Owes(call[c])
        BY <1>t, <2>1, <2>2, OwesValues
    <2>4. ASSUME NEW i \in 1..Len(journalStack')
          PROVE  \/ /\ i <= Len(journalStack)
                    /\ journalStack'[i] = journalStack[i]
                 \/ Len(journalStack') < i + Owes("open")
        <3>1. CASE i = Len(journalStack')
            BY <2>2, <3>1, OwesValues
        <3>2. CASE i # Len(journalStack') /\ RevertCheckpoint
            BY <1>p, <3>2
        <3>3. CASE i # Len(journalStack') /\ CommitCheckpoint
            <4>1. Len(journalStack) # 1 /\ journalStack # <<>>
                BY <2>2, <3>3
            <4>2. PICK both : journalStack' =
                                  [Popped EXCEPT ![Len(journalStack) - 1] = both]
                BY <3>3, <4>1 DEF CommitCheckpoint
            <4>3. /\ Popped \in Seq(Journal)
                  /\ Len(Popped) = Len(journalStack) - 1
                BY <1>t, <4>1, PoppedType
            <4>4. /\ i \in 1..Len(Popped)
                  /\ i # Len(journalStack) - 1
                BY <2>2, <3>3, <4>3
            <4>5. journalStack'[i] = Popped[i]
                BY <4>2, <4>3, <4>4
            <4>6. Popped[i] = journalStack[i] /\ i <= Len(journalStack)
                BY <1>t, <4>3, <4>4 DEF Popped
            <4>7. QED
                BY <4>5, <4>6
        <3>4. QED
            BY <1>4, <3>1, <3>2, <3>3 DEF CallReturns
    <2>5. QED
        BY <2>1, <2>2, <2>3, <2>4, CallMoved
<1>5. CASE CallThrows(c)
    <2>1. call' = [call EXCEPT ![c] = "open"]
          /\ phase' = phase /\ journalStack' = journalStack
          /\ journalStack = <<>>
        BY <1>5 DEF CallThrows, vars, stateVars, blockVars
    <2>2. /\ journalStack' \in Seq(Journal)
          /\ 1..Len(journalStack') = {}
        BY <1>t, <2>1
    <2>3. QED
        BY <2>1, <2>2, CallMoved
<1>6. CASE CallReverts(c)
    <2>1. call[c] = "open" /\ phase' = phase
        BY <1>6 DEF CallReverts, blockVars
    <2>2. CASE /\ RevertCheckpoint
               /\ call' = [call EXCEPT ![c] = "none"]
        <3>1. Len(journalStack') <=
                  Len(journalStack) + Owes("none") - Owes(call[c])
            BY <1>t, <1>p, <2>1, <2>2, OwesValues
        <3>2. QED
            BY <1>p, <2>1, <2>2, <3>1, CallMoved
    <2>3. CASE /\ journalStack = <<>>
               /\ call' = [call EXCEPT ![c] = "thrown"]
               /\ UNCHANGED journalStack
        <3>1. /\ journalStack' \in Seq(Journal)
              /\ 1..Len(journalStack') = {}
            BY <1>t, <2>3
        <3>2. QED
            BY <2>1, <2>3, <3>1, CallMoved
    <2>4. QED
        BY <1>6, <2>2, <2>3 DEF CallReverts
<1>7. CASE CallRevertsAgain(c)
    <2>1. call[c] = "thrown" /\ call' = [call EXCEPT ![c] = "none"]
          /\ phase' = phase
        BY <1>7 DEF CallRevertsAgain, blockVars
    <2>2. CASE RevertCheckpoint
        <3>1. Len(journalStack') <=
                  Len(journalStack) + Owes("none") - Owes(call[c])
            BY <1>t, <1>p, <2>1, <2>2, OwesValues
        <3>2. QED
            BY <1>p, <2>1, <2>2, <3>1, CallMoved
    <2>3. CASE journalStack = <<>> /\ UNCHANGED journalStack
        <3>1. /\ journalStack' \in Seq(Journal)
              /\ 1..Len(journalStack') = {}
            BY <1>t, <2>3
        <3>2. QED
            BY <2>1, <3>1, CallMoved
    <2>4. QED
        BY <1>7, <2>2, <2>3 DEF CallRevertsAgain
<1>8. QED
    BY <1>1, <1>2, <1>3, <1>4, <1>5, <1>6, <1>7

\* A step of the block leaves no level behind when it closes the block, and
\* the stack alone when there is none; a credit's level has no entry.
LEMMA OtherStepsKeep ==
    CallsInv /\ (BlockStep \/ CommitNothing \/ FramesLost \/ UNCHANGED callVars)
        => CallsInv'
<1> SUFFICES ASSUME CallsInv,
                    BlockStep \/ CommitNothing \/ FramesLost
                       \/ UNCHANGED callVars
             PROVE  CallsInv'
    OBVIOUS
<1>1. call' = call /\ Opened' = Opened /\ Running' = Running
    BY DEF BlockStep, CommitNothing, FramesLost, callVars, Opened, Running
<1>2. \/ /\ journalStack' \in Seq(Journal)
         /\ phase' # "idle"
      \/ journalStack' \in {<<>>, <<EmptyJournal>>}
      \/ UNCHANGED <<journalStack, phase>>
    <2>e. EmptyJournal \in Journal
        BY DEF EmptyJournal, Journal, Entry
    <2>t. journalStack \in Seq(Journal)
        BY DEF CallsInv
    <2>1. CASE BeginBlock
        BY <2>1, <2>e DEF BeginBlock, StartBlock
    <2>2. ASSUME NEW a \in Addr, NEW v \in Value, PutAccount(a, v)
          PROVE  journalStack' \in Seq(Journal) /\ phase' # "idle"
        BY <2>2, <2>t, ObjectAssumption, SetAccountType
           DEF PutAccount, blockVars
    <2>3. CASE OpenFrame
        BY <2>3, <2>t, CheckpointType DEF OpenFrame
    <2>4. CASE CommitFrame
        BY <2>4, <2>t, CommitCheckpointType DEF CommitFrame, CommitCheckpoint
    <2>5. CASE RevertFrame
        BY <2>5, <2>t, PoppedType DEF RevertFrame, RevertCheckpoint
    <2>6. CASE BeginCommit
        BY <2>6, <2>t DEF BeginCommit, CommitStart
    <2>7. CASE EndCommit \/ SaveFails \/ AbandonBlock
        BY <2>7 DEF EndCommit, CommitEnd, SaveFails, CommitFails,
                    AbandonBlock, RollbackBlock
    <2>8. CASE \/ \E r \in Reader, a \in Addr : ReadMiss(r, a)
               \/ \E r \in Reader : ReadReturns(r)
               \/ \E a \in Addr : SaveAccount(a)
               \/ AccountPersisted
               \/ AccountSaved
               \/ OtherCached
               \/ OtherCredited
        BY <2>8 DEF ReadMiss, Fetch, ReadReturns, SaveAccount, Encode,
                    AccountPersisted, Persist, AccountSaved, SaveDone,
                    OtherCached, OtherCredited, blockVars
    <2>9. CASE CommitNothing \/ FramesLost \/ UNCHANGED callVars
        BY <2>9 DEF CommitNothing, FramesLost, callVars, vars, stateVars,
                    blockVars
    <2>10. QED
        BY <2>1, <2>2, <2>3, <2>4, <2>5, <2>6, <2>7, <2>8, <2>9
           DEF BlockStep
<1>3. Cardinality(Opened) \in Nat /\ Cardinality(Running) \in Nat
    BY FS_CardinalityType DEF CallsInv
<1>4. CASE journalStack' \in {<<>>, <<EmptyJournal>>}
    <2>1. /\ journalStack' \in Seq(Journal)
          /\ \A i \in DOMAIN journalStack' : journalStack'[i] = EmptyJournal
        <3>1. EmptyJournal \in Journal
            BY DEF EmptyJournal, Journal, Entry
        <3>2. CASE journalStack' = <<>>
            BY <3>2
        <3>3. CASE journalStack' = <<EmptyJournal>>
            BY <3>1, <3>3
        <3>4. QED
            BY <1>4, <3>2, <3>3
    <2>2. QED
        BY <1>1, <2>1 DEF CallsInv
<1>5. QED
    BY <1>1, <1>2, <1>4 DEF CallsInv

\* Whatever the order in which calls and blocks open, commit and revert the
\* levels of the one stack they share, no entry is left on it when the last
\* call has returned and no block is open.
THEOREM NothingIsLeft == CallSpec => []CallsLeaveNothing
<1>1. CallsInv => CallsLeaveNothing
    <2> SUFFICES ASSUME CallsInv, phase = "idle",
                        \A c \in Caller : call[c] = "none",
                        NEW i \in DOMAIN journalStack,
                        journalStack[i] # EmptyJournal
                 PROVE  FALSE
        BY DEF CallsLeaveNothing
    <2>1. Opened = {} /\ Running = {}
        BY DEF Opened, Running
    <2>2. i \in Nat /\ i <= Len(journalStack) /\ Len(journalStack) \in Nat
        BY DEF CallsInv
    <2>3. Len(journalStack) < i
        BY <2>1, <2>2, FS_EmptySet DEF CallsInv
    <2>4. QED
        BY <2>2, <2>3
<1>2. CallsInv /\ [CallNext]_callVars => CallsInv'
    BY CallStepKeeps, OtherStepsKeep DEF CallNext
<1>3. QED
    BY CallsInit, <1>1, <1>2, PTL DEF CallSpec

\* The steps of the block and of readers keep the types of cache, repository
\* and commit over any stack of journals.
LEMMA DiskStep ==
    journalStack \in Seq(Journal) /\ DiskTyped /\ [Next]_vars => DiskTyped'
<1> SUFFICES ASSUME journalStack \in Seq(Journal), DiskTyped, [Next]_vars
             PROVE  DiskTyped'
    OBVIOUS
<1> USE ObjectAssumption, MarksAssumption
        DEF DiskTyped, FetchTyped, SaveMatches
<1>u. ASSUME UNCHANGED <<cache, repo, fetch, unsaved, save>>,
             phase' # "saving" => phase # "saving"
      PROVE  DiskTyped'
    BY <1>u
<1>1. CASE \/ BeginBlock \/ OpenFrame \/ CommitFrame \/ RevertFrame
           \/ AbandonBlock \/ OtherCredited
           \/ \E a \in Addr, v \in Value : PutAccount(a, v)
    BY <1>1, <1>u DEF BeginBlock, OpenFrame, CommitFrame, RevertFrame,
          AbandonBlock, OtherCredited, PutAccount, cacheAndRepo, blockVars
<1>2. ASSUME NEW r \in Reader, NEW a \in Addr, ReadMiss(r, a)
      PROVE  DiskTyped'
    BY <1>2 DEF ReadMiss, Fetch, blockVars
<1>3. ASSUME NEW r \in Reader, ReadReturns(r)
      PROVE  DiskTyped'
    <2>1. fetch' = [fetch EXCEPT ![r] = NoFetch] /\ fetch[r] # NoFetch
        BY <1>3 DEF ReadReturns, FetchDone
    <2>2. cache' \in [Addr -> Object \cup {NoEntry}]
        BY <1>3, <2>1 DEF ReadReturns, FetchDone, AddToCache
    <2>3. QED
        BY <1>3, <2>1, <2>2 DEF ReadReturns, NoFetch, blockVars
<1>4. CASE BeginCommit
    BY <1>4, MergedType DEF BeginCommit, CommitStart
<1>5. ASSUME NEW a \in Addr, SaveAccount(a)
      PROVE  DiskTyped'
    BY <1>5 DEF SaveAccount, Encode, blockVars
<1>6. CASE AccountPersisted
    BY <1>6 DEF AccountPersisted, Persist, blockVars
<1>7. CASE AccountSaved
    <2>1. save # NoSave /\ AddToCache(save.addr, unsaved[save.addr])
        BY <1>7 DEF AccountSaved, SaveDone
    <2>2. cache' \in [Addr -> Object \cup {NoEntry}]
        BY <2>1 DEF AddToCache
    <2>3. unsaved' \in Journal
        BY <1>7 DEF AccountSaved, SaveDone, Journal, Entry
    <2>4. QED
        BY <1>7, <2>2, <2>3 DEF AccountSaved, SaveDone, NoSave, blockVars
<1>8. CASE EndCommit
    BY <1>8 DEF EndCommit, CommitEnd
<1>9. CASE SaveFails
    <2>1. EmptyJournal \in Journal
        BY DEF EmptyJournal, Journal, Entry
    <2>2. QED
        BY <1>9, <2>1 DEF SaveFails, CommitFails, NoSave
<1>10. CASE OtherCached
    BY <1>10 DEF OtherCached, blockVars
<1>11. CASE UNCHANGED vars
    BY <1>11, <1>u DEF vars, stateVars, blockVars
<1>12. QED
    BY <1>1, <1>2, <1>3, <1>4, <1>5, <1>6, <1>7, <1>8, <1>9, <1>10, <1>11
       DEF Next

CallCoherenceInv == CallsInv /\ DiskTyped /\ CoherenceInv

\* A step of an eth_call touches the stack alone.
LEMMA CallCoherenceStep ==
    CallCoherenceInv /\ [CallNext]_callVars => CallCoherenceInv'
<1> SUFFICES ASSUME CallCoherenceInv, [CallNext]_callVars
             PROVE  CallCoherenceInv'
    OBVIOUS
<1>1. CallsInv'
    BY CallStepKeeps, OtherStepsKeep DEF CallCoherenceInv, CallNext
<1>2. \/ [Next]_vars
      \/ /\ UNCHANGED <<cache, repo, fetch, unsaved, save, late>>
         /\ phase' # "saving" => phase # "saving"
    <2>1. CASE CallStep
        BY <2>1 DEF CallStep, CallOpens, CallRuns, CallWrites, CallReturns,
                    CallThrows, CallReverts, CallRevertsAgain, cacheAndRepo,
                    blockVars, history, vars, stateVars
    <2>2. CASE BlockStep
        BY <2>2 DEF BlockStep, Next
    <2>3. CASE CommitNothing \/ FramesLost
        BY <2>3 DEF CommitNothing, FramesLost, stateVars, history
    <2>4. CASE UNCHANGED callVars
        BY <2>4 DEF callVars
    <2>5. QED
        BY <2>1, <2>2, <2>3, <2>4 DEF CallNext
<1>3. CASE [Next]_vars
    BY <1>1, <1>3, DiskStep, CoherenceStep DEF CallCoherenceInv, CallsInv
<1>4. CASE /\ UNCHANGED <<cache, repo, fetch, unsaved, save, late>>
           /\ phase' # "saving" => phase # "saving"
    <2>1. DiskTyped'
        BY <1>4 DEF CallCoherenceInv, DiskTyped, FetchTyped, SaveMatches
    <2>2. CoherenceInv'
        BY <1>4, CoherenceUntouched DEF CallCoherenceInv
    <2>3. QED
        BY <1>1, <2>1, <2>2 DEF CallCoherenceInv
<1>5. QED
    BY <1>2, <1>3, <1>4

\* Beside any number of eth_calls, too, which add levels, write and revert
\* under and over those of the block, nothing but a late answer makes the
\* cache stale.
THEOREM OnlyLateAnswersMakeStaleBesideCalls ==
    CallSpec => []StaleOnlyByLateAnswer
<1>1. CallInit => CallCoherenceInv
    BY CallsInit, TypeInit, TypeInvIsDiskTyped, CoherenceInit
       DEF CallInit, CallCoherenceInv
<1>2. CallCoherenceInv => StaleOnlyByLateAnswer
    BY DEF CallCoherenceInv, CoherenceInv
<1>3. CallCoherenceInv /\ [CallNext]_callVars => CallCoherenceInv'
    BY CallCoherenceStep
<1>4. QED
    BY <1>1, <1>2, <1>3, PTL DEF CallSpec

-----------------------------------------------------------------------------
(* Requests that each take their turn between two steps of the block *)

\* While a block executes there is at most one request under way, its levels
\* are on top of the block's, own is what the block's levels show, and no
\* account is late.
InTurn ==
    /\ late = {}
    /\ \A c \in UnderWay :
          /\ UnderWay = {c}
          /\ call[c] \in {"open", "running"}
          /\ Len(journalStack) = frames + 1 + Owes(call[c])
    /\ UnderWay = {} => Len(journalStack) = frames + 1
    /\ own = Pictures(SubSeq(journalStack, 1, frames + 1), Stored)

\* Of what the block's level shows, all that is not left to save is stored,
\* unless the account is late.
OwnIsSaved ==
    \A a \in Addr :
        IF unsaved[a] # NoEntry THEN unsaved[a] = own[1][a]
                                ELSE a \notin late => Stored[a] = own[1][a]

TurnInv ==
    /\ frames \in Nat
    /\ phase # "block" => frames = 0
    /\ ~overlapped /\ phase = "block" => InTurn
    /\ ~overlapped /\ phase = "saving" => OwnIsSaved

IsolationInv == CallCoherenceInv /\ TurnInv

\* What happens above the first n levels of a stack does not show in them.
LEMMA LevelsBelow ==
    ASSUME NEW s \in Seq(Journal), NEW t \in Seq(Journal), NEW n \in Nat,
           n <= Len(s), n <= Len(t),
           \A i \in 1..n : t[i] = s[i]
    PROVE  SubSeq(t, 1, n) = SubSeq(s, 1, n)
<1>1. /\ SubSeq(s, 1, n) \in Seq(Journal) /\ Len(SubSeq(s, 1, n)) = n
      /\ SubSeq(t, 1, n) \in Seq(Journal) /\ Len(SubSeq(t, 1, n)) = n
      /\ \A i \in 1..n : SubSeq(t, 1, n)[i] = SubSeq(s, 1, n)[i]
    OBVIOUS
<1>2. QED
    BY <1>1, SameSequence

\* A request in its turn, from its checkpoint to its revert, works above the
\* levels of the block.
LEMMA CallTurn ==
    ASSUME IsolationInv, CallStep, phase = "block", ~overlapped'
    PROVE  InTurn'
<1> PICK c \in Caller :
        \/ CallOpens(c)
        \/ CallRuns(c)
        \/ \E a \in Addr, v \in Value : CallWrites(c, a, v)
        \/ CallReturns(c)
        \/ CallThrows(c)
        \/ CallReverts(c)
        \/ CallRevertsAgain(c)
    BY DEF CallStep
<1> DEFINE n == frames + 1
<1>t. /\ journalStack \in Seq(Journal) /\ Len(journalStack) \in Nat
      /\ call \in [Caller -> {"none", "open", "running", "thrown"}]
      /\ frames \in Nat
    BY DEF IsolationInv, CallCoherenceInv, CallsInv, TurnInv
<1>u. /\ frames' = frames /\ own' = own /\ Stored' = Stored
      /\ late' = late
    BY DEF CallOpens, CallRuns, CallWrites, CallReturns, CallThrows,
           CallReverts, CallRevertsAgain, cacheAndRepo, blockVars, history,
           callHistory, vars, stateVars, Stored
<1>o. ~overlapped
    BY DEF CallOpens, CallRuns, CallWrites, CallReturns, CallThrows,
           CallReverts, CallRevertsAgain, callHistory
<1>i. /\ InTurn
      /\ c \in UnderWay =>
            /\ UnderWay = {c}
            /\ call[c] \in {"open", "running"}
            /\ Len(journalStack) = frames + 1 + Owes(call[c])
      /\ Len(journalStack) >= n
    <2>1. InTurn
        BY <1>o DEF IsolationInv, TurnInv
    <2>2. ASSUME NEW d \in UnderWay
          PROVE  Len(journalStack) >= n
        BY <1>t, <2>1 DEF InTurn, Owes
    <2>3. CASE UnderWay = {}
        BY <1>t, <2>1, <2>3 DEF InTurn
    <2>4. QED
        BY <2>1, <2>2, <2>3 DEF InTurn
<1>e. journalStack # <<>>
    BY <1>t, <1>i
<1>m. ASSUME NEW s \in {"none", "open", "running"},
             call' = [call EXCEPT ![c] = s],
             UnderWay \subseteq {c},
             journalStack' \in Seq(Journal),
             Len(journalStack') = n + Owes(s),
             \A i \in 1..n : journalStack'[i] = journalStack[i]
      PROVE  InTurn'
    <2>1. /\ \A d \in Caller : call'[d] = IF d = c THEN s ELSE call[d]
          /\ UnderWay' = IF s = "none" THEN {} ELSE {c}
        BY <1>t, <1>m DEF UnderWay
    <2>2. Len(journalStack') >= n
        BY <1>t, <1>m DEF Owes
    <2>3. SubSeq(journalStack', 1, n) = SubSeq(journalStack, 1, n)
        BY <1>t, <1>i, <1>m, <2>2, LevelsBelow
    <2>4. own' = Pictures(SubSeq(journalStack', 1, frames' + 1), Stored')
        BY <1>i, <1>u, <2>3 DEF InTurn
    <2>5. \A d \in UnderWay' :
              /\ UnderWay' = {d}
              /\ call'[d] \in {"open", "running"}
              /\ Len(journalStack') = frames' + 1 + Owes(call'[d])
        <3>1. SUFFICES ASSUME s # "none"
                       PROVE  /\ UnderWay' = {c}
                              /\ call'[c] \in {"open", "running"}
                              /\ Len(journalStack') =
                                    frames' + 1 + Owes(call'[c])
            BY <2>1
        <3>2. call'[c] = s
            BY <2>1
        <3>3. QED
            BY <1>m, <1>u, <2>1, <3>1, <3>2
    <2>6. UnderWay' = {} => Len(journalStack') = frames' + 1
        <3>1. SUFFICES ASSUME s = "none"
                       PROVE  Len(journalStack') = frames' + 1
            BY <2>1
        <3>2. Owes(s) = 0
            BY <3>1, OwesValues
        <3>3. QED
            BY <1>m, <1>t, <1>u, <3>2
    <2>7. QED
        BY <1>i, <1>u, <2>4, <2>5, <2>6 DEF InTurn
<1>w. ASSUME call[c] # "none"
      PROVE  /\ UnderWay = {c}
             /\ call[c] \in {"open", "running"}
             /\ Len(journalStack) = n + Owes(call[c])
    BY <1>i, <1>w DEF UnderWay
<1>1. CASE CallOpens(c)
    <2>1. /\ Checkpoint /\ call' = [call EXCEPT ![c] = "open"]
          /\ UnderWay = {}
        BY <1>1 DEF CallOpens
    <2>2. Len(journalStack) = n
        BY <1>i, <2>1 DEF InTurn
    <2>3. /\ journalStack' \in Seq(Journal)
          /\ Len(journalStack') = n + Owes("open")
        BY <1>t, <2>1, <2>2, CheckpointType, OwesValues
    <2>4. \A i \in 1..n : journalStack'[i] = journalStack[i]
        BY <1>t, <2>1, <2>2 DEF Checkpoint
    <2>5. QED
        BY <1>m, <2>1, <2>3, <2>4
<1>2. CASE CallRuns(c)
    <2>1. /\ Checkpoint /\ call' = [call EXCEPT ![c] = "running"]
          /\ call[c] = "open"
        BY <1>2 DEF CallRuns
    <2>2. UnderWay = {c} /\ Len(journalStack) = n + 1
        BY <1>w, <2>1, OwesValues
    <2>3. /\ journalStack' \in Seq(Journal)
          /\ Len(journalStack') = n + Owes("running")
        BY <1>t, <2>1, <2>2, CheckpointType, OwesValues
    <2>4. \A i \in 1..n : journalStack'[i] = journalStack[i]
        BY <1>t, <2>1, <2>2 DEF Checkpoint
    <2>5. QED
        BY <1>m, <2>1, <2>2, <2>3, <2>4
<1>3. ASSUME NEW a \in Addr, NEW v \in Value, CallWrites(c, a, v)
      PROVE  InTurn'
    <2>1. /\ SetAccount(a, v) /\ call' = call
          /\ call[c] = "running" /\ v \in Object
        BY <1>3, ObjectAssumption DEF CallWrites
    <2>2. UnderWay = {c} /\ Len(journalStack) = n + 2
        BY <1>w, <2>1, OwesValues
    <2>3. /\ journalStack' \in Seq(Journal)
          /\ Len(journalStack') = n + Owes("running")
        BY <1>t, <1>e, <2>1, <2>2, SetAccountType, OwesValues
    <2>4. \A i \in 1..n : journalStack'[i] = journalStack[i]
        BY <1>t, <1>e, <2>1, <2>2 DEF SetAccount
    <2>5. call' = [call EXCEPT ![c] = "running"]
        BY <1>t, <2>1
    <2>6. QED
        BY <1>m, <2>2, <2>3, <2>4, <2>5
<1>4. CASE CallReturns(c)
    <2>1. /\ CommitCheckpoint \/ RevertCheckpoint
          /\ call' = [call EXCEPT ![c] = "open"]
          /\ call[c] = "running"
        BY <1>4 DEF CallReturns
    <2>2. UnderWay = {c} /\ Len(journalStack) = n + 2
        BY <1>w, <2>1, OwesValues
    <2>3. /\ journalStack' \in Seq(Journal)
          /\ Len(journalStack') = n + Owes("open")
        <3>1. /\ journalStack' \in Seq(Journal)
              /\ Len(journalStack') = Len(journalStack) - 1
            BY <1>t, <1>e, <2>1, PoppedType, CommitCheckpointType
               DEF RevertCheckpoint
        <3>2. QED
            BY <1>t, <2>2, <3>1, OwesValues
    <2>4. \A i \in 1..n : journalStack'[i] = journalStack[i]
        <3>1. \A i \in 1..n : i \in 1..Len(Popped) /\ Popped[i] = journalStack[i]
            BY <1>t, <2>2 DEF Popped
        <3>2. CASE RevertCheckpoint
            BY <3>1, <3>2 DEF RevertCheckpoint
        <3>3. CASE CommitCheckpoint
            <4>1. PICK both :
                      journalStack' =
                          [Popped EXCEPT ![Len(journalStack) - 1] = both]
                <5>1. Len(journalStack) # 1
                    BY <1>t, <2>2
                <5>2. QED
                    BY <3>3, <5>1 DEF CommitCheckpoint
            <4>2. \A i \in 1..n : i # Len(journalStack) - 1
                BY <1>t, <2>2
            <4>3. Popped \in Seq(Journal)
                BY <1>t, <1>e, PoppedType
            <4>4. QED
                BY <3>1, <4>1, <4>2, <4>3
        <3>4. QED
            BY <2>1, <3>2, <3>3
    <2>5. QED
        BY <1>m, <2>1, <2>2, <2>3, <2>4
<1>5. CASE CallThrows(c)
    BY <1>5, <1>e DEF CallThrows
<1>6. CASE CallReverts(c)
    <2>1. /\ journalStack' = Popped
          /\ call' = [call EXCEPT ![c] = "none"]
          /\ call[c] = "open"
        BY <1>6, <1>e DEF CallReverts, RevertCheckpoint
    <2>2. UnderWay = {c} /\ Len(journalStack) = n + 1
        BY <1>w, <2>1, OwesValues
    <2>3. /\ journalStack' \in Seq(Journal)
          /\ Len(journalStack') = n + Owes("none")
        BY <1>t, <1>e, <2>1, <2>2, PoppedType, OwesValues
    <2>4. \A i \in 1..n : journalStack'[i] = journalStack[i]
        BY <1>t, <2>1, <2>2 DEF Popped
    <2>5. QED
        BY <1>m, <2>1, <2>2, <2>3, <2>4
<1>7. CASE CallRevertsAgain(c)
    BY <1>7, <1>w DEF CallRevertsAgain
<1>8. QED
    BY <1>1, <1>2, <1>3, <1>4, <1>5, <1>6, <1>7

\* own follows the block's own step: with no request under way it is the
\* levels of the nested store, which the step changes as it changes own.
LEMMA BlockTurn ==
    ASSUME IsolationInv, BlockStep, phase' = "block", ~overlapped'
    PROVE  InTurn'
<1>t. /\ journalStack \in Seq(Journal) /\ Len(journalStack) \in Nat
      /\ Stored \in Accounts
      /\ frames \in Nat
      /\ phase # "block" => frames = 0
      /\ DiskTyped /\ CoherenceInv
    BY StoredType DEF IsolationInv, CallCoherenceInv, CallsInv, TurnInv
<1>c. call' = call /\ UnderWay' = UnderWay
    BY DEF BlockStep, UnderWay
<1>m. ASSUME UnderWay = {}, late' = {}, journalStack' \in Seq(Journal),
             Len(journalStack') = frames' + 1,
             own' = Pictures(journalStack', Stored')
      PROVE  InTurn'
    <2>1. SubSeq(journalStack', 1, frames' + 1) = journalStack'
        BY <1>m
    <2>2. QED
        BY <1>c, <1>m, <2>1 DEF InTurn
<1>b. CASE /\ BeginBlock
           /\ own' = <<Stored>>
           /\ overlapped' = (UnderWay # {} \/ late # {})
    <2>1. /\ UnderWay = {} /\ late' = {} /\ journalStack' = <<EmptyJournal>>
          /\ frames' = frames /\ phase = "idle"
        BY <1>b DEF BeginBlock, StartBlock
    <2>2. /\ journalStack' \in Seq(Journal)
          /\ Len(journalStack') = frames' + 1
        <3>1. EmptyJournal \in Journal
            BY DEF EmptyJournal, Journal, Entry
        <3>2. QED
            BY <1>t, <2>1, <3>1
    <2>3. Levels' = <<Stored>>
        BY <1>t, <1>b, <2>1, BeginRefines, LevelsAreMappedNext
           DEF Store!Begin
    <2>4. Levels' = Pictures(journalStack', Stored')
        BY DEF Levels
    <2>5. QED
        BY <1>b, <1>m, <2>1, <2>2, <2>3, <2>4
<1>o. ASSUME ~overlapped, UnderWay = {}, phase = "block"
      PROVE  /\ Len(journalStack) = frames + 1
             /\ journalStack # <<>>
             /\ own = Pictures(journalStack, Stored)
             /\ own = Levels
             /\ Len(own) = frames + 1
             /\ late = {}
    <2>1. InTurn
        BY <1>o DEF IsolationInv, TurnInv
    <2>2. Len(journalStack) = frames + 1
        BY <1>o, <2>1 DEF InTurn
    <2>3. SubSeq(journalStack, 1, frames + 1) = journalStack
        BY <1>t, <2>2
    <2>4. own = Pictures(journalStack, Stored)
        BY <2>1, <2>3 DEF InTurn
    <2>5. Len(own) = Len(journalStack)
        BY <1>t, <2>4, PictureType
    <2>6. QED
        BY <1>t, <1>o, <2>1, <2>2, <2>4, <2>5 DEF Levels, InTurn
<1>w. ASSUME UnderWay = {}, late' = {}, journalStack' \in Seq(Journal),
             Len(journalStack') = frames' + 1,
             own' = Levels'
      PROVE  InTurn'
    BY <1>m, <1>w DEF Levels
<1>r. CASE /\ \/ \E a \in Addr, v \in Value :
                    /\ PutAccount(a, v)
                    /\ own' = [own EXCEPT ![Len(own)][a] = v]
              \/ OpenFrame /\ own' = Append(own, own[Len(own)])
              \/ /\ CommitFrame
                 /\ own' = [SubSeq(own, 1, Len(own) - 1) EXCEPT
                               ![Len(own) - 1] = own[Len(own)]]
              \/ RevertFrame /\ own' = SubSeq(own, 1, Len(own) - 1)
              \/ BeginCommit /\ UNCHANGED own
           /\ overlapped' = (overlapped \/ UnderWay # {})
    <2>o. ~overlapped /\ UnderWay = {} /\ phase = "block"
        BY <1>r DEF PutAccount, OpenFrame, CommitFrame, RevertFrame,
                    BeginCommit
    <2>t. /\ Len(journalStack) = frames + 1
          /\ journalStack # <<>>
          /\ own = Levels
          /\ own = Pictures(journalStack, Stored)
          /\ Len(own) = frames + 1
          /\ own \in Seq(Accounts) /\ own # <<>>
          /\ late' = {}
        <3>1. /\ Len(journalStack) = frames + 1
              /\ journalStack # <<>>
              /\ own = Levels
              /\ own = Pictures(journalStack, Stored)
              /\ Len(own) = frames + 1
            BY <1>o, <2>o
        <3>2. own \in Seq(Accounts)
            BY <1>t, <3>1, PictureType
        <3>3. own # <<>>
            BY <1>t, <3>1
        <3>4. late' = {}
            BY <1>o, <1>r, <2>o
               DEF PutAccount, OpenFrame, CommitFrame, RevertFrame,
                   BeginCommit, blockVars, history
        <3>5. QED
            BY <3>1, <3>2, <3>3, <3>4
    <2>l. Levels = [k \in 1..Len(journalStack) |-> Picture(k)]
        BY <2>o, LevelsAreMapped
    <2>n. Levels' = [k \in 1..Len(journalStack) |-> Picture(k)]'
        BY LevelsAreMappedNext
    <2>1. ASSUME NEW a \in Addr, NEW v \in Value, PutAccount(a, v),
                 own' = [own EXCEPT ![Len(own)][a] = v]
          PROVE  InTurn'
        <3>1. /\ SetAccount(a, v) /\ v \in Object
              /\ UNCHANGED <<cache, repo, phase, frames, torn>>
            BY <2>1, ObjectAssumption
               DEF PutAccount, cacheAndRepo, blockVars, history
        <3>2. /\ journalStack' \in Seq(Journal)
              /\ Len(journalStack') = frames' + 1
            BY <1>t, <2>t, <3>1, SetAccountType
        <3>3. Store!Write(a, v)
            BY <1>t, <2>o, <2>t, <3>1, WriteRefines
        <3>4. Levels' = Append(SubSeq(own, 1, Len(own) - 1),
                               [own[Len(own)] EXCEPT ![a] = v])
            BY <2>o, <2>t, <2>l, <2>n, <3>1, <3>3
               DEF Store!Write, Store!Top, Store!Outer
        <3>5. [own[Len(own)] EXCEPT ![a] = v] \in Accounts
            <4>1. own[Len(own)] \in Accounts
                BY <2>t, SequenceSplits
            <4>2. QED
                BY <4>1 DEF Accounts
        <3>6. own' = Append(SubSeq(own, 1, Len(own) - 1),
                            [own[Len(own)] EXCEPT ![a] = v])
            BY <2>1, <2>t, <3>5, SequenceSplits
        <3>7. QED
            BY <1>w, <2>o, <2>t, <3>2, <3>4, <3>6
    <2>2. CASE OpenFrame /\ own' = Append(own, own[Len(own)])
        <3>1. /\ Checkpoint /\ frames' = frames + 1
              /\ UNCHANGED <<cache, repo, phase, torn>>
            BY <2>2 DEF OpenFrame, cacheAndRepo, history
        <3>2. /\ journalStack' \in Seq(Journal)
              /\ Len(journalStack') = frames' + 1
            BY <1>t, <2>t, <3>1, CheckpointType
        <3>3. Store!Nest
            BY <1>t, <2>o, <2>t, <3>1, NestRefines
        <3>4. Levels' = Append(own, own[Len(own)])
            BY <2>o, <2>t, <2>l, <2>n, <3>1, <3>3
               DEF Store!Nest, Store!Top
        <3>5. QED
            BY <1>w, <2>o, <2>t, <2>2, <3>2, <3>4
    <2>3. CASE /\ CommitFrame
               /\ own' = [SubSeq(own, 1, Len(own) - 1) EXCEPT
                             ![Len(own) - 1] = own[Len(own)]]
        <3>1. /\ CommitCheckpoint /\ frames' = frames - 1 /\ frames > 0
              /\ UNCHANGED <<cache, repo, phase, torn>>
            BY <2>3 DEF CommitFrame, cacheAndRepo, history
        <3>2. /\ journalStack' \in Seq(Journal)
              /\ Len(journalStack') = frames' + 1
            BY <1>t, <2>t, <3>1, CommitCheckpointType
        <3>3. Len(journalStack) > 1
            BY <1>t, <2>t, <3>1
        <3>4. Store!Keep
            BY <1>t, <2>o, <3>1, <3>3, KeepRefines
        <3>5. Len(SubSeq(own, 1, Len(own) - 1)) = Len(own) - 1
            BY <2>t, SequenceSplits
        <3>6. Levels' = [SubSeq(own, 1, Len(own) - 1) EXCEPT
                            ![Len(own) - 1] = own[Len(own)]]
            BY <2>o, <2>t, <2>l, <2>n, <3>1, <3>4, <3>5
               DEF Store!Keep, Store!Top, Store!Outer
        <3>7. QED
            BY <1>w, <2>o, <2>t, <2>3, <3>2, <3>6
    <2>4. CASE RevertFrame /\ own' = SubSeq(own, 1, Len(own) - 1)
        <3>1. /\ RevertCheckpoint /\ frames' = frames - 1 /\ frames > 0
              /\ UNCHANGED <<cache, repo, phase, torn>>
            BY <2>4 DEF RevertFrame, cacheAndRepo, history
        <3>2. /\ journalStack' \in Seq(Journal)
              /\ Len(journalStack') = frames' + 1
            BY <1>t, <2>t, <3>1, PoppedType DEF RevertCheckpoint
        <3>3. Len(journalStack) > 1
            BY <1>t, <2>t, <3>1
        <3>4. Store!Undo
            BY <1>t, <2>o, <3>1, <3>3, UndoRefines
        <3>5. Levels' = SubSeq(own, 1, Len(own) - 1)
            BY <2>o, <2>t, <2>l, <2>n, <3>1, <3>4
               DEF Store!Undo, Store!Outer
        <3>6. QED
            BY <1>w, <2>o, <2>t, <2>4, <3>2, <3>5
    <2>5. CASE BeginCommit
        BY <2>5 DEF BeginCommit
    <2>6. QED
        BY <1>r, <2>1, <2>2, <2>3, <2>4, <2>5
<1>e. CASE EndCommit \/ SaveFails \/ AbandonBlock
    BY <1>e DEF EndCommit, SaveFails, AbandonBlock
<1>q. CASE /\ \/ \E r \in Reader, a \in Addr : ReadMiss(r, a)
              \/ \E r \in Reader : ReadReturns(r)
              \/ \E a \in Addr : SaveAccount(a)
              \/ AccountPersisted
              \/ AccountSaved
              \/ OtherCached
              \/ OtherCredited
           /\ UNCHANGED callHistory
    <2>i. InTurn /\ ~overlapped /\ phase = "block"
        BY <1>q DEF IsolationInv, TurnInv, ReadMiss, ReadReturns,
                    SaveAccount, AccountPersisted, AccountSaved, OtherCached,
                    OtherCredited, blockVars, callHistory
    \* The block's own level is on the stack: no credit opens one.
    <2>s. journalStack # <<>>
        <3>1. CASE UnderWay = {}
            BY <1>t, <2>i, <3>1 DEF InTurn
        <3>2. ASSUME NEW c \in UnderWay
              PROVE  journalStack # <<>>
            <4>1. Len(journalStack) = frames + 1 + Owes(call[c])
                BY <2>i DEF InTurn
            <4>2. Owes(call[c]) \in Nat
                BY DEF Owes
            <4>3. QED
                BY <1>t, <4>1, <4>2
        <3>3. QED
            BY <3>1, <3>2
    <2>1. UNCHANGED <<journalStack, phase, frames, own, overlapped, late>>
        BY <1>q, <2>i, <2>s
           DEF ReadMiss, Fetch, ReadReturns, SaveAccount, Encode,
               AccountPersisted, AccountSaved, OtherCached, OtherCredited,
               blockVars, history, callHistory
    <2>2. Stored' = Stored
        <3>1. CASE (\E r \in Reader : ReadReturns(r)) \/ OtherCached
            <4>1. /\ save = NoSave /\ save.persisted = FALSE
                  /\ late = {}
                BY <1>t, <2>i DEF DiskTyped, NoSave, InTurn
            <4>2. \A b \in Addr : Stored'[b] = Stored[b]
                BY <1>t, <3>1, <4>1, ReadChangesNothing
            <4>3. QED
                BY <4>2 DEF Stored
        <3>2. CASE \E r \in Reader, a \in Addr : ReadMiss(r, a)
            BY <3>2 DEF ReadMiss, Fetch, Stored
        <3>3. QED
            BY <1>q, <2>1, <2>s, <2>i, <3>1, <3>2
               DEF SaveAccount, AccountPersisted, AccountSaved, OtherCredited
    <2>3. QED
        BY <1>c, <2>1, <2>2, <2>i DEF InTurn
<1>z. QED
    BY <1>b, <1>r, <1>e, <1>q DEF BlockStep

\* What is on its way to the repository and what is there make up the block,
\* whatever is read, evicted or saved in the meantime.
LEMMA SavesGoOn ==
    ASSUME DiskTyped, CoherenceInv, OwnIsSaved, phase = "saving", own' = own,
           \/ \E r \in Reader, a \in Addr : ReadMiss(r, a)
           \/ \E r \in Reader : ReadReturns(r)
           \/ \E a \in Addr : SaveAccount(a)
           \/ AccountPersisted
           \/ AccountSaved
           \/ OtherCached
           \/ OtherCredited
    PROVE  OwnIsSaved'
<1> USE MarksAssumption, ObjectAssumption
<1>u. ASSUME UNCHANGED <<cache, repo, unsaved, late>>
      PROVE  OwnIsSaved'
    BY <1>u DEF OwnIsSaved, Stored
<1>1. CASE (\E r \in Reader : ReadReturns(r)) \/ OtherCached
    <2>1. UNCHANGED <<unsaved, late>>
        BY <1>1 DEF ReadReturns, OtherCached, blockVars, history
    <2>2. SUFFICES ASSUME NEW b \in Addr, unsaved[b] = NoEntry, b \notin late
                   PROVE  Stored'[b] = own[1][b]
        BY <2>1 DEF OwnIsSaved
    <2>3. ~(save.addr = b /\ save.persisted)
        BY <2>2 DEF DiskTyped, SaveMatches, NoSave
    <2>4. Stored'[b] = Stored[b]
        <3>1. b \in Addr /\ b \notin late
            BY <2>2
        <3>2. DiskTyped /\ CoherenceInv
            OBVIOUS
        <3>3. \/ Stored'[b] = Stored[b]
              \/ save.addr = b /\ save.persisted /\ Stored'[b] = repo[b]
            BY <1>1, <3>1, <3>2, ReadChangesNothing
        <3>4. QED
            BY <2>3, <3>3
    <2>5. QED
        BY <2>2, <2>4 DEF OwnIsSaved
<1>2. CASE AccountPersisted
    <2>1. /\ save # NoSave
          /\ repo' = [repo EXCEPT ![save.addr] = save.value]
          /\ UNCHANGED <<cache, unsaved>>
          /\ late \subseteq late'
        BY <1>2 DEF AccountPersisted, Persist
    <2>2. /\ save.addr \in Addr
          /\ unsaved[save.addr] # NoEntry
        BY <2>1 DEF DiskTyped, SaveMatches
    <2>3. \A b \in Addr : b # save.addr => Stored'[b] = Stored[b]
        BY <2>1, <2>2 DEF DiskTyped, Stored
    <2>4. QED
        BY <2>1, <2>2, <2>3 DEF OwnIsSaved
<1>3. CASE AccountSaved
    <2>1. /\ save # NoSave
          /\ save.persisted
          /\ AddToCache(save.addr, unsaved[save.addr])
          /\ unsaved' = [unsaved EXCEPT ![save.addr] = NoEntry]
          /\ UNCHANGED repo
          /\ late \subseteq late' \cup {save.addr}
        BY <1>3 DEF AccountSaved, SaveDone
    <2>2. /\ save.addr \in Addr
          /\ unsaved[save.addr] \in Object
          /\ unsaved[save.addr] = repo[save.addr]
        BY <2>1 DEF DiskTyped, SaveMatches, CoherenceInv, PersistedIsStored
    <2>3. ASSUME NEW b \in Addr, b # save.addr, b \notin late
          PROVE  Stored'[b] = Stored[b]
        BY <2>1, <2>2, <2>3, StoredStays
           DEF CoherenceInv, StaleOnlyByLateAnswer
    <2>4. Stored'[save.addr] = unsaved[save.addr]
        BY <2>1, <2>2, AddToCacheEntries DEF Stored
    <2>5. unsaved[save.addr] = own[1][save.addr]
        BY <2>2 DEF OwnIsSaved
    <2>6. \A b \in Addr :
              unsaved'[b] = IF b = save.addr THEN NoEntry ELSE unsaved[b]
        BY <2>1, <2>2 DEF DiskTyped, Journal
    <2>7. QED
        BY <2>1, <2>2, <2>3, <2>4, <2>5, <2>6 DEF OwnIsSaved
<1>4. QED
    BY <1>1, <1>2, <1>3, <1>u
       DEF ReadMiss, Fetch, SaveAccount, Encode, OtherCredited, cacheAndRepo,
           blockVars, history

\* A commit that begins between two requests has the block's own writes left
\* to save, and no others.
LEMMA CommitTurn ==
    ASSUME IsolationInv, BeginCommit, own' = own, ~overlapped, UnderWay = {}
    PROVE  OwnIsSaved'
<1>1. /\ journalStack \in Seq(Journal)
      /\ phase = "block" /\ frames = 0
      /\ unsaved' = Merged(journalStack)
      /\ Stored' = Stored
    BY DEF IsolationInv, CallCoherenceInv, CallsInv, BeginCommit,
           CommitStart, Stored
<1>2. InTurn
    BY <1>1 DEF IsolationInv, TurnInv
<1>3. Len(journalStack) = 1
    BY <1>1, <1>2 DEF InTurn
<1>4. /\ SubSeq(journalStack, 1, 1) = journalStack
      /\ frames + 1 = 1
    BY <1>1, <1>3
<1>5. own = Pictures(journalStack, Stored)
    BY <1>2, <1>4 DEF InTurn
<1>6. own[1] = PictureOf(journalStack, Stored)
    <2>1. 1 \in 1..Len(journalStack)
        BY <1>3
    <2>2. own[1] = PictureOf(SubSeq(journalStack, 1, 1), Stored)
        BY <1>5, <2>1 DEF Pictures
    <2>3. QED
        BY <1>4, <2>2
<1>7. QED
    BY <1>1, <1>6 DEF OwnIsSaved, PictureOf

\* Each step of the block and of the requests keeps them apart.
LEMMA TurnStep ==
    IsolationInv /\ [CallNext]_callVars => TurnInv'
<1> SUFFICES ASSUME IsolationInv, [CallNext]_callVars
             PROVE  TurnInv'
    OBVIOUS
<1>t. /\ TurnInv
      /\ DiskTyped /\ CoherenceInv
    BY DEF IsolationInv, CallCoherenceInv
<1>u. CASE UNCHANGED callVars
    BY <1>t, <1>u DEF TurnInv, InTurn, OwnIsSaved, UnderWay, Stored,
          Pictures, PictureOf, callVars, vars, stateVars, blockVars, history
<1>1. CASE CallStep
    <2>1. /\ UNCHANGED <<phase, frames, own, unsaved, cache, repo, late>>
          /\ ~overlapped' => ~overlapped
        <3>1. PICK c \in Caller :
                  \/ CallOpens(c)
                  \/ CallRuns(c)
                  \/ \E a \in Addr, v \in Value : CallWrites(c, a, v)
                  \/ CallReturns(c)
                  \/ CallThrows(c)
                  \/ CallReverts(c)
                  \/ CallRevertsAgain(c)
            BY <1>1 DEF CallStep
        <3>2. CASE CallOpens(c)
            BY <3>2 DEF CallOpens, cacheAndRepo, blockVars, history
        <3>3. CASE CallThrows(c)
            BY <3>3 DEF CallThrows, callHistory, vars, stateVars, blockVars,
                        history
        <3>4. CASE UNCHANGED <<cacheAndRepo, blockVars, callHistory>>
            BY <3>4 DEF cacheAndRepo, blockVars, history, callHistory
        <3>5. QED
            BY <3>1, <3>2, <3>3, <3>4
               DEF CallRuns, CallWrites, CallReturns, CallReverts,
                   CallRevertsAgain
    <2>2. ~overlapped' /\ phase' = "block" => InTurn'
        BY <1>1, <2>1, CallTurn
    <2>3. OwnIsSaved => OwnIsSaved'
        BY <2>1 DEF OwnIsSaved, Stored
    <2>4. QED
        BY <1>t, <2>1, <2>2, <2>3 DEF TurnInv
<1>2. CASE BlockStep
    <2>1. frames' \in Nat /\ (phase' # "block" => frames' = 0)
        <3>1. frames \in Nat /\ (phase # "block" => frames = 0)
            BY <1>t DEF TurnInv
        <3>2. CASE BeginBlock \/ OpenFrame
            BY <3>1, <3>2 DEF BeginBlock, OpenFrame
        <3>3. CASE CommitFrame \/ RevertFrame
            BY <3>1, <3>3 DEF CommitFrame, RevertFrame
        <3>4. CASE BeginCommit \/ EndCommit \/ SaveFails \/ AbandonBlock
            BY <3>1, <3>4 DEF BeginCommit, EndCommit, SaveFails, AbandonBlock
        <3>5. CASE UNCHANGED blockVars
            BY <3>1, <3>5 DEF blockVars
        <3>6. QED
            <4>1. CASE \/ \E a \in Addr, v \in Value : PutAccount(a, v)
                       \/ \E r \in Reader, a \in Addr : ReadMiss(r, a)
                       \/ \E r \in Reader : ReadReturns(r)
                       \/ \E a \in Addr : SaveAccount(a)
                       \/ OtherCached
                       \/ OtherCredited
                BY <3>5, <4>1 DEF PutAccount, ReadMiss, ReadReturns,
                                  SaveAccount, OtherCached, OtherCredited
            <4>2. CASE AccountPersisted \/ AccountSaved
                BY <3>1, <4>2 DEF AccountPersisted, AccountSaved
            <4>3. QED
                BY <1>2, <3>2, <3>3, <3>4, <4>1, <4>2 DEF BlockStep
    <2>2. ~overlapped' /\ phase' = "block" => InTurn'
        BY <1>2, BlockTurn
    <2>3. ASSUME ~overlapped', phase' = "saving"
          PROVE  OwnIsSaved'
        <3>1. CASE BeginCommit
            <4>1. own' = own /\ overlapped' = (overlapped \/ UnderWay # {})
                BY <1>2, <2>3, <3>1
                   DEF BlockStep, BeginBlock, PutAccount, OpenFrame,
                       CommitFrame, RevertFrame, BeginCommit, EndCommit,
                       SaveFails, AbandonBlock, ReadMiss, ReadReturns,
                       SaveAccount, AccountPersisted, AccountSaved,
                       OtherCached, OtherCredited, blockVars
            <4>2. ~overlapped /\ UnderWay = {}
                BY <2>3, <4>1
            <4>3. QED
                BY <3>1, <4>1, <4>2, CommitTurn
        <3>2. CASE /\ \/ \E r \in Reader, a \in Addr : ReadMiss(r, a)
                      \/ \E r \in Reader : ReadReturns(r)
                      \/ \E a \in Addr : SaveAccount(a)
                      \/ AccountPersisted
                      \/ AccountSaved
                      \/ OtherCached
                      \/ OtherCredited
                   /\ UNCHANGED callHistory
            <4>1. phase = "saving" /\ own' = own /\ ~overlapped
                BY <2>3, <3>2
                   DEF ReadMiss, ReadReturns, SaveAccount, AccountPersisted,
                       AccountSaved, OtherCached, OtherCredited, blockVars,
                       callHistory
            <4>2. QED
                BY <1>t, <3>2, <4>1, SavesGoOn DEF TurnInv
        <3>3. QED
            BY <1>2, <2>3, <3>1, <3>2
               DEF BlockStep, BeginBlock, PutAccount, OpenFrame, CommitFrame,
                   RevertFrame, EndCommit, SaveFails, AbandonBlock, blockVars
    <2>4. QED
        BY <2>1, <2>2, <2>3 DEF TurnInv
<1>3. ASSUME CommitNothing \/ FramesLost
      PROVE  TurnInv'
    <2>1. /\ phase = "block" /\ journalStack = <<>>
          /\ frames' = 0 /\ overlapped' = overlapped
          /\ phase' \in {"idle", "block"}
        BY <1>3 DEF CommitNothing, FramesLost
    <2>2. overlapped
        <3> SUFFICES ASSUME ~overlapped PROVE FALSE
            OBVIOUS
        <3>1. InTurn /\ frames \in Nat
            BY <1>t, <2>1 DEF TurnInv
        <3>2. Len(journalStack) = 0
            BY <2>1
        <3>3. \A c \in Caller : Owes(call[c]) \in Nat
            BY DEF Owes
        <3>4. QED
            BY <3>1, <3>2, <3>3 DEF InTurn, UnderWay
    <2>3. QED
        BY <2>1, <2>2 DEF TurnInv
<1>4. QED
    BY <1>u, <1>1, <1>2, <1>3 DEF CallNext

\* eth_call changes no state of the block as long as each request opens its
\* checkpoint, runs and reverts between two steps of the block and alone: the
\* block then sees its own writes and commits them and no others, with any
\* number of requests, however deep the frames, also beside the requests that
\* run, in whatever order, while the block is being saved.  Accounts that are
\* late when a block begins, or at its commit, are excepted.
THEOREM CallsInTurnLeaveTheBlockAlone == CallSpec => []CallsInTurnAreIsolated
<1>1. CallInit => IsolationInv
    <2>1. CallInit => CallCoherenceInv
        BY CallsInit, TypeInit, TypeInvIsDiskTyped, CoherenceInit
           DEF CallInit, CallCoherenceInv
    <2>2. CallInit => TurnInv
        BY DEF CallInit, Init, TurnInv
    <2>3. QED
        BY <2>1, <2>2 DEF IsolationInv
<1>2. IsolationInv => CallsInTurnAreIsolated
    <2> SUFFICES ASSUME IsolationInv, ~overlapped
                 PROVE  /\ phase = "block" /\ UnderWay = {} =>
                              Picture(Len(journalStack)) = own[Len(own)]
                        /\ late = {} => BlockCommitsItsOwnWrites
        BY DEF CallsInTurnAreIsolated
    <2>1. ASSUME phase = "block", UnderWay = {}
          PROVE  Picture(Len(journalStack)) = own[Len(own)]
        <3>1. /\ journalStack \in Seq(Journal) /\ Stored \in Accounts
              /\ frames \in Nat
              /\ InTurn
            BY <2>1, StoredType
               DEF IsolationInv, CallCoherenceInv, CallsInv, TurnInv
        <3>2. Len(journalStack) = frames + 1
            BY <2>1, <3>1 DEF InTurn
        <3>3. SubSeq(journalStack, 1, frames + 1) = journalStack
            BY <3>1, <3>2
        <3>4. own = Pictures(journalStack, Stored)
            BY <3>1, <3>3 DEF InTurn
        <3>5. Len(own) = Len(journalStack)
            BY <3>1, <3>4, PictureType
        <3>6. Len(journalStack) \in 1..Len(journalStack)
            BY <3>1, <3>2
        <3>7. QED
            BY <3>4, <3>5, <3>6 DEF Pictures, PictureOf, Picture
    <2>2. late = {} => BlockCommitsItsOwnWrites
        BY DEF BlockCommitsItsOwnWrites, IsolationInv, TurnInv, OwnIsSaved
    <2>3. QED
        BY <2>1, <2>2
<1>3. IsolationInv /\ [CallNext]_callVars => IsolationInv'
    BY CallCoherenceStep, TurnStep DEF IsolationInv
<1>4. QED
    BY <1>1, <1>2, <1>3, PTL DEF CallSpec
=============================================================================
