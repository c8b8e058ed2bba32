--------------------------- MODULE StateManager ----------------------------
(***************************************************************************)
(* The account state of the node: src/src/state/state-manager.ts.          *)
(*                                                                         *)
(* A stack of journals (JavaScript Maps) over a bounded cache over the     *)
(* LevelDB repository.  This module holds the state and one operator per   *)
(* method; the modules that extend it say who calls them and when.         *)
(*                                                                         *)
(* Object is what a Map holds: a reference to an Account.  Where nobody    *)
(* mutates an Account after storing it a reference is as good as the value *)
(* (BlockExecution); where somebody does it is not (AccountService).       *)
(*                                                                         *)
(* An await is a point where other callbacks run, so a method that awaits  *)
(* is several operators: getAccount on a miss (Fetch, FetchDone) and       *)
(* commitBlock (CommitStart, Encode, Persist, SaveDone, CommitEnd, or      *)
(* CommitFails).                                                           *)
(*                                                                         *)
(* deleteAccount has no caller in the program (the VM's deleteAccount      *)
(* stores an empty Account), so no Map holds null and it is left out.      *)
(***************************************************************************)
EXTENDS Naturals, Sequences

CONSTANTS
    Addr,            \* account addresses
    Object,          \* what the journals and the cache hold
    Value,           \* what the repository holds: balance, nonce, roots
    Reader,          \* concurrent getAccount calls that may be waiting
    NoAccount,       \* the repository has no such account
    NoEntry,         \* a Map without the key
    CacheSizeLimit   \* CACHE_SIZE_LIMIT, 1000 in the code

ASSUME CacheSizeLimitAssumption == CacheSizeLimit \in Nat \ {0}
ASSUME MarksAssumption ==
    /\ NoEntry \notin Object
    /\ NoEntry \notin Addr
    /\ NoAccount \notin Value

VARIABLES
    journalStack,    \* Map<Address, Account>[], innermost last
    cache,           \* the cache Map: its values ...
    cacheKeys,       \* ... and its keys in insertion order
    repo,            \* accounts in the repository (LevelDB)
    fetch,           \* the read each Reader waits for, if any
    unsaved,         \* commitBlock: entries of mergedJournal not yet saved
    save             \* commitBlock: the saveAccount being awaited, if any

stateVars ==
    <<journalStack, cache, cacheKeys, repo, fetch, unsaved, save>>

Entry == Object \cup {NoEntry}
Journal == [Addr -> Entry]
EmptyJournal == [a \in Addr |-> NoEntry]

NoFetch == [addr |-> NoEntry, value |-> NoAccount]
NoSave == [addr |-> NoEntry, value |-> NoAccount, persisted |-> FALSE]

StateInit ==
    /\ journalStack = <<>>
    /\ cache = [a \in Addr |-> NoEntry]
    /\ cacheKeys = <<>>
    /\ repo \in [Addr -> Value \cup {NoAccount}]
    /\ fetch = [r \in Reader |-> NoFetch]
    /\ unsaved = EmptyJournal
    /\ save = NoSave

-----------------------------------------------------------------------------
(* Reading *)

\* The levels of a stack that have an entry for an address, and the entry of
\* the innermost one.  getAccount searches for it from the top down;
\* commitBlock computes it from the bottom up by overwriting.
LevelsWith(stack, a) == {i \in DOMAIN stack : stack[i][a] # NoEntry}

Innermost(stack, a) ==
    CHOOSE i \in LevelsWith(stack, a) :
        \A j \in LevelsWith(stack, a) : j <= i

Merged(stack) ==
    [a \in Addr |->
        IF LevelsWith(stack, a) = {} THEN NoEntry
                                     ELSE stack[Innermost(stack, a)][a]]

\* What getAccount finds without asking the repository; NoEntry on a miss.
Lookup(a) ==
    IF Merged(journalStack)[a] # NoEntry THEN Merged(journalStack)[a]
                                         ELSE cache[a]

\* Mutation: the limit is looked at too late.
AddToCacheOverLimit(a, obj) ==
    LET full == Len(cacheKeys) > CacheSizeLimit
        kept == IF full THEN Tail(cacheKeys) ELSE cacheKeys
    IN  /\ cacheKeys' = IF \E i \in DOMAIN kept : kept[i] = a
                        THEN kept ELSE Append(kept, a)
        /\ cache' = [b \in Addr |->
                        IF b = a THEN obj
                        ELSE IF full /\ b = Head(cacheKeys) THEN NoEntry
                        ELSE cache[b]]

\* addToCache: when the Map is full its first key goes, whether or not the
\* address is already a key; setting a key that is there keeps its place.
AddToCache(a, obj) ==
    LET full == Len(cacheKeys) >= CacheSizeLimit
        kept == IF full THEN Tail(cacheKeys) ELSE cacheKeys
    IN  /\ cacheKeys' = IF \E i \in DOMAIN kept : kept[i] = a
                        THEN kept ELSE Append(kept, a)
        /\ cache' = [b \in Addr |->
                        IF b = a THEN obj
                        ELSE IF full /\ b = Head(cacheKeys) THEN NoEntry
                        ELSE cache[b]]

\* getAccount misses: the repository is asked and the caller waits.  LevelDB
\* answers with what it held when it was asked; when it fails the repository
\* logs the error and answers null, as for an account that does not exist.
Fetch(r, a, fails) ==
    /\ fetch[r] = NoFetch
    /\ Lookup(a) = NoEntry
    /\ fetch' = [fetch EXCEPT ![r] =
            [addr |-> a, value |-> IF fails THEN NoAccount ELSE repo[a]]]
    /\ UNCHANGED <<journalStack, cache, cacheKeys, repo, unsaved, save>>

\* The answer arrives: an account is put in the cache, whatever happened to
\* the address meanwhile; null is only returned.
FetchDone(r, obj) ==
    /\ fetch[r] # NoFetch
    /\ IF fetch[r].value = NoAccount
       THEN UNCHANGED <<cache, cacheKeys>>
       ELSE AddToCache(fetch[r].addr, obj)
    /\ fetch' = [fetch EXCEPT ![r] = NoFetch]

-----------------------------------------------------------------------------
(* Writing and nesting; each of these is synchronous *)

SetAccount(a, obj) ==
    journalStack' =
        IF journalStack = <<>>
        THEN <<[EmptyJournal EXCEPT ![a] = obj]>>
        ELSE [journalStack EXCEPT ![Len(journalStack)][a] = obj]

StartBlock == journalStack' = <<EmptyJournal>>

Checkpoint == journalStack' = Append(journalStack, EmptyJournal)

Popped == SubSeq(journalStack, 1, Len(journalStack) - 1)

\* Mutation: the outer level wins.
CommitCheckpointKeepsOuter ==
    /\ journalStack # <<>>
    /\ journalStack' =
         IF Len(journalStack) = 1 THEN <<>>
         ELSE LET top == journalStack[Len(journalStack)]
                  low == journalStack[Len(journalStack) - 1]
              IN  [Popped EXCEPT ![Len(journalStack) - 1] =
                      [a \in Addr |-> IF low[a] # NoEntry THEN low[a]
                                                          ELSE top[a]]]

\* A single level is dropped, not merged; an empty stack is an error.
CommitCheckpoint ==
    /\ journalStack # <<>>
    /\ journalStack' =
         IF Len(journalStack) = 1 THEN <<>>
         ELSE LET top == journalStack[Len(journalStack)]
                  low == journalStack[Len(journalStack) - 1]
              IN  [Popped EXCEPT ![Len(journalStack) - 1] =
                      [a \in Addr |-> IF top[a] # NoEntry THEN top[a]
                                                          ELSE low[a]]]

\* Mutation: the level is emptied and left there.
RevertCheckpointKeepsLevel ==
    /\ journalStack # <<>>
    /\ journalStack' = [journalStack EXCEPT ![Len(journalStack)] = EmptyJournal]

RevertCheckpoint ==
    /\ journalStack # <<>>
    /\ journalStack' = Popped

RollbackBlock == journalStack' = <<>>

-----------------------------------------------------------------------------
(* commitBlock *)

\* The levels are merged into a Map of their own.
CommitStart ==
    /\ journalStack # <<>>
    /\ unsaved' = Merged(journalStack)
    /\ UNCHANGED <<journalStack, cache, cacheKeys, repo, fetch, save>>

\* saveAccount is called: the account is encoded before the first await.
Encode(a, value) ==
    /\ save = NoSave
    /\ unsaved[a] \in Object
    /\ save' = [addr |-> a, value |-> value, persisted |-> FALSE]
    /\ UNCHANGED <<journalStack, cache, cacheKeys, repo, fetch, unsaved>>

\* Mutation: saveAccount forgets to put the account.
PersistNothing ==
    /\ save # NoSave
    /\ ~save.persisted
    /\ save' = [save EXCEPT !.persisted = TRUE]
    /\ UNCHANGED <<journalStack, cache, cacheKeys, repo, fetch, unsaved>>

\* LevelDB performs the put.
Persist ==
    /\ save # NoSave
    /\ ~save.persisted
    /\ repo' = [repo EXCEPT ![save.addr] = save.value]
    /\ save' = [save EXCEPT !.persisted = TRUE]
    /\ UNCHANGED <<journalStack, cache, cacheKeys, fetch, unsaved>>

\* Mutation: the cache keeps what it has.
SaveDoneWithoutCache ==
    /\ save # NoSave
    /\ save.persisted
    /\ unsaved' = [unsaved EXCEPT ![save.addr] = NoEntry]
    /\ save' = NoSave
    /\ UNCHANGED <<journalStack, cache, cacheKeys, repo, fetch>>

\* Mutation: the entry is not done with.
SaveDoneAgain ==
    /\ save # NoSave
    /\ save.persisted
    /\ AddToCache(save.addr, unsaved[save.addr])
    /\ save' = NoSave
    /\ UNCHANGED <<journalStack, repo, fetch, unsaved>>

\* saveAccount returns: the object goes to the cache.
SaveDone ==
    /\ save # NoSave
    /\ save.persisted
    /\ AddToCache(save.addr, unsaved[save.addr])
    /\ unsaved' = [unsaved EXCEPT ![save.addr] = NoEntry]
    /\ save' = NoSave
    /\ UNCHANGED <<journalStack, repo, fetch>>

\* Mutation: the saves are not awaited.
CommitEndEarly ==
    /\ save = NoSave
    /\ journalStack' = <<>>
    /\ unsaved' = EmptyJournal
    /\ UNCHANGED <<cache, cacheKeys, repo, fetch, save>>

\* Every entry is saved: the stack is cleared, whatever it holds by now.
CommitEnd ==
    /\ save = NoSave
    /\ unsaved = EmptyJournal
    /\ journalStack' = <<>>
    /\ UNCHANGED <<cache, cacheKeys, repo, fetch, unsaved, save>>

\* saveAccount throws: commitBlock is left in the middle of its entries, and
\* the caller's catch rolls back.
CommitFails ==
    /\ save # NoSave
    /\ ~save.persisted
    /\ unsaved' = EmptyJournal
    /\ save' = NoSave
    /\ RollbackBlock
    /\ UNCHANGED <<cache, cacheKeys, repo, fetch>>

-----------------------------------------------------------------------------
(* Types *)

StateTypeOK ==
    /\ journalStack \in Seq(Journal)
    /\ cache \in [Addr -> Object \cup {NoEntry}]
    /\ cacheKeys \in Seq(Addr)
    /\ repo \in [Addr -> Value \cup {NoAccount}]
    /\ fetch \in [Reader -> [addr : Addr \cup {NoEntry},
                             value : Value \cup {NoAccount}]]
    /\ unsaved \in Journal
    /\ save \in [addr : Addr \cup {NoEntry}, value : Value \cup {NoAccount},
                 persisted : BOOLEAN]
=============================================================================
