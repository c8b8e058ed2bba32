--------------------------- MODULE AccountProofs ---------------------------
(***************************************************************************)
(* Theorems about AccountService, for every set of accounts and of API     *)
(* requests, every cache size and every number of objects: who may hold an *)
(* Account object, and what its balance is.                                *)
(***************************************************************************)
EXTENDS AccountService, StateManagerProofs, FiniteSetTheorems

-----------------------------------------------------------------------------
(* The inductive invariants *)

\* Everything that holds an object for an address: a level of the journal,
\* the cache, the merged journal being saved, a task that got it.
Refers(a, o) ==
    \/ \E i \in DOMAIN journalStack : journalStack[i][a] = o
    \/ cache[a] = o
    \/ unsaved[a] = o
    \/ \E t \in Task : task[t].addr = a /\ task[t].ref = o

\* No object is held for two addresses, so that a change made in place to one
\* account is never seen in another.
OneOwner ==
    \A a, b \in Addr, o \in Object : Refers(a, o) /\ Refers(b, o) => a = b

\* What a task is doing is matched by the read it waits for.
TaskOK(t) ==
    /\ task[t].step \in {"done", "fetching", "held", "credit"}
    /\ task[t].ref \in Object \cup {NoEntry}
    /\ task[t].change \in {-1, 0, 1}
    /\ task[t].credit \in Addr \cup {NoEntry}
    /\ task[t].step \in {"fetching", "held"} => task[t].addr \in Addr
    /\ task[t].step = "held" <=> task[t].ref # NoEntry
    /\ task[t].step = "credit" => task[t].credit \in Addr
    /\ IF task[t].step = "fetching"
       THEN /\ fetch[t].addr = task[t].addr
            /\ fetch[t].value \in Nat \cup {NoAccount}
       ELSE fetch[t] = NoFetch

ObjectsInv ==
    /\ journalStack \in Seq(Journal)
    /\ cache \in [Addr -> Entry]
    /\ unsaved \in Journal
    /\ repo \in [Addr -> Nat \cup {NoAccount}]
    /\ heap \in [Object -> Nat]
    /\ owed \in [Addr -> Int] /\ inBlock \in [Addr -> Int]
    /\ DOMAIN task = Task /\ DOMAIN fetch = Task
    /\ \A t \in Task : TaskOK(t)
    /\ save # NoSave => /\ save.addr \in Addr /\ save.value \in Nat
                        /\ unsaved[save.addr] \in Object
    /\ phase # "saving" => unsaved = EmptyJournal /\ save = NoSave
    /\ OneOwner

\* Without transfers every copy of a balance, in memory, on its way or on
\* disk, is at most what is owed, and what is owed never decreases.
Credits ==
    /\ \A a \in Addr, o \in Object : Refers(a, o) => heap[o] <= owed[a]
    /\ \A a \in Addr : Held(repo[a]) <= owed[a]
    /\ \A t \in Task : task[t].step = "fetching" =>
           Held(fetch[t].value) <= owed[fetch[t].addr]
    /\ save # NoSave => save.value <= owed[save.addr]
    /\ \A t \in Task :
           /\ task[t].step # "credit"
           /\ task[t].step # "done" =>
                  task[t].change = 1 /\ task[t].credit = NoEntry
    /\ phase # "paying" => Quiet(Producer)
    /\ \A a \in Addr : inBlock[a] = 0

CreditInv ==
    /\ ObjectsInv
    /\ ~mode.transfers => Credits

\* What the journal has for an address; in an undisturbed run one level.
Journalled(a) == Merged(journalStack)[a]

\* In undisturbed blocks the object found for an address has the balance that
\* is owed.  What the journal does not have is owed as the repository has it,
\* and the cache has no other object than the journal.
MemoryIsOwed ==
    \A a \in Addr :
        IF Journalled(a) # NoEntry
        THEN /\ heap[Journalled(a)] = owed[a]
             /\ cache[a] \in {NoEntry, Journalled(a)}
        ELSE /\ Held(repo[a]) = owed[a]
             /\ cache[a] # NoEntry => heap[cache[a]] = owed[a]

\* A transfer has the object that is found, or waits for what is on disk.
TransferOK(k, f) ==
    /\ k.step = "held" => k.ref = Lookup(k.addr)
    /\ k.step = "fetching" => /\ Lookup(k.addr) = NoEntry
                              /\ f.value = repo[k.addr]

\* What commitBlock has not saved is the journal's, and the rest is on disk.
SavingIsOwed ==
    /\ \A a \in Addr : IF unsaved[a] # NoEntry
                       THEN unsaved[a] = Journalled(a)
                       ELSE Held(repo[a]) = owed[a]
    /\ save # NoSave => /\ save.value = owed[save.addr]
                        /\ save.persisted => repo[save.addr] = save.value

Transfers ==
    /\ \A t \in Api : Quiet(t)
    /\ phase \in {"idle", "block", "saving"}
    /\ phase # "block" => Quiet(Producer)
    /\ Len(journalStack) = IF phase = "idle" THEN 0 ELSE 1
    /\ MemoryIsOwed
    /\ TransferOK(task[Producer], fetch[Producer])
    /\ phase = "saving" => SavingIsOwed

TransfersInv ==
    /\ ObjectsInv
    /\ Undisturbed => Transfers

-----------------------------------------------------------------------------
(* Finding, making and holding objects *)

\* The object that is found is held for the address it is found for.
LEMMA LookupRefers ==
    ASSUME ObjectsInv, NEW a \in Addr, Lookup(a) # NoEntry
    PROVE  Lookup(a) \in Object /\ Refers(a, Lookup(a))
<1>1. /\ journalStack \in Seq(Journal)
      /\ cache[a] \in Object \cup {NoEntry}
    BY DEF ObjectsInv, Entry
<1>2. CASE Merged(journalStack)[a] # NoEntry
    <2>1. Merged(journalStack)[a] \in Object
        BY <1>1, <1>2, MergedType DEF Journal, Entry
    <2>2. \E i \in DOMAIN journalStack :
              Merged(journalStack)[a] = journalStack[i][a]
        BY <1>1, <1>2, MergedIsEntry
    <2>3. QED
        BY <1>2, <2>1, <2>2 DEF Lookup, Refers
<1>3. CASE Merged(journalStack)[a] = NoEntry
    BY <1>1, <1>3 DEF Lookup, Refers
<1>4. QED
    BY <1>2, <1>3

\* The smallest of some objects.
LEMMA LeastObject ==
    ASSUME NEW S, S \subseteq Object, S # {}
    PROVE  \E o \in S : \A p \in S : o <= p
<1> DEFINE T == {MaxAccounts - o : o \in S}
<1>1. MaxAccounts \in Nat /\ S \subseteq 1..MaxAccounts
    BY AccountServiceAssumption
<1>2. T \subseteq 0..MaxAccounts /\ T # {}
    <2>1. ASSUME NEW u \in T
          PROVE  u \in 0..MaxAccounts
        <3>1. PICK o \in S : u = MaxAccounts - o
            OBVIOUS
        <3>2. o \in Nat /\ o >= 1 /\ o <= MaxAccounts
            BY <1>1
        <3>3. QED
            BY <1>1, <3>1, <3>2
    <2>2. T # {}
        OBVIOUS
    <2>3. QED
        BY <2>1, <2>2
<1>3. PICK t \in T : \A u \in T : u <= t
    BY <1>1, <1>2, Greatest
<1>4. PICK o \in S : t = MaxAccounts - o
    OBVIOUS
<1>5. \A p \in S : MaxAccounts - p <= MaxAccounts - o
    BY <1>3, <1>4
<1>6. QED
    BY <1>1, <1>5

\* The object that the repository makes is one that nobody holds.
LEMMA NewIsFree ==
    ASSUME Object \ Live # {}
    PROVE  /\ New \in Object
           /\ \A a \in Addr : ~Refers(a, New)
<1>1. \E o \in Object \ Live : \A p \in Object \ Live : o <= p
    BY LeastObject
<1>2. New \in Object /\ New \notin Live
    BY <1>1 DEF New
<1>3. QED
    BY <1>2 DEF Refers, Live

\* What getOrCreateAccount does first, in each of its uses.
Asks(t, a, change, credit) ==
    /\ \/ /\ Lookup(a) # NoEntry
          /\ task' = [task EXCEPT ![t] =
                [step |-> "held", addr |-> a, ref |-> Lookup(a),
                 change |-> change, credit |-> credit]]
          /\ UNCHANGED stateVars
       \/ /\ \E fails \in {FALSE, mode.failures} : Fetch(t, a, fails)
          /\ task' = [task EXCEPT ![t] =
                [step |-> "fetching", addr |-> a, ref |-> NoEntry,
                 change |-> change, credit |-> credit]]
    /\ UNCHANGED <<heap, phase, history>>

\* An API request, a transfer, a reward and the second half of a transfer.
LEMMA WhoAsks ==
    /\ \A t \in Task, a \in Addr : \A change, credit :
          Seek(t, a, change, credit) => Asks(t, a, change, credit)
    /\ \A t \in Task :
          SeekRecipient(t) => Asks(t, task[t].credit, 1, NoEntry)
BY DEF Seek, SeekRecipient, Asks

\* It leaves the task waiting for its read or holding what is found.
LEMMA AsksKeeps ==
    ASSUME ObjectsInv, NEW t \in Task, NEW a \in Addr,
           NEW change \in {-1, 1}, NEW credit \in Addr \cup {NoEntry},
           task[t].step \in {"done", "credit"},
           Asks(t, a, change, credit)
    PROVE  /\ ObjectsInv'
           /\ \A b \in Addr, o \in Object : Refers(b, o)' => Refers(b, o)
<1> DEFINE Hit == [step |-> "held", addr |-> a, ref |-> Lookup(a),
                   change |-> change, credit |-> credit]
           Miss == [step |-> "fetching", addr |-> a, ref |-> NoEntry,
                    change |-> change, credit |-> credit]
<1>1. /\ UNCHANGED <<journalStack, cache, repo, unsaved, save>>
      /\ UNCHANGED <<heap, phase, owed, inBlock>>
    BY DEF Asks, stateVars, Fetch, history
<1>n. NoEntry \notin Object /\ NoEntry \notin Addr
    BY MarksAssumption
<1>t. /\ DOMAIN task = Task /\ DOMAIN fetch = Task
      /\ \A u \in Task : TaskOK(u)
      /\ repo[a] \in Nat \cup {NoAccount}
      /\ fetch[t] = NoFetch
    BY DEF ObjectsInv, TaskOK
<1>2. CASE /\ Lookup(a) # NoEntry
           /\ task' = [task EXCEPT ![t] = Hit]
           /\ UNCHANGED stateVars
    <2>1. Lookup(a) \in Object /\ Refers(a, Lookup(a))
        BY <1>2, LookupRefers
    <2> HIDE DEF Hit
    <2>2. /\ task'[t] = Hit
          /\ \A u \in Task \ {t} : task'[u] = task[u]
          /\ DOMAIN task' = Task
          /\ fetch' = fetch
        BY <1>t, <1>2 DEF stateVars
    <2>3. \A u \in Task : TaskOK(u)'
        BY <1>t, <1>n, <2>1, <2>2 DEF TaskOK, Hit
    <2>4. ASSUME NEW b \in Addr, NEW o \in Object, Refers(b, o)'
          PROVE  Refers(b, o)
        <3>1. ASSUME NEW u \in Task, task'[u].addr = b, task'[u].ref = o
              PROVE  Refers(b, o)
            BY <2>1, <2>2, <3>1 DEF Refers, Hit
        <3>2. QED
            BY <1>1, <2>4, <3>1 DEF Refers
    <2>5. OneOwner'
        BY <2>4 DEF ObjectsInv, OneOwner
    <2>6. QED
        BY <1>1, <1>t, <2>2, <2>3, <2>4, <2>5 DEF ObjectsInv
<1>3. CASE /\ \E fails \in {FALSE, mode.failures} : Fetch(t, a, fails)
           /\ task' = [task EXCEPT ![t] = Miss]
    <2>1. PICK w \in {NoAccount, repo[a]} :
              fetch' = [fetch EXCEPT ![t] = [addr |-> a, value |-> w]]
        BY <1>3 DEF Fetch
    <2> HIDE DEF Miss
    <2>2. /\ task'[t] = Miss
          /\ \A u \in Task \ {t} : task'[u] = task[u]
          /\ DOMAIN task' = Task /\ DOMAIN fetch' = Task
          /\ fetch'[t] = [addr |-> a, value |-> w]
          /\ \A u \in Task \ {t} : fetch'[u] = fetch[u]
        BY <1>t, <1>3, <2>1
    <2>3. \A u \in Task : TaskOK(u)'
        BY <1>t, <1>n, <2>1, <2>2 DEF TaskOK, Miss
    <2>4. ASSUME NEW b \in Addr, NEW o \in Object, Refers(b, o)'
          PROVE  Refers(b, o)
        <3>1. ASSUME NEW u \in Task, task'[u].addr = b, task'[u].ref = o
              PROVE  Refers(b, o)
            BY <1>n, <2>2, <3>1 DEF Refers, Miss
        <3>2. QED
            BY <1>1, <2>4, <3>1 DEF Refers
    <2>5. OneOwner'
        BY <2>4 DEF ObjectsInv, OneOwner
    <2>6. QED
        BY <1>1, <1>t, <2>2, <2>3, <2>4, <2>5 DEF ObjectsInv
<1>4. QED
    BY <1>2, <1>3 DEF Asks

\* The repository answers: the task holds an object of its own.
LEMMA ObtainKeeps ==
    ASSUME ObjectsInv, NEW t \in Task, Obtain(t)
    PROVE  /\ ObjectsInv'
           /\ New \in Object /\ \A b \in Addr : ~Refers(b, New)
           /\ \A b \in Addr, o \in Object : Refers(b, o)' =>
                 Refers(b, o) \/ (o = New /\ b = task[t].addr)
<1> DEFINE a == task[t].addr
           w == fetch[t].value
<1>1. /\ task[t].step = "fetching"
      /\ a \in Addr /\ fetch[t].addr = a
      /\ w \in Nat \cup {NoAccount}
      /\ task[t].ref = NoEntry
      /\ task[t].change \in {-1, 0, 1}
      /\ task[t].credit \in Addr \cup {NoEntry}
    BY DEF Obtain, ObjectsInv, TaskOK
<1>2. /\ New \in Object
      /\ \A b \in Addr : ~Refers(b, New)
    BY NewIsFree DEF Obtain
<1> HIDE DEF New
<1>n. NoEntry \notin Object /\ NoEntry \notin Addr
    BY MarksAssumption
<1>3. /\ UNCHANGED <<repo, unsaved, save, phase, owed, inBlock>>
      /\ fetch' = [fetch EXCEPT ![t] = NoFetch]
      /\ IF w = NoAccount THEN UNCHANGED cache ELSE AddToCache(a, New)
      /\ IF w = NoAccount THEN SetAccount(a, New) ELSE UNCHANGED journalStack
      /\ heap' = [heap EXCEPT ![New] = Held(w)]
      /\ task' = [task EXCEPT ![t].step = "held", ![t].ref = New]
    BY <1>1 DEF Obtain, FetchDone, history
<1>t. /\ journalStack \in Seq(Journal)
      /\ cache \in [Addr -> Object \cup {NoEntry}]
      /\ DOMAIN task = Task /\ DOMAIN fetch = Task
      /\ heap \in [Object -> Nat]
      /\ \A u \in Task : TaskOK(u)
    BY DEF ObjectsInv, Entry
<1> HIDE DEF a, w
<1>4. /\ journalStack' \in Seq(Journal)
      /\ \A i \in DOMAIN journalStack' : \A b \in Addr :
            \/ journalStack'[i][b] = NoEntry
            \/ b = a /\ journalStack'[i][b] = New
            \/ /\ i \in DOMAIN journalStack
               /\ journalStack'[i][b] = journalStack[i][b]
    BY <1>1, <1>2, <1>3, <1>t, SetAccountType, SetAccountEntries
<1>5. /\ cache' \in [Addr -> Entry]
      /\ \A b \in Addr : \/ cache'[b] \in {cache[b], NoEntry}
                         \/ b = a /\ cache'[b] = New
    <2>1. CASE w = NoAccount
        BY <1>3, <1>t, <2>1 DEF Entry
    <2>2. CASE w # NoAccount
        <3>1. AddToCache(a, New)
            BY <1>3, <2>2
        <3>2. cache' \in [Addr -> Entry]
            BY <1>2, <1>t, <3>1 DEF AddToCache, Entry
        <3>3. QED
            BY <1>1, <1>2, <3>1, <3>2, AddToCacheEntries
    <2>3. QED
        BY <2>1, <2>2
<1>6. /\ task'[t].addr = a /\ task'[t].ref = New /\ task'[t].step = "held"
      /\ task'[t].change = task[t].change
      /\ task'[t].credit = task[t].credit
      /\ \A u \in Task \ {t} : task'[u] = task[u] /\ fetch'[u] = fetch[u]
      /\ DOMAIN task' = Task /\ DOMAIN fetch' = Task
      /\ fetch'[t] = NoFetch
    BY <1>3, <1>t DEF a
<1>7. \A u \in Task : TaskOK(u)'
    BY <1>1, <1>2, <1>n, <1>t, <1>6 DEF TaskOK
<1>8. ASSUME NEW b \in Addr, NEW o \in Object, Refers(b, o)'
      PROVE  Refers(b, o) \/ (o = New /\ b = a)
    <2>1. ASSUME NEW i \in DOMAIN journalStack', journalStack'[i][b] = o
          PROVE  Refers(b, o) \/ (o = New /\ b = a)
        BY <1>n, <1>4, <2>1 DEF Refers
    <2>2. ASSUME NEW u \in Task, task'[u].addr = b, task'[u].ref = o
          PROVE  Refers(b, o) \/ (o = New /\ b = a)
        BY <1>6, <2>2 DEF Refers
    <2>3. QED
        BY <1>n, <1>3, <1>5, <1>8, <2>1, <2>2 DEF Refers
<1>9. OneOwner'
    BY <1>2, <1>8 DEF ObjectsInv, OneOwner
<1>10. heap' \in [Object -> Nat]
    BY <1>1, <1>3, <1>t DEF Held
<1>11. QED
    BY <1>2, <1>3, <1>4, <1>5, <1>6, <1>7, <1>8, <1>9, <1>10
       DEF ObjectsInv, a

\* A balance changes in place, and its object is set.
LEMMA ChangeKeeps ==
    ASSUME ObjectsInv, NEW t \in Task, Change(t)
    PROVE  /\ ObjectsInv'
           /\ \A b \in Addr, o \in Object : Refers(b, o)' => Refers(b, o)
<1> DEFINE a == task[t].addr
           r == task[t].ref
           c == task[t].change
<1>n. NoEntry \notin Object /\ NoEntry \notin Addr
    BY MarksAssumption
<1>1. /\ task[t].step = "held"
      /\ a \in Addr /\ r \in Object /\ c \in {-1, 0, 1}
      /\ Refers(a, r)
      /\ fetch[t] = NoFetch
    BY DEF Change, ObjectsInv, TaskOK, Refers
<1>t. /\ journalStack \in Seq(Journal)
      /\ DOMAIN task = Task /\ DOMAIN fetch = Task
      /\ heap \in [Object -> Nat]
      /\ owed \in [Addr -> Int] /\ inBlock \in [Addr -> Int]
      /\ \A u \in Task : TaskOK(u)
    BY DEF ObjectsInv
<1>2. CASE ~Sufficient(r, c)
    <2>1. /\ task' = [task EXCEPT ![t] = NoTask]
          /\ UNCHANGED <<stateVars, heap, phase, history>>
        BY <1>2 DEF Change
    <2>2. /\ task'[t] = NoTask
          /\ \A u \in Task \ {t} : task'[u] = task[u]
          /\ DOMAIN task' = Task
          /\ UNCHANGED fetch
        BY <1>t, <2>1 DEF stateVars
    <2>3. ASSUME NEW u \in Task
          PROVE  TaskOK(u)'
        <3>1. CASE u = t
            BY <1>1, <2>2, <3>1 DEF TaskOK, NoTask
        <3>2. CASE u # t
            BY <1>t, <2>2, <3>2 DEF TaskOK
        <3>3. QED
            BY <3>1, <3>2
    <2>4. ASSUME NEW b \in Addr, NEW o \in Object, Refers(b, o)'
          PROVE  Refers(b, o)
        <3>1. ASSUME NEW u \in Task, task'[u].addr = b, task'[u].ref = o
              PROVE  Refers(b, o)
            BY <1>n, <2>2, <3>1 DEF Refers, NoTask
        <3>2. QED
            BY <2>1, <2>4, <3>1 DEF Refers, stateVars
    <2>5. OneOwner'
        BY <2>4 DEF ObjectsInv, OneOwner
    <2>6. QED
        BY <2>1, <2>2, <2>3, <2>4, <2>5 DEF ObjectsInv, stateVars, history
<1>3. CASE Sufficient(r, c)
    <2>1. /\ heap' = [heap EXCEPT ![r] = @ + c]
          /\ SetAccount(a, r)
          /\ owed' = [owed EXCEPT ![a] = @ + c]
          /\ inBlock' \in {inBlock, [inBlock EXCEPT ![a] = @ + c]}
          /\ \/ task' = [task EXCEPT ![t] = NoTask]
             \/ /\ task[t].credit # NoEntry
                /\ task' = [[task EXCEPT ![t] = NoTask]
                               EXCEPT ![t].step = "credit",
                                      ![t].credit = task[t].credit]
          /\ UNCHANGED <<cache, cacheKeys, repo, fetch, unsaved, save, phase>>
        BY <1>3 DEF Change
    <2>2. /\ task'[t].step = "done" \/ /\ task'[t].step = "credit"
                                       /\ task'[t].credit \in Addr
          /\ task'[t].ref = NoEntry
          /\ task'[t].change = 0
          /\ task'[t].credit \in Addr \cup {NoEntry}
          /\ \A u \in Task \ {t} : task'[u] = task[u]
          /\ DOMAIN task' = Task
        BY <1>t, <2>1 DEF NoTask, TaskOK
    <2>3. ASSUME NEW u \in Task
          PROVE  TaskOK(u)'
        <3>1. CASE u = t
            BY <1>1, <2>1, <2>2, <3>1 DEF TaskOK
        <3>2. CASE u # t
            BY <1>t, <2>1, <2>2, <3>2 DEF TaskOK
        <3>3. QED
            BY <3>1, <3>2
    <2>4. /\ journalStack' \in Seq(Journal)
          /\ \A i \in DOMAIN journalStack' : \A b \in Addr :
                \/ journalStack'[i][b] = NoEntry
                \/ b = a /\ journalStack'[i][b] = r
                \/ /\ i \in DOMAIN journalStack
                   /\ journalStack'[i][b] = journalStack[i][b]
        BY <1>1, <1>t, <2>1, SetAccountType, SetAccountEntries
    <2>5. ASSUME NEW b \in Addr, NEW o \in Object, Refers(b, o)'
          PROVE  Refers(b, o)
        <3>1. ASSUME NEW u \in Task, task'[u].addr = b, task'[u].ref = o
              PROVE  Refers(b, o)
            BY <1>n, <2>2, <3>1 DEF Refers
        <3>2. ASSUME NEW i \in DOMAIN journalStack', journalStack'[i][b] = o
              PROVE  Refers(b, o)
            <4>1. CASE b = a /\ o = r
                BY <1>1, <4>1
            <4>2. CASE ~(b = a /\ o = r)
                BY <1>n, <2>4, <3>2, <4>2 DEF Refers
            <4>3. QED
                BY <4>1, <4>2
        <3>3. QED
            BY <2>1, <2>5, <3>1, <3>2 DEF Refers
    <2>6. OneOwner'
        BY <2>5 DEF ObjectsInv, OneOwner
    <2>7. heap' \in [Object -> Nat]
        BY <1>1, <1>3, <1>t, <2>1 DEF Sufficient
    <2>8. owed' \in [Addr -> Int] /\ inBlock' \in [Addr -> Int]
        BY <1>1, <1>t, <2>1
    <2>9. QED
        BY <2>1, <2>2, <2>3, <2>4, <2>5, <2>6, <2>7, <2>8 DEF ObjectsInv
<1>4. QED
    BY <1>2, <1>3

\* The steps of the block loop and of commitBlock, which hold no account.
LoopStep ==
    \/ BeginBlock
    \/ RejectBlock
    \/ BeginCommit
    \/ \E a \in Addr : SaveAccount(a)
    \/ AccountPersisted
    \/ AccountSaved
    \/ EndCommit
    \/ SaveFails
    \/ RewardsPaid

\* They make no new holder of an object, and change none.
LEMMA LoopKeeps ==
    ASSUME ObjectsInv, LoopStep
    PROVE  /\ ObjectsInv'
           /\ \A b \in Addr, o \in Object : Refers(b, o)' => Refers(b, o)
           /\ UNCHANGED <<task, fetch, heap>>
<1>n. NoEntry \notin Object /\ NoEntry \notin Addr
    BY MarksAssumption
<1>t. /\ journalStack \in Seq(Journal)
      /\ cache \in [Addr -> Object \cup {NoEntry}]
      /\ unsaved \in [Addr -> Object \cup {NoEntry}]
      /\ repo \in [Addr -> Nat \cup {NoAccount}]
      /\ heap \in [Object -> Nat]
      /\ owed \in [Addr -> Int] /\ inBlock \in [Addr -> Int]
      /\ save # NoSave => /\ save.addr \in Addr /\ save.value \in Nat
                          /\ unsaved[save.addr] \in Object
      /\ phase # "saving" => unsaved = EmptyJournal /\ save = NoSave
    BY DEF ObjectsInv, Entry, Journal
<1>e. EmptyJournal \in [Addr -> Object \cup {NoEntry}]
      /\ EmptyJournal \in Journal
    BY DEF EmptyJournal, Journal, Entry
<1>u. UNCHANGED <<task, fetch, heap>>
    BY DEF LoopStep, BeginBlock, RejectBlock, BeginCommit, CommitStart,
           SaveAccount, Encode, AccountPersisted, Persist, AccountSaved,
           SaveDone, EndCommit, CommitEnd, SaveFails, CommitFails,
           RewardsPaid, stateVars
<1>h. /\ owed' \in [Addr -> Int] /\ inBlock' \in [Addr -> Int]
    <2>1. Forgotten \in [Addr -> Int]
        BY <1>t DEF Forgotten
    <2>2. QED
        BY <1>t, <2>1
           DEF LoopStep, BeginBlock, RejectBlock, BeginCommit, SaveAccount,
               AccountPersisted, AccountSaved, EndCommit, SaveFails,
               RewardsPaid, history
\* It is enough to follow the journal, the cache, the repository and saves.
<1>s. ASSUME journalStack' \in Seq(Journal),
             cache' \in [Addr -> Object \cup {NoEntry}],
             unsaved' \in [Addr -> Object \cup {NoEntry}],
             repo' \in [Addr -> Nat \cup {NoAccount}],
             save' # NoSave => /\ save'.addr \in Addr /\ save'.value \in Nat
                               /\ unsaved'[save'.addr] \in Object,
             phase' # "saving" => unsaved' = EmptyJournal /\ save' = NoSave,
             \A b \in Addr, o \in Object :
                \/ \E i \in DOMAIN journalStack' : journalStack'[i][b] = o
                \/ cache'[b] = o
                \/ unsaved'[b] = o
                => Refers(b, o)
      PROVE  /\ ObjectsInv'
             /\ \A b \in Addr, o \in Object : Refers(b, o)' => Refers(b, o)
             /\ UNCHANGED <<task, fetch, heap>>
    <2>1. \A b \in Addr, o \in Object : Refers(b, o)' => Refers(b, o)
        BY <1>u, <1>s DEF Refers
    <2>2. OneOwner'
        BY <2>1 DEF ObjectsInv, OneOwner
    <2>3. \A u \in Task : TaskOK(u)'
        BY <1>u DEF ObjectsInv, TaskOK
    <2>4. QED
        BY <1>u, <1>h, <1>s, <2>1, <2>2, <2>3 DEF ObjectsInv, Journal, Entry
<1>1. CASE BeginBlock
    <2>1. /\ journalStack' = <<EmptyJournal>>
          /\ UNCHANGED <<cache, unsaved, repo, save>>
          /\ phase = "idle"
        BY <1>1 DEF BeginBlock, StartBlock
    <2>2. \A i \in DOMAIN journalStack' : \A b \in Addr :
              journalStack'[i][b] = NoEntry
        BY <2>1 DEF EmptyJournal
    <2>3. journalStack' \in Seq(Journal)
        BY <1>e, <2>1
    <2>4. QED
        BY <1>n, <1>t, <1>s, <2>1, <2>2, <2>3 DEF Refers
<1>2. CASE RejectBlock
    <2>1. /\ journalStack' = <<>>
          /\ UNCHANGED <<cache, unsaved, repo, save>>
          /\ phase = "block"
        BY <1>2 DEF RejectBlock, RollbackBlock
    <2>2. QED
        BY <1>t, <1>s, <2>1 DEF Refers
<1>3. CASE BeginCommit
    <2>1. /\ unsaved' = Merged(journalStack)
          /\ UNCHANGED <<journalStack, cache, repo, save>>
          /\ phase = "block" /\ phase' = "saving"
        BY <1>3 DEF BeginCommit, CommitStart
    <2>2. Merged(journalStack) \in [Addr -> Object \cup {NoEntry}]
        BY <1>t, MergedType DEF Journal, Entry
    <2>3. ASSUME NEW b \in Addr, NEW o \in Object, unsaved'[b] = o
          PROVE  Refers(b, o)
        <3>1. Merged(journalStack)[b] # NoEntry
            BY <1>n, <2>1, <2>3
        <3>2. \E i \in DOMAIN journalStack :
                  Merged(journalStack)[b] = journalStack[i][b]
            BY <1>t, <3>1, MergedIsEntry
        <3>3. QED
            BY <2>1, <2>3, <3>2 DEF Refers
    <2>4. save' = NoSave
        BY <1>t, <2>1
    <2>5. \A b \in Addr, o \in Object :
              \/ \E i \in DOMAIN journalStack' : journalStack'[i][b] = o
              \/ cache'[b] = o
              \/ unsaved'[b] = o
              => Refers(b, o)
        BY <2>1, <2>3 DEF Refers
    <2> HIDE DEF Refers
    <2>6. unsaved' \in [Addr -> Object \cup {NoEntry}]
        BY <2>1, <2>2
    <2>7. QED
        BY <1>t, <1>s, <2>1, <2>4, <2>5, <2>6
<1>4. ASSUME NEW a \in Addr, SaveAccount(a)
      PROVE  /\ ObjectsInv'
             /\ \A b \in Addr, o \in Object : Refers(b, o)' => Refers(b, o)
             /\ UNCHANGED <<task, fetch, heap>>
    <2>1. /\ UNCHANGED <<journalStack, cache, repo, unsaved>>
          /\ save'.addr = a /\ save'.value = heap[unsaved[a]]
          /\ unsaved[a] \in Object
          /\ phase' = "saving"
        BY <1>4 DEF SaveAccount, Encode
    <2>2. QED
        BY <1>t, <1>s, <2>1 DEF Refers
<1>5. CASE AccountPersisted
    <2>1. /\ UNCHANGED <<journalStack, cache, unsaved>>
          /\ save # NoSave
          /\ repo' = [repo EXCEPT ![save.addr] = save.value]
          /\ save' = [save EXCEPT !.persisted = TRUE]
          /\ phase' = "saving"
        BY <1>5 DEF AccountPersisted, Persist
    <2>2. save'.addr = save.addr /\ save'.value = save.value
        BY <2>1
    <2>3. QED
        BY <1>t, <1>s, <2>1, <2>2 DEF Refers
<1>6. CASE AccountSaved
    <2>1. /\ UNCHANGED <<journalStack, repo>>
          /\ save # NoSave /\ save' = NoSave
          /\ AddToCache(save.addr, unsaved[save.addr])
          /\ unsaved' = [unsaved EXCEPT ![save.addr] = NoEntry]
          /\ phase' = "saving"
        BY <1>6 DEF AccountSaved, SaveDone
    <2>2. save.addr \in Addr /\ unsaved[save.addr] \in Object
        BY <1>t, <2>1
    <2>3. cache' \in [Addr -> Object \cup {NoEntry}]
        BY <1>t, <2>1, <2>2 DEF AddToCache
    <2>4. \A b \in Addr : \/ cache'[b] \in {cache[b], NoEntry}
                          \/ b = save.addr /\ cache'[b] = unsaved[b]
        BY <2>1, <2>2, AddToCacheEntries
    <2>5. ASSUME NEW b \in Addr, NEW o \in Object,
                 cache'[b] = o \/ unsaved'[b] = o
          PROVE  Refers(b, o)
        <3>1. \/ o = cache[b]
              \/ o = unsaved[b]
            BY <1>n, <1>t, <2>1, <2>2, <2>4, <2>5
        <3>2. QED
            BY <3>1 DEF Refers
    <2>6. \A b \in Addr, o \in Object :
              \/ \E i \in DOMAIN journalStack' : journalStack'[i][b] = o
              \/ cache'[b] = o
              \/ unsaved'[b] = o
              => Refers(b, o)
        BY <2>1, <2>5 DEF Refers
    <2>7. unsaved' \in [Addr -> Object \cup {NoEntry}]
        BY <1>t, <2>1
    <2>8. QED
        BY <1>t, <1>s, <2>1, <2>3, <2>6, <2>7
<1>7. CASE EndCommit
    <2>1. /\ journalStack' = <<>>
          /\ unsaved = EmptyJournal /\ save = NoSave
          /\ UNCHANGED <<cache, unsaved, repo, save>>
        BY <1>7 DEF EndCommit, CommitEnd
    <2>2. QED
        BY <1>t, <1>s, <2>1 DEF Refers
<1>8. CASE SaveFails
    <2>1. /\ journalStack' = <<>>
          /\ unsaved' = EmptyJournal /\ save' = NoSave
          /\ UNCHANGED <<cache, repo>>
        BY <1>8 DEF SaveFails, CommitFails, RollbackBlock
    <2>2. QED
        BY <1>e, <1>n, <1>t, <1>s, <2>1 DEF Refers, EmptyJournal
<1>9. CASE RewardsPaid
    <2>1. UNCHANGED <<journalStack, cache, unsaved, repo, save>>
          /\ phase = "paying"
        BY <1>9 DEF RewardsPaid, stateVars
    <2>2. QED
        BY <1>t, <1>s, <2>1 DEF Refers
<1>10. QED
    BY <1>1, <1>2, <1>3, <1>4, <1>5, <1>6, <1>7, <1>8, <1>9 DEF LoopStep

\* At first nothing is held.
LEMMA ObjectsInit == Init => ObjectsInv
<1> SUFFICES ASSUME Init PROVE ObjectsInv
    OBVIOUS
<1> USE DEF Init, StateInit
<1>n. NoEntry \notin Object /\ NoEntry \notin Addr
    BY MarksAssumption
<1>1. EmptyJournal \in Journal /\ \A a \in Addr : EmptyJournal[a] = NoEntry
    BY DEF EmptyJournal, Journal, Entry
<1>2. repo \in [Addr -> Nat \cup {NoAccount}]
    BY AccountServiceAssumption
<1>3. heap \in [Object -> Nat]
    OBVIOUS
<1>4. owed \in [Addr -> Int] /\ inBlock \in [Addr -> Int]
    BY <1>2 DEF Held
<1>5. DOMAIN task = Task /\ DOMAIN fetch = Task
    BY AccountServiceAssumption
<1>6. \A t \in Task : TaskOK(t)
    BY <1>n, AccountServiceAssumption DEF TaskOK, NoTask
<1>7. \A a \in Addr, o \in Object : ~Refers(a, o)
    BY <1>n, <1>1 DEF Refers, NoTask
<1>8. QED
    BY <1>1, <1>2, <1>3, <1>4, <1>5, <1>6, <1>7
       DEF ObjectsInv, OneOwner, Entry

\* Every step is one of the loop's, or a task asks, gets or changes an account.
LEMMA StepsAre ==
    ASSUME ObjectsInv, Step
    PROVE  \/ LoopStep
           \/ \E t \in Task : Obtain(t)
           \/ \E t \in Task : Change(t)
           \/ \E t \in Task, a \in Addr, change \in {-1, 1},
                 credit \in Addr \cup {NoEntry} :
                 /\ task[t].step \in {"done", "credit"}
                 /\ Asks(t, a, change, credit)
<1> DEFINE Goal == \E t \in Task, a \in Addr, change \in {-1, 1},
                      credit \in Addr \cup {NoEntry} :
                      /\ task[t].step \in {"done", "credit"}
                      /\ Asks(t, a, change, credit)
<1>1. ASSUME NEW t \in Task, NEW a \in Addr, NEW change \in {-1, 1},
             NEW credit \in Addr \cup {NoEntry}, Seek(t, a, change, credit)
      PROVE  Goal
    <2>1. task[t].step = "done"
        BY <1>1 DEF Seek
    <2>2. Asks(t, a, change, credit)
        BY <1>1, WhoAsks
    <2> HIDE DEF Asks
    <2>3. QED
        BY <2>1, <2>2
<1>2. ASSUME NEW t \in Task, SeekRecipient(t)
      PROVE  Goal
    <2>1. task[t].step = "credit" /\ task[t].credit \in Addr
        BY <1>2 DEF SeekRecipient, ObjectsInv, TaskOK
    <2>2. Asks(t, task[t].credit, 1, NoEntry)
        BY <1>2, WhoAsks
    <2> HIDE DEF Asks
    <2>3. QED
        BY <2>1, <2>2
<1> HIDE DEF Goal
<1>3. Producer \in Task /\ Api \subseteq Task
    BY DEF Task
<1>4. ASSUME NEW from \in Addr, NEW to \in Addr, Transfer(from, to)
      PROVE  Goal
    BY <1>1, <1>3, <1>4 DEF Transfer
<1>5. ASSUME NEW a \in Addr, Reward(a)
      PROVE  Goal
    BY <1>1, <1>3, <1>5 DEF Reward
<1>6. ASSUME NEW t \in Api, NEW a \in Addr, AddBalanceRequest(t, a)
      PROVE  Goal
    BY <1>1, <1>3, <1>6 DEF AddBalanceRequest
<1>7. QED
    BY <1>2, <1>4, <1>5, <1>6 DEF Step, LoopStep, Goal

\* Every step keeps the invariant about who holds which object.
LEMMA ObjectsStep == ObjectsInv /\ [Next]_vars => ObjectsInv'
<1> SUFFICES ASSUME ObjectsInv, [Next]_vars
             PROVE  ObjectsInv'
    OBVIOUS
<1>1. CASE UNCHANGED vars
    BY <1>1 DEF vars, stateVars, ObjectsInv, OneOwner, Refers, TaskOK
<1>2. CASE Step
    <2>1. CASE LoopStep
        BY <2>1, LoopKeeps
    <2>2. CASE \E t \in Task : Obtain(t)
        BY <2>2, ObtainKeeps
    <2>3. CASE \E t \in Task : Change(t)
        BY <2>3, ChangeKeeps
    <2>4. ASSUME NEW t \in Task, NEW a \in Addr, NEW change \in {-1, 1},
                 NEW credit \in Addr \cup {NoEntry},
                 task[t].step \in {"done", "credit"},
                 Asks(t, a, change, credit)
          PROVE  ObjectsInv'
        BY <2>4, AsksKeeps
    <2> HIDE DEF Asks, ObjectsInv
    <2>5. QED
        BY <1>2, <2>1, <2>2, <2>3, <2>4, StepsAre
<1>3. QED
    BY <1>1, <1>2 DEF Next

\* The invariant about objects in every state.
LEMMA ObjectsAlways == Spec => []ObjectsInv
BY ObjectsInit, ObjectsStep, PTL DEF Spec

\* No Account object is ever held for two accounts at once, by the journal,
\* the cache, a commit in progress or a caller that awaits (getAccount hands
\* out the object itself, and addBalance changes it in place).
THEOREM ObjectsHaveOneOwner == Spec => []OneOwner
<1>1. ObjectsInv => OneOwner
    BY DEF ObjectsInv
<1>2. QED
    BY <1>1, ObjectsAlways, PTL

-----------------------------------------------------------------------------
(* Credits *)

\* A credit that begins, and one that finds its account in the repository.
LEMMA AsksCredits ==
    ASSUME CreditInv, Credits, NEW t \in Task, NEW a \in Addr,
           task[t].step = "done", t = Producer => phase = "paying",
           Asks(t, a, 1, NoEntry)
    PROVE  Credits'
<1> DEFINE Hit == [step |-> "held", addr |-> a, ref |-> Lookup(a),
                   change |-> 1, credit |-> NoEntry]
           Miss == [step |-> "fetching", addr |-> a, ref |-> NoEntry,
                    change |-> 1, credit |-> NoEntry]
<1>o. ObjectsInv
    BY DEF CreditInv
<1>1. UNCHANGED <<repo, save, heap, phase, owed, inBlock>>
    BY DEF Asks, stateVars, Fetch, history
<1>2. \A b \in Addr, o \in Object : Refers(b, o)' => Refers(b, o)
    BY <1>o, AsksKeeps
<1>t. /\ DOMAIN task = Task /\ DOMAIN fetch = Task
      /\ repo[a] \in Nat \cup {NoAccount}
      /\ owed[a] \in Int
      /\ Held(repo[a]) <= owed[a]
    BY DEF Credits, ObjectsInv, CreditInv
<1>3. /\ task'[t] \in {Hit, Miss}
      /\ \A u \in Task \ {t} : task'[u] = task[u] /\ fetch'[u] = fetch[u]
      /\ task'[t] = Miss => /\ fetch'[t].addr = a
                            /\ fetch'[t].value \in {NoAccount, repo[a]}
    <2>1. CASE task' = [task EXCEPT ![t] = Hit] /\ UNCHANGED stateVars
        <3>1. Hit # Miss
            OBVIOUS
        <3> HIDE DEF Hit, Miss
        <3>2. QED
            BY <1>t, <2>1, <3>1 DEF stateVars
    <2>2. CASE /\ \E fails \in {FALSE, mode.failures} : Fetch(t, a, fails)
               /\ task' = [task EXCEPT ![t] = Miss]
        <3>1. PICK w \in {NoAccount, repo[a]} :
                  fetch' = [fetch EXCEPT ![t] = [addr |-> a, value |-> w]]
            BY <2>2 DEF Fetch
        <3> HIDE DEF Hit, Miss
        <3>2. QED
            BY <1>t, <2>2, <3>1
    <2>3. QED
        BY <2>1, <2>2 DEF Asks
<1>4. \A u \in Task : task'[u].step = "fetching" =>
          Held(fetch'[u].value) <= owed'[fetch'[u].addr]
    <2>1. ASSUME NEW u \in Task, task'[u].step = "fetching"
          PROVE  Held(fetch'[u].value) <= owed'[fetch'[u].addr]
        <3>1. CASE u = t
            <4>1. task'[t] = Miss
                BY <1>3, <2>1, <3>1
            <4>2. NoAccount \notin Nat
                BY AccountServiceAssumption
            <4>3. 0 <= owed[a]
                BY <1>t, <4>2 DEF Held
            <4>4. QED
                BY <1>1, <1>3, <1>t, <3>1, <4>1, <4>3 DEF Held
        <3>2. CASE u # t
            BY <1>1, <1>3, <2>1, <3>2 DEF Credits
        <3>3. QED
            BY <3>1, <3>2
    <2>2. QED
        BY <2>1
<1>5. \A u \in Task : /\ task'[u].step # "credit"
                      /\ task'[u].step # "done" =>
                            task'[u].change = 1 /\ task'[u].credit = NoEntry
    <2>1. ASSUME NEW u \in Task
          PROVE  /\ task'[u].step # "credit"
                 /\ task'[u].step # "done" =>
                       task'[u].change = 1 /\ task'[u].credit = NoEntry
        BY <1>3, <2>1 DEF Credits
    <2>2. QED
        BY <2>1
<1>6. phase' # "paying" => Quiet(Producer)'
    <2>1. CASE t = Producer
        BY <1>1, <2>1
    <2>2. CASE t # Producer
        <3>1. Producer \in Task
            BY DEF Task
        <3>2. QED
            BY <1>1, <1>3, <2>2, <3>1 DEF Credits, Quiet
    <2>3. QED
        BY <2>1, <2>2
<1>7. QED
    BY <1>1, <1>2, <1>4, <1>5, <1>6 DEF Credits

\* The object made of what the repository answered has that balance.
LEMMA ObtainCredits ==
    ASSUME CreditInv, Credits, NEW t \in Task, Obtain(t)
    PROVE  Credits'
<1> DEFINE a == task[t].addr
           w == fetch[t].value
<1>o. ObjectsInv
    BY DEF CreditInv
<1>1. /\ task[t].step = "fetching" /\ a \in Addr /\ fetch[t].addr = a
      /\ Held(w) <= owed[a]
      /\ DOMAIN task = Task /\ DOMAIN fetch = Task
      /\ heap \in [Object -> Nat]
    BY <1>o DEF Obtain, ObjectsInv, TaskOK, Credits
<1>2. /\ New \in Object
      /\ \A b \in Addr : ~Refers(b, New)
      /\ \A b \in Addr, o \in Object : Refers(b, o)' =>
             Refers(b, o) \/ (o = New /\ b = a)
    BY <1>o, ObtainKeeps
<1> HIDE DEF New
<1>3. /\ UNCHANGED <<repo, save, phase, owed, inBlock>>
      /\ fetch' = [fetch EXCEPT ![t] = NoFetch]
      /\ heap' = [heap EXCEPT ![New] = Held(w)]
      /\ task' = [task EXCEPT ![t].step = "held", ![t].ref = New]
    BY DEF Obtain, FetchDone, history
<1> HIDE DEF a, w
<1>4. \A b \in Addr, o \in Object : Refers(b, o)' => heap'[o] <= owed'[b]
    <2>1. ASSUME NEW b \in Addr, NEW o \in Object, Refers(b, o)'
          PROVE  heap'[o] <= owed'[b]
        <3>1. CASE o = New
            BY <1>1, <1>2, <1>3, <2>1, <3>1
        <3>2. CASE o # New
            BY <1>1, <1>2, <1>3, <2>1, <3>2 DEF Credits
        <3>3. QED
            BY <3>1, <3>2
    <2>2. QED
        BY <2>1
<1>5. /\ task'[t].step = "held"
      /\ task'[t].change = task[t].change
      /\ task'[t].credit = task[t].credit
      /\ \A u \in Task \ {t} : task'[u] = task[u] /\ fetch'[u] = fetch[u]
    BY <1>1, <1>3
<1>6. \A u \in Task : task'[u].step = "fetching" =>
          Held(fetch'[u].value) <= owed'[fetch'[u].addr]
    BY <1>3, <1>5 DEF Credits
<1>7. \A u \in Task : /\ task'[u].step # "credit"
                      /\ task'[u].step # "done" =>
                            task'[u].change = 1 /\ task'[u].credit = NoEntry
    BY <1>1, <1>5 DEF Credits
<1>8. phase' # "paying" => Quiet(Producer)'
    BY <1>1, <1>3, <1>5 DEF Credits, Quiet, Task
<1>9. QED
    BY <1>3, <1>4, <1>6, <1>7, <1>8 DEF Credits

\* A credit is applied to what may be the only copy or a stale one: what is
\* owed grows by as much.
LEMMA ChangeCredits ==
    ASSUME CreditInv, Credits, NEW t \in Task, Change(t)
    PROVE  Credits'
<1> DEFINE a == task[t].addr
           r == task[t].ref
<1>o. ObjectsInv
    BY DEF CreditInv
<1>1. /\ task[t].step = "held" /\ a \in Addr /\ r \in Object
      /\ task[t].change = 1 /\ task[t].credit = NoEntry
      /\ Refers(a, r)
      /\ DOMAIN task = Task
      /\ heap \in [Object -> Nat] /\ owed \in [Addr -> Int]
      /\ inBlock \in [Addr -> Int]
      /\ \A b \in Addr, o \in Object : Refers(b, o)' => Refers(b, o)
    <2>1. /\ task[t].step = "held" /\ a \in Addr /\ r \in Object
          /\ Refers(a, r)
        BY <1>o, MarksAssumption DEF Change, ObjectsInv, TaskOK, Refers
    <2>2. \A b \in Addr, o \in Object : Refers(b, o)' => Refers(b, o)
        BY <1>o, ChangeKeeps
    <2>3. QED
        BY <1>o, <2>1, <2>2 DEF ObjectsInv, Credits
<1>2. ~(t = Producer /\ phase = "block")
    BY <1>1 DEF Credits, Quiet
<1>3. /\ heap' = [heap EXCEPT ![r] = @ + 1]
      /\ owed' = [owed EXCEPT ![a] = @ + 1]
      /\ inBlock' = inBlock
      /\ task' = [task EXCEPT ![t] = NoTask]
      /\ UNCHANGED <<repo, fetch, save, phase>>
    <2>1. Sufficient(r, 1)
        BY <1>1 DEF Sufficient
    <2>2. QED
        BY <1>1, <1>2, <2>1 DEF Change
<1>4. /\ task'[t] = NoTask
      /\ \A u \in Task \ {t} : task'[u] = task[u]
    BY <1>1, <1>3
<1> HIDE DEF a, r
<1>5. \A b \in Addr : owed'[b] \in Int /\ owed'[b] >= owed[b]
    BY <1>1, <1>3
<1>6. \A b \in Addr, o \in Object : Refers(b, o)' => heap'[o] <= owed'[b]
    <2>1. ASSUME NEW b \in Addr, NEW o \in Object, Refers(b, o)'
          PROVE  heap'[o] <= owed'[b]
        <3>1. Refers(b, o) /\ heap[o] <= owed[b]
            BY <1>1, <2>1 DEF Credits
        <3>2. CASE o = r
            <4>1. b = a
                BY <1>o, <1>1, <3>1, <3>2 DEF ObjectsInv, OneOwner
            <4>2. QED
                BY <1>1, <1>3, <3>1, <3>2, <4>1
        <3>3. CASE o # r
            <4>1. heap'[o] = heap[o] /\ heap[o] \in Nat /\ owed[b] \in Int
                BY <1>1, <1>3, <3>3
            <4>2. QED
                BY <1>5, <3>1, <4>1
        <3>4. QED
            BY <3>2, <3>3
    <2>2. QED
        BY <2>1
<1>h. ASSUME NEW v \in Nat \cup {NoAccount}
      PROVE  Held(v) \in Nat
    BY DEF Held
<1>7. \A b \in Addr : Held(repo'[b]) <= owed'[b]
    <2>1. ASSUME NEW b \in Addr
          PROVE  Held(repo'[b]) <= owed'[b]
        <3>1. Held(repo[b]) \in Nat /\ Held(repo[b]) <= owed[b]
            BY <1>o, <1>h DEF ObjectsInv, Credits
        <3>2. owed[b] \in Int
            BY <1>1
        <3>3. QED
            BY <1>3, <1>5, <3>1, <3>2
    <2>2. QED
        BY <2>1
<1>8. \A u \in Task : task'[u].step = "fetching" =>
          Held(fetch'[u].value) <= owed'[fetch'[u].addr]
    <2>1. ASSUME NEW u \in Task, task'[u].step = "fetching"
          PROVE  Held(fetch'[u].value) <= owed'[fetch'[u].addr]
        <3>1. task[u].step = "fetching" /\ fetch'[u] = fetch[u]
            BY <1>3, <1>4, <2>1 DEF NoTask
        <3>2. /\ fetch[u].addr \in Addr
              /\ fetch[u].value \in Nat \cup {NoAccount}
            BY <1>o, <3>1 DEF ObjectsInv, TaskOK
        <3>3. /\ Held(fetch[u].value) \in Nat
              /\ Held(fetch[u].value) <= owed[fetch[u].addr]
              /\ owed[fetch[u].addr] \in Int
            BY <1>1, <1>h, <3>1, <3>2 DEF Credits
        <3>4. QED
            BY <1>5, <3>1, <3>2, <3>3
    <2>2. QED
        BY <2>1
<1>9. save' # NoSave => save'.value <= owed'[save'.addr]
    <2>1. ASSUME save # NoSave
          PROVE  save.value <= owed'[save.addr]
        <3>1. /\ save.addr \in Addr /\ save.value \in Nat
              /\ save.value <= owed[save.addr]
              /\ owed[save.addr] \in Int
            BY <1>o, <1>1, <2>1 DEF ObjectsInv, Credits
        <3>2. QED
            BY <1>5, <3>1
    <2>2. QED
        BY <1>3, <2>1
<1>10. \A u \in Task : /\ task'[u].step # "credit"
                       /\ task'[u].step # "done" =>
                             task'[u].change = 1 /\ task'[u].credit = NoEntry
    BY <1>4 DEF Credits, NoTask
<1>11. phase' # "paying" => Quiet(Producer)'
    BY <1>3, <1>4 DEF Credits, Quiet, Task, NoTask
<1>12. QED
    BY <1>3, <1>6, <1>7, <1>8, <1>9, <1>10, <1>11 DEF Credits

\* The block loop moves balances between memory and the repository.
LEMMA LoopCredits ==
    ASSUME CreditInv, Credits, LoopStep
    PROVE  Credits'
<1>o. ObjectsInv
    BY DEF CreditInv
<1>1. /\ UNCHANGED <<task, fetch, heap>>
      /\ \A b \in Addr, o \in Object : Refers(b, o)' => Refers(b, o)
    BY <1>o, LoopKeeps
<1>2. owed' = owed
    <2>1. Forgotten = owed
        <3>1. owed \in [Addr -> Int] /\ \A a \in Addr : inBlock[a] = 0
            BY <1>o DEF ObjectsInv, Credits
        <3>2. ASSUME NEW a \in Addr
              PROVE  owed[a] - inBlock[a] = owed[a]
            <4>1. owed[a] \in Int /\ inBlock[a] = 0
                BY <3>1
            <4>2. QED
                BY <4>1
        <3>3. QED
            BY <3>1, <3>2 DEF Forgotten
    <2>2. QED
        BY <2>1 DEF LoopStep, BeginBlock, RejectBlock, BeginCommit,
                    SaveAccount, AccountPersisted, AccountSaved, EndCommit,
                    SaveFails, RewardsPaid, history
<1>3. \A a \in Addr : inBlock'[a] = 0
    BY DEF Credits, LoopStep, BeginBlock, RejectBlock, BeginCommit,
           SaveAccount, AccountPersisted, AccountSaved, EndCommit,
           SaveFails, RewardsPaid, history
<1>4. /\ \A a \in Addr : Held(repo'[a]) <= owed[a]
      /\ save' # NoSave => save'.value <= owed[save'.addr]
    <2>1. CASE AccountPersisted
        <3>1. /\ save # NoSave
              /\ repo' = [repo EXCEPT ![save.addr] = save.value]
              /\ save' = [save EXCEPT !.persisted = TRUE]
            BY <2>1 DEF AccountPersisted, Persist
        <3>2. /\ save'.addr = save.addr /\ save'.value = save.value
              /\ save.addr \in Addr /\ save.value \in Nat
              /\ save.value <= owed[save.addr]
              /\ DOMAIN repo = Addr
            BY <1>o, <3>1 DEF ObjectsInv, Credits
        <3>3. Held(save.value) = save.value
            BY <3>2, AccountServiceAssumption DEF Held
        <3>4. QED
            BY <3>1, <3>2, <3>3 DEF Credits
    <2>2. ASSUME NEW a \in Addr, SaveAccount(a)
          PROVE  /\ \A b \in Addr : Held(repo'[b]) <= owed[b]
                 /\ save' # NoSave => save'.value <= owed[save'.addr]
        <3>1. /\ repo' = repo
              /\ save'.addr = a /\ save'.value = heap[unsaved[a]]
              /\ unsaved[a] \in Object
            BY <2>2 DEF SaveAccount, Encode
        <3>2. QED
            BY <3>1 DEF Credits, Refers
    <2>3. CASE repo' = repo /\ save' \in {save, NoSave}
        BY <2>3 DEF Credits
    <2>4. \/ AccountPersisted \/ \E a \in Addr : SaveAccount(a)
          \/ repo' = repo /\ save' \in {save, NoSave}
        BY DEF LoopStep, BeginBlock, RejectBlock, BeginCommit, CommitStart,
               AccountSaved, SaveDone, EndCommit, CommitEnd, SaveFails,
               CommitFails, RewardsPaid, stateVars
    <2>5. QED
        BY <2>1, <2>2, <2>3, <2>4
<1>5. phase' # "paying" => Quiet(Producer)'
    BY <1>1 DEF Credits, Quiet, LoopStep, BeginBlock, RejectBlock,
                BeginCommit, SaveAccount, AccountPersisted, AccountSaved,
                EndCommit, SaveFails, RewardsPaid
<1>6. QED
    BY <1>1, <1>2, <1>3, <1>4, <1>5 DEF Credits

\* Every step keeps every copy of a balance at most what is owed.
LEMMA CreditStep == CreditInv /\ [Next]_vars => CreditInv'
<1> SUFFICES ASSUME CreditInv, [Next]_vars
             PROVE  CreditInv'
    OBVIOUS
<1>1. CASE UNCHANGED vars
    <2>1. /\ UNCHANGED <<journalStack, cache, unsaved, repo, fetch, save>>
          /\ UNCHANGED <<heap, phase, task, mode, owed, inBlock>>
        BY <1>1 DEF vars, stateVars
    <2>2. ObjectsInv'
        BY <1>1, ObjectsStep DEF CreditInv
    <2>3. \A a \in Addr, o \in Object : Refers(a, o)' => Refers(a, o)
        BY <2>1 DEF Refers
    <2>4. Credits => Credits'
        BY <2>1, <2>3 DEF Credits, Quiet
    <2>5. QED
        BY <2>1, <2>2, <2>4 DEF CreditInv
<1>2. CASE Step /\ UNCHANGED mode /\ ~mode.transfers
    <2>o. ObjectsInv /\ Credits
        <3>1. ~mode.transfers
            BY <1>2
        <3>2. QED
            BY <3>1, Zenon DEF CreditInv
    <2>1. ASSUME LoopStep
          PROVE  Credits'
        BY <2>o, <2>1, LoopCredits
    <2>2. ASSUME NEW t \in Task, Obtain(t) \/ Change(t)
          PROVE  Credits'
        BY <2>o, <2>2, ObtainCredits, ChangeCredits
    <2>3. ASSUME NEW t \in Task, NEW a \in Addr, Seek(t, a, 1, NoEntry),
                 t = Producer => phase = "paying"
          PROVE  Credits'
        <3>1. task[t].step = "done" /\ Asks(t, a, 1, NoEntry)
            BY <2>3, WhoAsks DEF Seek
        <3>2. QED
            BY <2>o, <2>3, <3>1, AsksCredits
    <2>4. /\ \A from, to \in Addr : ~Transfer(from, to)
          /\ \A t \in Task : ~SeekRecipient(t)
        BY <1>2, <2>o DEF Transfer, SeekRecipient, Credits
    <2>5. ASSUME NEW a \in Addr, Reward(a)
          PROVE  Credits'
        BY <2>3, <2>5 DEF Reward, Task
    <2>6. ASSUME NEW t \in Api, NEW a \in Addr, AddBalanceRequest(t, a)
          PROVE  Credits'
        <3>1. t \in Task /\ t # Producer
            BY AccountServiceAssumption DEF Task
        <3>2. QED
            BY <2>3, <2>6, <3>1 DEF AddBalanceRequest
    <2>7. Credits'
        BY <1>2, <2>1, <2>2, <2>4, <2>5, <2>6 DEF Step, LoopStep
    <2>8. QED
        BY <2>7, ObjectsStep DEF CreditInv
<1>3. CASE Step /\ UNCHANGED mode /\ mode.transfers
    BY <1>3, ObjectsStep DEF CreditInv
<1>4. QED
    BY <1>1, <1>2, <1>3 DEF Next

\* At first an account is owed what the repository has of it.
LEMMA CreditInit == Init => CreditInv
<1> SUFFICES ASSUME Init PROVE Credits
    BY ObjectsInit DEF CreditInv
<1>n. NoEntry \notin Object
    BY MarksAssumption
<1>1. \A a \in Addr, o \in Object : ~Refers(a, o)
    BY <1>n DEF Init, StateInit, EmptyJournal, Refers, NoTask
<1>2. \A t \in Task : task[t].step = "done"
    BY DEF Init, NoTask
<1>3. \A a \in Addr : Held(repo[a]) <= owed[a]
    <2>1. ASSUME NEW a \in Addr
          PROVE  Held(repo[a]) <= owed[a]
        <3>1. repo[a] \in Nat \cup {NoAccount} /\ owed[a] = Held(repo[a])
            BY AccountServiceAssumption DEF Init, StateInit
        <3>2. Held(repo[a]) \in Int
            BY <3>1 DEF Held
        <3>3. QED
            BY <3>1, <3>2
    <2>2. QED
        BY <2>1
<1>4. save = NoSave /\ \A a \in Addr : inBlock[a] = 0
    BY DEF Init, StateInit
<1>5. Quiet(Producer)
    BY <1>2 DEF Quiet, Task
<1>6. QED
    BY <1>1, <1>2, <1>3, <1>4, <1>5 DEF Credits

\* In runs without transfers, what a caller finds of an account and what the
\* repository has are never more than the account's credits: addBalance in
\* place, setAccount without a block, an eviction between the two, a rejected
\* block and a failed save lose credits but apply none twice.
THEOREM NoCreditIsAppliedTwice == Spec => []NoCreditTwice
<1>1. CreditInv => NoCreditTwice
    <2> SUFFICES ASSUME CreditInv, ~mode.transfers, NEW a \in Addr
                 PROVE  Balance(a) <= owed[a] /\ Held(repo[a]) <= owed[a]
        BY DEF NoCreditTwice
    <2>1. ObjectsInv /\ Credits
        BY DEF CreditInv
    <2>2. CASE Lookup(a) # NoEntry
        <3>1. Lookup(a) \in Object /\ Refers(a, Lookup(a))
            BY <2>1, <2>2, LookupRefers
        <3>2. QED
            BY <2>1, <2>2, <3>1 DEF Credits, Balance
    <2>3. CASE Lookup(a) = NoEntry
        BY <2>1, <2>3 DEF Credits, Balance
    <2>4. QED
        BY <2>2, <2>3
<1>2. QED
    BY <1>1, CreditInit, CreditStep, PTL DEF Spec

-----------------------------------------------------------------------------
(* Transfers *)

\* What the journal has for an address is held for it.
LEMMA JournalledRefers ==
    ASSUME ObjectsInv, NEW a \in Addr, Journalled(a) # NoEntry
    PROVE  Journalled(a) \in Object /\ Refers(a, Journalled(a))
           /\ Lookup(a) = Journalled(a)
<1>1. Lookup(a) = Journalled(a)
    BY DEF Lookup, Journalled
<1>2. QED
    BY <1>1, LookupRefers

\* A transfer that asks for an account changes no balance.
LEMMA AsksTransfers ==
    ASSUME ObjectsInv, Undisturbed, Transfers, phase = "block",
           NEW a \in Addr, NEW change \in {-1, 1},
           NEW credit \in Addr \cup {NoEntry},
           Asks(Producer, a, change, credit)
    PROVE  Transfers'
<1> DEFINE Hit == [step |-> "held", addr |-> a, ref |-> Lookup(a),
                   change |-> change, credit |-> credit]
           Miss == [step |-> "fetching", addr |-> a, ref |-> NoEntry,
                    change |-> change, credit |-> credit]
<1>1. UNCHANGED <<journalStack, cache, repo, heap, phase, owed>>
    BY DEF Asks, stateVars, Fetch, history
<1>t. /\ DOMAIN task = Task /\ DOMAIN fetch = Task
      /\ Producer \in Task /\ Producer \notin Api /\ Api \subseteq Task
    BY AccountServiceAssumption DEF ObjectsInv, Task
<1>2. /\ \A u \in Api : task'[u] = task[u]
      /\ TransferOK(task[Producer], fetch[Producer])'
    <2>1. CASE /\ task' = [task EXCEPT ![Producer] = Hit]
               /\ UNCHANGED stateVars
        <3>1. Hit.step = "held" /\ Hit.addr = a /\ Hit.ref = Lookup(a)
            OBVIOUS
        <3> HIDE DEF Hit
        <3>2. task'[Producer] = Hit /\ \A u \in Api : task'[u] = task[u]
            BY <1>t, <2>1
        <3>3. Lookup(a)' = Lookup(a)
            BY <1>1 DEF Lookup
        <3>4. QED
            BY <1>1, <3>1, <3>2 DEF TransferOK, Lookup
    <2>2. CASE /\ \E fails \in {FALSE, mode.failures} :
                      Fetch(Producer, a, fails)
               /\ task' = [task EXCEPT ![Producer] = Miss]
        <3>1. Miss.step = "fetching" /\ Miss.addr = a
            OBVIOUS
        <3>2. PICK fails \in {FALSE, mode.failures} :
                  Fetch(Producer, a, fails)
            BY <2>2
        <3>3. ~fails
            BY <3>2 DEF Undisturbed
        <3> HIDE DEF Miss
        <3>4. /\ Lookup(a) = NoEntry
              /\ fetch' = [fetch EXCEPT ![Producer] =
                                [addr |-> a, value |-> repo[a]]]
            BY <3>2, <3>3 DEF Fetch
        <3>5. /\ task'[Producer] = Miss /\ \A u \in Api : task'[u] = task[u]
              /\ fetch'[Producer].value = repo[a]
            BY <1>t, <2>2, <3>4
        <3>6. QED
            BY <1>1, <3>1, <3>4, <3>5 DEF TransferOK, Lookup
    <2>3. QED
        BY <2>1, <2>2 DEF Asks
<1>3. MemoryIsOwed'
    BY <1>1 DEF Transfers, MemoryIsOwed, Journalled
<1>4. QED
    BY <1>1, <1>2, <1>3 DEF Transfers, Quiet

\* An account that is fetched or created has what is owed, and is found.
LEMMA ObtainTransfers ==
    ASSUME ObjectsInv, Undisturbed, Transfers, phase = "block",
           Obtain(Producer)
    PROVE  Transfers'
<1> DEFINE w == fetch[Producer].value
<1>t. /\ DOMAIN task = Task /\ DOMAIN fetch = Task
      /\ Producer \in Task /\ Producer \notin Api /\ Api \subseteq Task
      /\ heap \in [Object -> Nat]
      /\ journalStack \in Seq(Journal)
      /\ cache \in [Addr -> Object \cup {NoEntry}]
    BY AccountServiceAssumption DEF ObjectsInv, Task, Entry
<1>n. NoEntry \notin Object
    BY MarksAssumption
<1>a. PICK a \in Addr : a = task[Producer].addr
    BY <1>t DEF Obtain, ObjectsInv, TaskOK
<1>1. /\ task[Producer].step = "fetching"
      /\ fetch[Producer].addr = a
      /\ w \in Nat \cup {NoAccount}
      /\ Lookup(a) = NoEntry /\ w = repo[a]
    BY <1>a, <1>t DEF Obtain, ObjectsInv, TaskOK, Transfers, TransferOK
<1>2. /\ New \in Object
      /\ \A b \in Addr : ~Refers(b, New)
    BY <1>t, ObtainKeeps
<1> HIDE DEF New
<1>3. /\ UNCHANGED <<repo, unsaved, save, phase, owed>>
      /\ heap' = [heap EXCEPT ![New] = Held(w)]
      /\ IF w = NoAccount THEN UNCHANGED cache ELSE AddToCache(a, New)
      /\ IF w = NoAccount THEN SetAccount(a, New) ELSE UNCHANGED journalStack
      /\ task' = [task EXCEPT ![Producer].step = "held",
                              ![Producer].ref = New]
    BY <1>1, <1>a DEF Obtain, FetchDone, history
<1> HIDE DEF w
<1>4. /\ Journalled(a) = NoEntry /\ cache[a] = NoEntry
      /\ Held(w) = owed[a]
    BY <1>1 DEF Lookup, Journalled, Transfers, MemoryIsOwed
<1>5. ASSUME NEW b \in Addr
      PROVE  Journalled(b)' = IF w = NoAccount /\ b = a THEN New
                              ELSE Journalled(b)
    BY <1>1, <1>2, <1>3, <1>t, SetAccountEntries DEF Journalled
<1>6. /\ w # NoAccount => cache'[a] = New
      /\ w = NoAccount => cache'[a] = NoEntry
      /\ \A b \in Addr \ {a} : cache'[b] \in {cache[b], NoEntry}
    BY <1>1, <1>2, <1>3, <1>4, AddToCacheEntries
<1>7. ASSUME NEW b \in Addr, NEW o \in Object, Refers(b, o)
      PROVE  heap'[o] = heap[o]
    BY <1>2, <1>3, <1>7, <1>t
<1>8. heap'[New] = owed[a]
    BY <1>2, <1>3, <1>4, <1>t
<1>9. MemoryIsOwed'
    <2>1. ASSUME NEW b \in Addr
          PROVE  IF Journalled(b)' # NoEntry
                 THEN /\ heap'[Journalled(b)'] = owed'[b]
                      /\ cache'[b] \in {NoEntry, Journalled(b)'}
                 ELSE /\ Held(repo'[b]) = owed'[b]
                      /\ cache'[b] # NoEntry => heap'[cache'[b]] = owed'[b]
        <3>1. CASE b = a
            <4>1. CASE w = NoAccount
                <5>1. Journalled(b)' = New
                    BY <1>5, <3>1, <4>1
                <5>2. QED
                    BY <1>3, <1>6, <1>8, <3>1, <4>1, <5>1, <1>2, <1>n
            <4>2. CASE w # NoAccount
                <5>1. Journalled(b)' = NoEntry
                    BY <1>4, <1>5, <3>1, <4>2
                <5>2. Held(repo'[b]) = owed'[b]
                    BY <1>1, <1>3, <1>4, <3>1
                <5>3. QED
                    BY <1>3, <1>6, <1>8, <3>1, <4>2, <5>1, <5>2
            <4>3. QED
                BY <4>1, <4>2
        <3>2. CASE b # a
            <4>1. Journalled(b)' = Journalled(b)
                BY <1>5, <3>2
            <4>2. CASE Journalled(b) # NoEntry
                <5>1. Journalled(b) \in Object /\ Refers(b, Journalled(b))
                    BY <4>2, JournalledRefers
                <5>2. heap'[Journalled(b)] = heap[Journalled(b)]
                    BY <1>7, <5>1
                <5>3. QED
                    BY <1>3, <1>6, <3>2, <4>1, <4>2, <5>2
                       DEF Transfers, MemoryIsOwed
            <4>3. CASE Journalled(b) = NoEntry
                <5>1. ASSUME cache'[b] # NoEntry
                      PROVE  heap'[cache'[b]] = owed'[b]
                    <6>1. cache'[b] = cache[b] /\ cache[b] \in Object
                        BY <1>6, <1>t, <3>2, <5>1
                    <6>2. Refers(b, cache[b])
                        BY DEF Refers
                    <6>3. heap'[cache[b]] = heap[cache[b]]
                        BY <1>7, <6>1, <6>2
                    <6>4. QED
                        BY <1>3, <4>3, <5>1, <6>1, <6>3
                           DEF Transfers, MemoryIsOwed
                <5>2. Held(repo'[b]) = owed'[b]
                    BY <1>3, <4>3 DEF Transfers, MemoryIsOwed
                <5>3. QED
                    BY <4>1, <4>3, <5>1, <5>2
            <4>4. QED
                BY <4>2, <4>3
        <3>3. QED
            BY <3>1, <3>2
    <2>2. QED
        BY <2>1 DEF MemoryIsOwed
<1>10. TransferOK(task[Producer], fetch[Producer])'
    <2>1. /\ task'[Producer].step = "held" /\ task'[Producer].ref = New
          /\ task'[Producer].addr = a
        BY <1>3, <1>a, <1>t
    <2>2. Lookup(a)' = New
        <3>1. CASE w = NoAccount
            <4>1. Journalled(a)' = New
                BY <1>1, <1>5, <3>1
            <4>2. QED
                BY <1>2, <1>n, <4>1 DEF Lookup, Journalled
        <3>2. CASE w # NoAccount
            <4>1. Journalled(a)' = NoEntry
                BY <1>1, <1>4, <1>5, <3>2
            <4>2. QED
                BY <1>6, <3>2, <4>1 DEF Lookup, Journalled
        <3>3. QED
            BY <3>1, <3>2
    <2>3. QED
        BY <2>1, <2>2 DEF TransferOK
<1>11. Len(journalStack') = 1
    <2>1. Len(journalStack) = 1
        BY DEF Transfers
    <2>2. QED
        BY <1>1, <1>2, <1>3, <1>t, <2>1, SetAccountType
<1>12. \A u \in Api : task'[u] = task[u]
    BY <1>3, <1>t
<1>13. QED
    BY <1>3, <1>9, <1>10, <1>11, <1>12 DEF Transfers, Quiet

\* The balance that changes is the one that is found, and no other.
LEMMA ChangeTransfers ==
    ASSUME ObjectsInv, Undisturbed, Transfers, phase = "block",
           Change(Producer)
    PROVE  Transfers'
<1>t. /\ DOMAIN task = Task
      /\ Producer \in Task /\ Producer \notin Api /\ Api \subseteq Task
      /\ heap \in [Object -> Nat] /\ owed \in [Addr -> Int]
      /\ journalStack \in Seq(Journal)
      /\ cache \in [Addr -> Object \cup {NoEntry}]
    BY AccountServiceAssumption DEF ObjectsInv, Task, Entry
<1>n. NoEntry \notin Object
    BY MarksAssumption
<1>a. PICK a \in Addr : a = task[Producer].addr
    BY <1>t DEF Change, ObjectsInv, TaskOK
<1>r. PICK r \in Object : r = task[Producer].ref
    BY <1>n, <1>t DEF Change, ObjectsInv, TaskOK
<1>c. PICK c \in {-1, 0, 1} : c = task[Producer].change
    BY <1>t DEF ObjectsInv, TaskOK
<1>1. /\ task[Producer].step = "held" /\ r = Lookup(a)
      /\ Refers(a, r)
      /\ heap[r] = owed[a]
      /\ Journalled(a) \in {NoEntry, r}
      /\ cache[a] \in {NoEntry, r}
    <2>1. task[Producer].step = "held" /\ r = Lookup(a)
        BY <1>a, <1>r DEF Change, Transfers, TransferOK
    <2>2. Refers(a, r)
        BY <1>a, <1>r, <1>t DEF Refers
    <2>3. QED
        BY <1>n, <2>1, <2>2
           DEF Lookup, Journalled, Transfers, MemoryIsOwed
<1>2. UNCHANGED <<repo, phase>>
    BY DEF Change, stateVars
<1>3. /\ \A u \in Api : task'[u] = task[u]
      /\ task'[Producer].step \in {"done", "credit"}
    BY <1>t DEF Change, NoTask
<1>4. CASE UNCHANGED <<journalStack, cache, heap, owed>>
    <2>1. MemoryIsOwed'
        BY <1>2, <1>4 DEF Transfers, MemoryIsOwed, Journalled
    <2>2. QED
        BY <1>2, <1>3, <1>4, <2>1 DEF Transfers, TransferOK, Quiet
<1>5. CASE /\ heap' = [heap EXCEPT ![r] = @ + c]
           /\ SetAccount(a, r)
           /\ owed' = [owed EXCEPT ![a] = @ + c]
           /\ UNCHANGED cache
    <2>1. /\ heap'[r] = owed'[a]
          /\ \A o \in Object \ {r} : heap'[o] = heap[o]
          /\ \A b \in Addr \ {a} : owed'[b] = owed[b]
        BY <1>1, <1>5, <1>t
    <2>2. \A b \in Addr : Journalled(b)' = IF b = a THEN r ELSE Journalled(b)
        BY <1>5, <1>t, SetAccountEntries DEF Journalled
    <2>3. ASSUME NEW b \in Addr
          PROVE  IF Journalled(b)' # NoEntry
                 THEN /\ heap'[Journalled(b)'] = owed'[b]
                      /\ cache'[b] \in {NoEntry, Journalled(b)'}
                 ELSE /\ Held(repo'[b]) = owed'[b]
                      /\ cache'[b] # NoEntry => heap'[cache'[b]] = owed'[b]
        <3>1. CASE b = a
            BY <1>1, <1>5, <1>n, <2>1, <2>2, <3>1
        <3>2. CASE b # a
            <4>1. Journalled(b)' = Journalled(b) /\ cache'[b] = cache[b]
                BY <1>5, <2>2, <3>2
            <4>2. \A o \in Object : Refers(b, o) => heap'[o] = heap[o]
                BY <1>1, <2>1, <3>2 DEF ObjectsInv, OneOwner
            <4>3. CASE Journalled(b) # NoEntry
                <5>1. Journalled(b) \in Object /\ Refers(b, Journalled(b))
                    BY <4>3, JournalledRefers
                <5>2. heap'[Journalled(b)] = heap[Journalled(b)]
                    BY <4>2, <5>1
                <5>3. QED
                    BY <2>1, <3>2, <4>1, <4>3, <5>2
                       DEF Transfers, MemoryIsOwed
            <4>4. CASE Journalled(b) = NoEntry
                <5>1. ASSUME cache[b] # NoEntry
                      PROVE  heap'[cache[b]] = heap[cache[b]]
                    <6>1. cache[b] \in Object /\ Refers(b, cache[b])
                        BY <1>t, <5>1 DEF Refers
                    <6>2. QED
                        BY <4>2, <6>1
                <5>2. QED
                    BY <1>2, <2>1, <3>2, <4>1, <4>4, <5>1
                       DEF Transfers, MemoryIsOwed
            <4>5. QED
                BY <4>3, <4>4
        <3>3. QED
            BY <3>1, <3>2
    <2>4. MemoryIsOwed'
        BY <2>3 DEF MemoryIsOwed
    <2>5. Len(journalStack') = 1
        <3>1. Len(journalStack) = 1
            BY DEF Transfers
        <3>2. QED
            BY <1>5, <1>t, <3>1, SetAccountType
    <2>6. QED
        BY <1>2, <1>3, <2>4, <2>5 DEF Transfers, TransferOK, Quiet
<1>6. QED
    BY <1>4, <1>5, <1>a, <1>r, <1>c DEF Change, stateVars, history

\* An empty level says nothing.
LEMMA NothingJournalled ==
    ASSUME NEW s \in Seq(Journal), s \in {<<>>, <<EmptyJournal>>}
    PROVE  \A a \in Addr : Merged(s)[a] = NoEntry
<1>1. ASSUME NEW i \in DOMAIN s, NEW a \in Addr
      PROVE  s[i][a] = NoEntry
    <2>1. s = <<EmptyJournal>> /\ i = 1
        BY <1>1
    <2>2. QED
        BY <2>1 DEF EmptyJournal
<1>2. QED
    BY <1>1, MergedIsEntry

\* The block loop: what it saves is what is owed.
LEMMA LoopTransfers ==
    ASSUME ObjectsInv, Undisturbed, Transfers, LoopStep
    PROVE  Transfers'
<1>n. NoEntry \notin Object
    BY MarksAssumption
<1>t. /\ journalStack \in Seq(Journal)
      /\ cache \in [Addr -> Object \cup {NoEntry}]
      /\ unsaved \in [Addr -> Object \cup {NoEntry}]
      /\ repo \in [Addr -> Nat \cup {NoAccount}]
      /\ save # NoSave => /\ save.addr \in Addr /\ save.value \in Nat
                          /\ unsaved[save.addr] \in Object
      /\ phase # "saving" => save = NoSave
    BY DEF ObjectsInv, Entry, Journal
<1>u. UNCHANGED <<task, fetch, heap>> /\ ObjectsInv'
    BY LoopKeeps
<1>q. /\ \A t \in Api : Quiet(t)'
      /\ phase # "block" => Quiet(Producer)'
    BY <1>u DEF Transfers, Quiet
<1>k. Quiet(Producer)' => TransferOK(task[Producer], fetch[Producer])'
    BY DEF Quiet, TransferOK
<1>1. CASE BeginBlock
    <2>1. /\ phase = "idle" /\ phase' = "block"
          /\ journalStack' = <<EmptyJournal>>
          /\ UNCHANGED <<cache, repo, owed>>
        BY <1>1 DEF BeginBlock, StartBlock
    <2>2. journalStack = <<>>
        <3>1. Len(journalStack) = 0
            BY <2>1 DEF Transfers
        <3>2. QED
            BY <1>t, <3>1
    <2>3. journalStack' \in Seq(Journal)
        BY <1>u DEF ObjectsInv
    <2>4. \A a \in Addr : Journalled(a) = NoEntry /\ Journalled(a)' = NoEntry
        BY <1>t, <2>1, <2>2, <2>3, NothingJournalled DEF Journalled
    <2>5. MemoryIsOwed'
        BY <1>u, <2>1, <2>4 DEF Transfers, MemoryIsOwed
    <2>6. Len(journalStack') = 1
        BY <2>1
    <2>7. QED
        BY <1>k, <1>q, <2>1, <2>5, <2>6 DEF Transfers
<1>2. CASE RejectBlock \/ SaveFails \/ RewardsPaid
    BY <1>2 DEF RejectBlock, SaveFails, RewardsPaid, Transfers, Undisturbed
<1>3. CASE BeginCommit
    <2>1. /\ phase = "block" /\ phase' = "saving"
          /\ Quiet(Producer)
          /\ unsaved' = Merged(journalStack)
          /\ UNCHANGED <<journalStack, cache, repo, owed, save>>
        BY <1>3 DEF BeginCommit, CommitStart, history
    <2>2. \A a \in Addr : Journalled(a)' = Journalled(a)
        BY <2>1 DEF Journalled
    <2>3. MemoryIsOwed'
        BY <1>u, <2>1, <2>2 DEF Transfers, MemoryIsOwed
    <2>4. SavingIsOwed'
        <3>1. save' = NoSave
            BY <1>t, <2>1
        <3>2. \A a \in Addr : unsaved'[a] = Journalled(a)
            BY <2>1 DEF Journalled
        <3>3. QED
            BY <2>1, <2>2, <3>1, <3>2
               DEF Transfers, MemoryIsOwed, SavingIsOwed
    <2>5. Quiet(Producer)'
        BY <1>u, <2>1 DEF Quiet
    <2>6. QED
        BY <1>k, <1>q, <2>1, <2>3, <2>4, <2>5 DEF Transfers
<1>4. ASSUME NEW a \in Addr, SaveAccount(a)
      PROVE  Transfers'
    <2>1. /\ phase = "saving" /\ phase' = "saving"
          /\ save' = [addr |-> a, value |-> heap[unsaved[a]],
                      persisted |-> FALSE]
          /\ unsaved[a] # NoEntry
          /\ UNCHANGED <<journalStack, cache, repo, unsaved, owed>>
        BY <1>4 DEF SaveAccount, Encode, history
    <2>2. \A b \in Addr : Journalled(b)' = Journalled(b)
        BY <2>1 DEF Journalled
    <2>3. MemoryIsOwed'
        BY <1>u, <2>1, <2>2 DEF Transfers, MemoryIsOwed
    <2>4. heap[unsaved[a]] = owed[a]
        BY <2>1 DEF Transfers, SavingIsOwed, MemoryIsOwed
    <2>5. SavingIsOwed'
        BY <2>1, <2>2, <2>4 DEF Transfers, SavingIsOwed
    <2>6. QED
        BY <1>k, <1>q, <2>1, <2>3, <2>5 DEF Transfers
<1>5. CASE AccountPersisted
    <2>1. /\ phase = "saving" /\ phase' = "saving"
          /\ save # NoSave
          /\ repo' = [repo EXCEPT ![save.addr] = save.value]
          /\ save' = [save EXCEPT !.persisted = TRUE]
          /\ UNCHANGED <<journalStack, cache, unsaved, owed>>
        BY <1>5 DEF AccountPersisted, Persist, history
    <2>2. PICK s \in Addr : s = save.addr
        BY <1>t, <2>1
    <2>3. /\ save'.addr = s /\ save'.value = save.value
          /\ save.value = owed[s]
          /\ unsaved[s] # NoEntry /\ Journalled(s) # NoEntry
          /\ repo'[s] = save.value
          /\ \A b \in Addr \ {s} : repo'[b] = repo[b]
        <3>1. unsaved[s] # NoEntry
            BY <1>n, <1>t, <2>1, <2>2
        <3>2. QED
            BY <1>t, <2>1, <2>2, <3>1 DEF Transfers, SavingIsOwed
    <2>4. \A b \in Addr : Journalled(b)' = Journalled(b)
        BY <2>1 DEF Journalled
    <2>5. MemoryIsOwed'
        BY <1>u, <2>1, <2>3, <2>4 DEF Transfers, MemoryIsOwed
    <2>6. SavingIsOwed'
        BY <2>1, <2>3, <2>4 DEF Transfers, SavingIsOwed
    <2>7. QED
        BY <1>k, <1>q, <2>1, <2>5, <2>6 DEF Transfers
<1>6. CASE AccountSaved
    <2>1. /\ phase = "saving" /\ phase' = "saving"
          /\ save # NoSave /\ save' = NoSave
          /\ save.persisted
          /\ AddToCache(save.addr, unsaved[save.addr])
          /\ unsaved' = [unsaved EXCEPT ![save.addr] = NoEntry]
          /\ UNCHANGED <<journalStack, repo, owed>>
        BY <1>6 DEF AccountSaved, SaveDone, history
    <2>2. PICK s \in Addr : s = save.addr
        BY <1>t, <2>1
    <2>3. /\ unsaved[s] \in Object
          /\ unsaved[s] = Journalled(s)
          /\ Held(repo[s]) = owed[s]
        <3>1. unsaved[s] \in Object
            BY <1>t, <2>1, <2>2
        <3>2. /\ unsaved[s] = Journalled(s)
              /\ repo[s] = owed[s] /\ repo[s] \in Nat
            BY <1>n, <1>t, <2>1, <2>2, <3>1 DEF Transfers, SavingIsOwed
        <3>3. QED
            BY <3>1, <3>2, AccountServiceAssumption DEF Held
    <2>4. \A b \in Addr : Journalled(b)' = Journalled(b)
        BY <2>1 DEF Journalled
    <2>5. /\ cache'[s] = Journalled(s)
          /\ \A b \in Addr \ {s} : cache'[b] \in {cache[b], NoEntry}
        BY <2>1, <2>2, <2>3, AddToCacheEntries
    <2>6. MemoryIsOwed'
        <3>1. ASSUME NEW b \in Addr
              PROVE  IF Journalled(b) # NoEntry
                     THEN /\ heap[Journalled(b)] = owed[b]
                          /\ cache'[b] \in {NoEntry, Journalled(b)}
                     ELSE /\ Held(repo[b]) = owed[b]
                          /\ cache'[b] # NoEntry => heap[cache'[b]] = owed[b]
            <4>1. CASE b = s
                BY <1>n, <2>3, <2>5, <4>1 DEF Transfers, MemoryIsOwed
            <4>2. CASE b # s
                BY <2>5, <4>2 DEF Transfers, MemoryIsOwed
            <4>3. QED
                BY <4>1, <4>2
        <3>2. QED
            BY <1>u, <2>1, <2>4, <3>1 DEF MemoryIsOwed
    <2>7. SavingIsOwed'
        BY <1>t, <2>1, <2>2, <2>3, <2>4 DEF Transfers, SavingIsOwed
    <2>8. QED
        BY <1>k, <1>q, <2>1, <2>6, <2>7 DEF Transfers
<1>7. CASE EndCommit
    <2>1. /\ phase = "saving" /\ phase' = "idle"
          /\ journalStack' = <<>>
          /\ unsaved = EmptyJournal
          /\ UNCHANGED <<cache, repo, owed>>
        BY <1>7 DEF EndCommit, CommitEnd, history, Undisturbed
    <2>2. \A b \in Addr : Held(repo[b]) = owed[b]
        BY <2>1 DEF Transfers, SavingIsOwed, EmptyJournal
    <2>3. \A b \in Addr : Journalled(b)' = NoEntry
        <3>1. journalStack' \in Seq(Journal)
            BY <1>u DEF ObjectsInv
        <3>2. QED
            BY <2>1, <3>1, NothingJournalled DEF Journalled
    <2>4. \A b \in Addr : cache[b] # NoEntry => heap[cache[b]] = owed[b]
        BY DEF Transfers, MemoryIsOwed
    <2>5. MemoryIsOwed'
        BY <1>u, <2>1, <2>2, <2>3, <2>4 DEF MemoryIsOwed
    <2>6. Len(journalStack') = 0
        BY <2>1
    <2>7. QED
        BY <1>k, <1>q, <2>1, <2>5, <2>6 DEF Transfers
<1>8. QED
    BY <1>1, <1>2, <1>3, <1>4, <1>5, <1>6, <1>7 DEF LoopStep

\* Every step of an undisturbed run keeps memory and disk at what is owed.
LEMMA TransfersStep == TransfersInv /\ [Next]_vars => TransfersInv'
<1> SUFFICES ASSUME TransfersInv, [Next]_vars, Undisturbed'
             PROVE  Transfers'
    BY ObjectsStep DEF TransfersInv
<1>m. mode' = mode
    BY DEF Next, vars
<1>o. ObjectsInv /\ Undisturbed /\ Transfers
    <2>1. Undisturbed
        BY <1>m DEF Undisturbed
    <2>2. QED
        BY <2>1 DEF TransfersInv
<1>1. CASE UNCHANGED vars
    <2>1. /\ UNCHANGED <<journalStack, cache, unsaved, repo, fetch, save>>
          /\ UNCHANGED <<heap, phase, task, owed>>
        BY <1>1 DEF vars, stateVars
    <2>2. \A a \in Addr : /\ Journalled(a)' = Journalled(a)
                          /\ Lookup(a)' = Lookup(a)
        BY <2>1 DEF Journalled, Lookup
    <2>3. MemoryIsOwed' /\ (phase = "saving" => SavingIsOwed')
        BY <1>o, <2>1, <2>2 DEF Transfers, MemoryIsOwed, SavingIsOwed
    <2>4. TransferOK(task[Producer], fetch[Producer])'
        BY <1>o, <2>1 DEF Transfers, TransferOK, Lookup
    <2>5. QED
        BY <1>o, <2>1, <2>3, <2>4 DEF Transfers, Quiet
<1>2. CASE Step
    <2>1. ASSUME LoopStep
          PROVE  Transfers'
        BY <1>o, <2>1, LoopTransfers
    <2>p. \A t \in Task : ~Quiet(t) => t = Producer /\ phase = "block"
        BY <1>o DEF Transfers, Task
    <2>2. ASSUME NEW t \in Task, Obtain(t) \/ Change(t)
          PROVE  Transfers'
        <3>1. ~Quiet(t)
            BY <2>2 DEF Obtain, Change, Quiet
        <3>2. QED
            BY <1>o, <2>2, <2>p, <3>1, ObtainTransfers, ChangeTransfers
    <2>3. ASSUME NEW t \in Task, SeekRecipient(t)
          PROVE  Transfers'
        <3>1. t = Producer /\ phase = "block"
            BY <2>3, <2>p DEF SeekRecipient, Quiet
        <3>2. /\ Asks(Producer, task[Producer].credit, 1, NoEntry)
              /\ task[Producer].credit \in Addr
            BY <1>o, <2>3, <3>1, WhoAsks
               DEF SeekRecipient, ObjectsInv, TaskOK
        <3>3. QED
            BY <1>o, <3>1, <3>2, AsksTransfers
    <2>4. ASSUME NEW from \in Addr, NEW to \in Addr, Transfer(from, to)
          PROVE  Transfers'
        <3>1. phase = "block" /\ Asks(Producer, from, -1, to)
            BY <2>4, WhoAsks DEF Transfer, Task
        <3>2. QED
            BY <1>o, <3>1, AsksTransfers
    <2>5. /\ \A a \in Addr : ~Reward(a)
          /\ \A t \in Api, a \in Addr : ~AddBalanceRequest(t, a)
        BY <1>o DEF Reward, AddBalanceRequest, Transfers, Undisturbed
    <2>6. QED
        BY <1>2, <2>1, <2>2, <2>3, <2>4, <2>5 DEF Step, LoopStep
<1>3. QED
    BY <1>1, <1>2 DEF Next

\* At first nothing is in memory.
LEMMA TransfersInit == Init => TransfersInv
<1> SUFFICES ASSUME Init PROVE Transfers
    BY ObjectsInit DEF TransfersInv
<1>1. /\ journalStack = <<>> /\ phase = "idle" /\ save = NoSave
      /\ \A a \in Addr : cache[a] = NoEntry /\ owed[a] = Held(repo[a])
      /\ \A t \in Task : task[t].step = "done"
    BY DEF Init, StateInit, NoTask
<1>2. \A a \in Addr : Journalled(a) = NoEntry
    BY <1>1, NothingJournalled, ObjectsInit DEF Journalled, ObjectsInv
<1>3. MemoryIsOwed
    BY <1>1, <1>2 DEF MemoryIsOwed
<1>4. QED
    BY <1>1, <1>3 DEF Transfers, TransferOK, Quiet, Task

\* The invariant about transfers in every state.
LEMMA TransfersAlways == Spec => []TransfersInv
BY TransfersInit, TransfersStep, PTL DEF Spec

\* Between blocks that are all kept every account has, as a caller finds it,
\* what the transfers made of it: both halves of each took effect once,
\* although an account may be evicted, fetched or created between the two.
THEOREM TransfersAreKept == Spec => []BalancesAreOwed
<1>1. TransfersInv => BalancesAreOwed
    <2> SUFFICES ASSUME TransfersInv, Undisturbed, NEW a \in Addr
                 PROVE  Balance(a) = owed[a]
        BY DEF BalancesAreOwed
    <2>1. Transfers
        BY DEF TransfersInv
    <2>2. QED
        BY <2>1
           DEF Transfers, MemoryIsOwed, Balance, Lookup, Journalled
<1>2. QED
    BY <1>1, TransfersAlways, PTL

\* When commitBlock clears the journal of such a block every account is in
\* the repository as the transfers up to then left it.
THEOREM CommitsAreComplete == Spec => CommitSavesTransfers
<1>1. TransfersInv /\ [Next]_vars =>
          [Undisturbed /\ EndCommit => RepositoryIsOwed]_vars
    <2> SUFFICES ASSUME TransfersInv, Undisturbed, EndCommit, NEW a \in Addr
                 PROVE  Held(repo'[a]) = owed[a]
        BY DEF RepositoryIsOwed
    <2>1. /\ phase = "saving" /\ unsaved = EmptyJournal /\ repo' = repo
        BY DEF EndCommit, CommitEnd
    <2>2. SavingIsOwed
        BY <2>1 DEF TransfersInv, Transfers
    <2>3. QED
        BY <2>1, <2>2 DEF SavingIsOwed, EmptyJournal
<1>2. QED
    BY <1>1, TransfersAlways, PTL DEF Spec, CommitSavesTransfers
-----------------------------------------------------------------------------
(* Types, and the bound on balances *)

\* The credits of an account that have begun and are still to be applied.
Pending(a) ==
    {t \in Task : \/ task[t].credit = a
                  \/ task[t].addr = a /\ task[t].change = 1}

\* What an account is owed stays within the bound when they are.
Capped == \A a \in Addr : owed[a] + Cardinality(Pending(a)) <= MaxBalance

\* A task that is done has no account, one that is about to credit the
\* recipient has none yet, and a credit is followed by no other.
TaskFits(t) ==
    /\ task[t].step = "done" => task[t] = NoTask
    /\ task[t].step = "credit" => task[t].addr = NoEntry
    /\ task[t].change = 1 => task[t].credit = NoEntry

\* Transfers are only looked at in blocks that are all kept.
ModesAreSeparate == \A m \in Modes :
    m.transfers => ~m.rejects /\ ~m.rewards /\ ~m.requests /\ ~m.failures

BoundInv ==
    /\ TypeOK
    /\ \A t \in Task : TaskFits(t)
    /\ Capped

\* How many more or fewer tasks there are in a set.
LEMMA TasksCount ==
    ASSUME IsFiniteSet(Api), NEW S \in SUBSET Task, NEW T \in SUBSET Task,
           NEW t \in Task
    PROVE  /\ Cardinality(S) \in Nat
           /\ S \subseteq T => Cardinality(S) <= Cardinality(T)
           /\ S \subseteq T \cup {t} => Cardinality(S) <= Cardinality(T) + 1
           /\ t \in T /\ S \subseteq T \ {t} =>
                 Cardinality(S) <= Cardinality(T) - 1
<1>1. IsFiniteSet(Task)
    BY FS_Singleton, FS_Union DEF Task
<1>2. IsFiniteSet(S) /\ IsFiniteSet(T)
    BY <1>1, FS_Subset
<1>3. /\ Cardinality(S) \in Nat /\ Cardinality(T) \in Nat
      /\ S \subseteq T => Cardinality(S) <= Cardinality(T)
    BY <1>2, FS_Subset, FS_CardinalityType
<1>4. /\ IsFiniteSet(T \cup {t})
      /\ Cardinality(T \cup {t}) \in {Cardinality(T), Cardinality(T) + 1}
    BY <1>2, FS_AddElement
<1>5. S \subseteq T \cup {t} => Cardinality(S) <= Cardinality(T) + 1
    <2>1. S \subseteq T \cup {t} =>
              Cardinality(S) <= Cardinality(T \cup {t})
        BY <1>4, FS_Subset
    <2>2. QED
        BY <1>3, <1>4, <2>1
<1>6. /\ IsFiniteSet(T \ {t})
      /\ t \in T => Cardinality(T \ {t}) = Cardinality(T) - 1
    BY <1>2, FS_RemoveElement
<1>7. t \in T /\ S \subseteq T \ {t} => Cardinality(S) <= Cardinality(T) - 1
    <2>1. S \subseteq T \ {t} => Cardinality(S) <= Cardinality(T \ {t})
        BY <1>6, FS_Subset
    <2>2. QED
        BY <1>6, <2>1
<1>8. QED
    BY <1>3, <1>5, <1>7

\* A task that begins on an account or goes on to its recipient: there is
\* room for what it will credit.
LEMMA AsksIsBounded ==
    ASSUME IsFiniteSet(Api), ObjectsInv, BoundInv, UNCHANGED mode,
           NEW t \in Task, NEW a \in Addr, NEW change \in {-1, 1},
           NEW credit \in Addr \cup {NoEntry},
           change = 1 => credit = NoEntry,
           Asks(t, a, change, credit),
           \A b \in Addr : b = credit \/ (b = a /\ change = 1) =>
               owed[b] + Cardinality(Pending(b) \cup {t}) <= MaxBalance
    PROVE  BoundInv'
<1> DEFINE Hit == [step |-> "held", addr |-> a, ref |-> Lookup(a),
                   change |-> change, credit |-> credit]
           Miss == [step |-> "fetching", addr |-> a, ref |-> NoEntry,
                    change |-> change, credit |-> credit]
           Kind == [step : {"done", "fetching", "held", "credit"},
                    addr : Addr \cup {NoEntry},
                    ref : Object \cup {NoEntry},
                    change : {-1, 0, 1},
                    credit : Addr \cup {NoEntry}]
<1>1. /\ UNCHANGED <<journalStack, cache, cacheKeys, repo, unsaved, save>>
      /\ UNCHANGED <<heap, phase, owed, inBlock>>
    BY DEF Asks, stateVars, Fetch, history
<1>t. /\ task \in [Task -> Kind]
      /\ fetch \in [Task -> [addr : Addr \cup {NoEntry},
                             value : Value \cup {NoAccount}]]
      /\ repo[a] \in Value \cup {NoAccount}
    BY AccountServiceAssumption DEF BoundInv, TypeOK, StateTypeOK
<1>2. /\ \E k \in {Hit, Miss} : task' = [task EXCEPT ![t] = k] /\ k \in Kind
      /\ fetch' \in [Task -> [addr : Addr \cup {NoEntry},
                              value : Value \cup {NoAccount}]]
    <2>1. CASE /\ Lookup(a) # NoEntry
               /\ task' = [task EXCEPT ![t] = Hit]
               /\ UNCHANGED stateVars
        <3>1. Lookup(a) \in Object
            BY <2>1, LookupRefers
        <3>2. Hit \in Kind
            BY <3>1
        <3>3. fetch' = fetch
            BY <2>1 DEF stateVars
        <3> HIDE DEF Hit, Miss, Kind
        <3>4. QED
            BY <1>t, <2>1, <3>2, <3>3
    <2>2. CASE /\ \E fails \in {FALSE, mode.failures} : Fetch(t, a, fails)
               /\ task' = [task EXCEPT ![t] = Miss]
        <3>1. PICK w \in {NoAccount, repo[a]} :
                  fetch' = [fetch EXCEPT ![t] = [addr |-> a, value |-> w]]
            BY <2>2 DEF Fetch
        <3>2. Miss \in Kind
            OBVIOUS
        <3> HIDE DEF Hit, Miss, Kind
        <3>3. fetch' \in [Task -> [addr : Addr \cup {NoEntry},
                                  value : Value \cup {NoAccount}]]
            BY <1>t, <3>1
        <3>4. QED
            BY <2>2, <3>2, <3>3
    <2>3. QED
        BY <2>1, <2>2 DEF Asks
<1>3. PICK k \in {Hit, Miss} : task' = [task EXCEPT ![t] = k] /\ k \in Kind
    BY <1>2
<1>4. /\ k.step \in {"held", "fetching"} /\ k.addr = a
      /\ k.change = change /\ k.credit = credit
    OBVIOUS
<1> HIDE DEF Hit, Miss, Kind
<1>5. /\ task'[t] = k
      /\ \A u \in Task \ {t} : task'[u] = task[u]
      /\ task' \in [Task -> Kind]
    BY <1>t, <1>3
<1>6. TypeOK'
    BY <1>1, <1>2, <1>5, AccountServiceAssumption
       DEF BoundInv, TypeOK, StateTypeOK, Kind
<1>7. ASSUME NEW u \in Task
      PROVE  TaskFits(u)'
    <2>1. CASE u = t
        BY <1>4, <1>5, <2>1 DEF TaskFits
    <2>2. CASE u # t
        BY <1>5, <2>2 DEF BoundInv, TaskFits
    <2>3. QED
        BY <2>1, <2>2
<1>8. ASSUME NEW b \in Addr
      PROVE  owed'[b] + Cardinality(Pending(b)') <= MaxBalance
    <2>1. /\ Pending(b) \in SUBSET Task /\ Pending(b)' \in SUBSET Task
          /\ Pending(b) \cup {t} \in SUBSET Task
          /\ Pending(b)' \subseteq Pending(b) \cup {t}
        BY <1>5 DEF Pending
    <2>2. /\ owed'[b] = owed[b] /\ owed[b] \in Int
          /\ owed[b] + Cardinality(Pending(b)) <= MaxBalance
          /\ MaxBalance \in Nat
        BY <1>1, AccountServiceAssumption DEF BoundInv, Capped, TypeOK
    <2>3. CASE b = credit \/ (b = a /\ change = 1)
        <3>1. owed[b] + Cardinality(Pending(b) \cup {t}) <= MaxBalance
            BY <2>3
        <3>2. /\ Cardinality(Pending(b)') <= Cardinality(Pending(b) \cup {t})
              /\ Cardinality(Pending(b)') \in Nat
              /\ Cardinality(Pending(b) \cup {t}) \in Nat
            BY <2>1, TasksCount
        <3>3. QED
            BY <2>2, <3>1, <3>2
    <2>4. CASE ~(b = credit \/ (b = a /\ change = 1))
        <3>1. Pending(b)' \subseteq Pending(b)
            BY <1>4, <1>5, <2>4 DEF Pending
        <3>2. /\ Cardinality(Pending(b)') <= Cardinality(Pending(b))
              /\ Cardinality(Pending(b)') \in Nat
              /\ Cardinality(Pending(b)) \in Nat
            BY <2>1, <3>1, TasksCount
        <3>3. QED
            BY <2>2, <3>2
    <2>5. QED
        BY <2>3, <2>4
<1>9. QED
    BY <1>6, <1>7, <1>8 DEF BoundInv, Capped
\* The object made of what is read has a balance within the bound.
LEMMA ObtainIsBounded ==
    ASSUME BoundInv, ObjectsInv, UNCHANGED mode,
           NEW t \in Task, Obtain(t)
    PROVE  BoundInv'
<1> DEFINE a == task[t].addr
           w == fetch[t].value
           Kind == [step : {"done", "fetching", "held", "credit"},
                    addr : Addr \cup {NoEntry},
                    ref : Object \cup {NoEntry},
                    change : {-1, 0, 1},
                    credit : Addr \cup {NoEntry}]
<1>1. /\ task[t].step = "fetching" /\ a \in Addr /\ fetch[t].addr = a
    BY DEF Obtain, ObjectsInv, TaskOK
<1>2. New \in Object
    BY NewIsFree DEF Obtain
<1> HIDE DEF New
<1>3. /\ UNCHANGED <<repo, unsaved, save, phase, owed, inBlock>>
      /\ fetch' = [fetch EXCEPT ![t] = NoFetch]
      /\ IF w = NoAccount THEN UNCHANGED <<cache, cacheKeys>>
                          ELSE AddToCache(a, New)
      /\ IF w = NoAccount THEN SetAccount(a, New) ELSE UNCHANGED journalStack
      /\ heap' = [heap EXCEPT ![New] = Held(w)]
      /\ task' = [task EXCEPT ![t].step = "held", ![t].ref = New]
    BY <1>1 DEF Obtain, FetchDone, history
<1>t. /\ task \in [Task -> Kind]
      /\ fetch \in [Task -> [addr : Addr \cup {NoEntry},
                             value : Value \cup {NoAccount}]]
      /\ w \in Value \cup {NoAccount}
      /\ journalStack \in Seq(Journal)
      /\ cache \in [Addr -> Object \cup {NoEntry}]
      /\ cacheKeys \in Seq(Addr)
      /\ heap \in [Object -> Value]
    BY AccountServiceAssumption DEF BoundInv, TypeOK, StateTypeOK
<1> HIDE DEF a, w, Kind
<1>4. journalStack' \in Seq(Journal)
    BY <1>1, <1>2, <1>3, <1>t, SetAccountType
<1>5. /\ cache' \in [Addr -> Object \cup {NoEntry}]
      /\ cacheKeys' \in Seq(Addr)
    BY <1>1, <1>2, <1>3, <1>t, AddToCacheType
<1>6. fetch' \in [Task -> [addr : Addr \cup {NoEntry},
                          value : Value \cup {NoAccount}]]
    BY <1>3, <1>t DEF NoFetch
<1>7. heap' \in [Object -> Value]
    <2>1. Held(w) \in Value
        BY <1>t, AccountServiceAssumption DEF Held
    <2>2. QED
        BY <1>3, <1>t, <2>1
<1>8. /\ task' \in [Task -> Kind]
      /\ \A u \in Task \ {t} : task'[u] = task[u]
      /\ task'[t].step = "held"
      /\ task'[t].addr = task[t].addr
      /\ task'[t].change = task[t].change
      /\ task'[t].credit = task[t].credit
    BY <1>2, <1>3, <1>t DEF Kind
<1>9. TypeOK'
    BY <1>3, <1>4, <1>5, <1>6, <1>7, <1>8, AccountServiceAssumption
       DEF BoundInv, TypeOK, StateTypeOK, Kind
<1>10. ASSUME NEW u \in Task
       PROVE  TaskFits(u)'
    <2>1. CASE u = t
        BY <1>8, <2>1 DEF BoundInv, TaskFits
    <2>2. CASE u # t
        BY <1>8, <2>2 DEF BoundInv, TaskFits
    <2>3. QED
        BY <2>1, <2>2
<1>11. ASSUME NEW b \in Addr
       PROVE  Pending(b)' = Pending(b)
    BY <1>8 DEF Pending
<1>12. Capped'
    BY <1>3, <1>11 DEF BoundInv, Capped
<1>13. QED
    BY <1>9, <1>10, <1>12 DEF BoundInv

\* The object that is credited has at most what is owed, and what is owed
\* leaves room for the credit.
LEMMA ChangeIsBounded ==
    ASSUME IsFiniteSet(Api), BoundInv, ObjectsInv, UNCHANGED mode,
           NEW t \in Task, Change(t),
           task[t].change = 1 => heap[task[t].ref] <= owed[task[t].addr]
    PROVE  BoundInv'
<1> DEFINE a == task[t].addr
           r == task[t].ref
           c == task[t].change
           Kind == [step : {"done", "fetching", "held", "credit"},
                    addr : Addr \cup {NoEntry},
                    ref : Object \cup {NoEntry},
                    change : {-1, 0, 1},
                    credit : Addr \cup {NoEntry}]
<1>n. NoEntry \notin Object /\ NoEntry \notin Addr
    BY MarksAssumption
<1>1. /\ task[t].step = "held"
      /\ a \in Addr /\ r \in Object /\ c \in {-1, 0, 1}
    BY DEF Change, ObjectsInv, TaskOK
<1>t. /\ task \in [Task -> Kind]
      /\ journalStack \in Seq(Journal)
      /\ heap \in [Object -> Value]
      /\ owed \in [Addr -> Int] /\ inBlock \in [Addr -> Int]
      /\ MaxBalance \in Nat /\ Value = 0..MaxBalance
      /\ Capped
      /\ \A u \in Task : TaskFits(u)
    BY AccountServiceAssumption DEF BoundInv, TypeOK, StateTypeOK
<1>k. NoTask \in Kind
    BY DEF NoTask
<1>2. CASE ~Sufficient(r, c)
    <2>1. /\ task' = [task EXCEPT ![t] = NoTask]
          /\ UNCHANGED <<stateVars, heap, phase, history>>
        BY <1>2 DEF Change
    <2> HIDE DEF Kind
    <2>2. /\ task'[t] = NoTask
          /\ \A u \in Task \ {t} : task'[u] = task[u]
          /\ task' \in [Task -> Kind]
        BY <1>t, <1>k, <2>1
    <2>3. TypeOK'
        BY <2>1, <2>2 DEF BoundInv, TypeOK, StateTypeOK, Kind, stateVars,
                          history
    <2>4. ASSUME NEW u \in Task
          PROVE  TaskFits(u)'
        <3>1. CASE u = t
            BY <2>2, <3>1 DEF TaskFits, NoTask
        <3>2. CASE u # t
            BY <1>t, <2>2, <3>2 DEF TaskFits
        <3>3. QED
            BY <3>1, <3>2
    <2>5. ASSUME NEW b \in Addr
          PROVE  owed'[b] + Cardinality(Pending(b)') <= MaxBalance
        <3>1. /\ Pending(b) \in SUBSET Task /\ Pending(b)' \in SUBSET Task
              /\ Pending(b)' \subseteq Pending(b)
            BY <1>n, <2>2 DEF Pending, NoTask
        <3>2. /\ Cardinality(Pending(b)') <= Cardinality(Pending(b))
              /\ Cardinality(Pending(b)') \in Nat
              /\ Cardinality(Pending(b)) \in Nat
            BY <3>1, TasksCount
        <3>3. owed'[b] = owed[b] /\ owed[b] \in Int
            BY <1>t, <2>1 DEF history
        <3>4. QED
            BY <1>t, <3>2, <3>3 DEF Capped
    <2>6. QED
        BY <2>3, <2>4, <2>5 DEF BoundInv, Capped
<1>3. CASE Sufficient(r, c)
    <2>1. /\ heap' = [heap EXCEPT ![r] = @ + c]
          /\ SetAccount(a, r)
          /\ owed' = [owed EXCEPT ![a] = @ + c]
          /\ inBlock' \in {inBlock, [inBlock EXCEPT ![a] = @ + c]}
          /\ IF task[t].credit = NoEntry
             THEN task' = [task EXCEPT ![t] = NoTask]
             ELSE task' = [[task EXCEPT ![t] = NoTask]
                               EXCEPT ![t].step = "credit",
                                      ![t].credit = task[t].credit]
          /\ UNCHANGED <<cache, cacheKeys, repo, fetch, unsaved, save, phase>>
        BY <1>3 DEF Change
    <2>2. /\ \/ task'[t] = NoTask /\ task[t].credit = NoEntry
             \/ task'[t].step = "credit" /\ task[t].credit # NoEntry
          /\ task'[t].addr = NoEntry /\ task'[t].change = 0
          /\ task'[t].credit = task[t].credit
          /\ \A u \in Task \ {t} : task'[u] = task[u]
          /\ task' \in [Task -> Kind]
        <3>0. /\ NoTask.addr = NoEntry /\ NoTask.change = 0
              /\ NoTask.credit = NoEntry
            BY DEF NoTask
        <3>1. CASE task[t].credit = NoEntry
            <4>1. task' = [task EXCEPT ![t] = NoTask]
                BY <2>1, <3>1
            <4> HIDE DEF Kind
            <4>2. /\ task'[t] = NoTask
                  /\ \A u \in Task \ {t} : task'[u] = task[u]
                  /\ task' \in [Task -> Kind]
                BY <1>k, <1>t, <4>1
            <4>3. QED
                BY <3>0, <3>1, <4>2
        <3>2. CASE task[t].credit # NoEntry
            BY <1>k, <1>t, <2>1, <3>2 DEF NoTask
        <3>3. QED
            BY <3>1, <3>2
    <2>3. journalStack' \in Seq(Journal)
        BY <1>1, <1>t, <2>1, SetAccountType
    <2> HIDE DEF a, r, c, Kind
    <2>4. ASSUME NEW b \in Addr
          PROVE  owed'[b] + Cardinality(Pending(b)') <= MaxBalance
        <3>1. /\ Pending(b) \in SUBSET Task /\ Pending(b)' \in SUBSET Task
              /\ Pending(b)' \subseteq Pending(b)
              /\ c = 1 /\ b = a => /\ t \in Pending(b)
                                    /\ Pending(b)' \subseteq Pending(b) \ {t}
            <4>1. /\ Pending(b) \in SUBSET Task /\ Pending(b)' \in SUBSET Task
                  /\ Pending(b)' \subseteq Pending(b)
                BY <1>n, <2>2 DEF Pending
            <4>2. ASSUME c = 1, b = a
                  PROVE  t \in Pending(b) /\ t \notin Pending(b)'
                <5>1. task[t].credit = NoEntry
                    BY <1>t, <4>2 DEF TaskFits, c
                <5>2. QED
                    BY <1>n, <2>2, <4>2, <5>1 DEF Pending, a, c
            <4>3. QED
                BY <4>1, <4>2
        <3>2. /\ Cardinality(Pending(b)') <= Cardinality(Pending(b))
              /\ c = 1 /\ b = a =>
                    Cardinality(Pending(b)') <= Cardinality(Pending(b)) - 1
              /\ Cardinality(Pending(b)') \in Nat
              /\ Cardinality(Pending(b)) \in Nat
            BY <3>1, TasksCount
        <3>3. /\ owed[b] \in Int
              /\ owed[b] + Cardinality(Pending(b)) <= MaxBalance
              /\ owed'[b] = IF b = a THEN owed[b] + c ELSE owed[b]
            BY <1>t, <2>1 DEF Capped
        <3>4. QED
            BY <1>1, <1>t, <3>2, <3>3
    <2>5. heap[r] + c \in Value
        <3>1. heap[r] \in 0..MaxBalance /\ heap[r] + c >= 0
            BY <1>1, <1>3, <1>t DEF Sufficient
        <3>2. CASE c = 1
            <4>1. heap[r] <= owed[a]
                BY <3>2 DEF a, c, r
            <4>2. t \in Pending(a) /\ Pending(a) \in SUBSET Task
                BY <3>2 DEF Pending, a, c
            <4>3. {t} \in SUBSET Task /\ {t} \subseteq Pending(a)
                BY <4>2
            <4>4. Cardinality({t}) = 1
                BY FS_Singleton
            <4>5. Cardinality(Pending(a)) >= 1 /\ Cardinality(Pending(a)) \in Nat
                BY <4>2, <4>3, <4>4, TasksCount
            <4>6. owed[a] \in Int
                  /\ owed[a] + Cardinality(Pending(a)) <= MaxBalance
                BY <1>1, <1>t DEF Capped
            <4>7. QED
                BY <1>t, <3>1, <3>2, <4>1, <4>5, <4>6
        <3>3. CASE c # 1
            BY <1>1, <1>t, <3>1, <3>3
        <3>4. QED
            BY <3>2, <3>3
    <2>6. /\ heap' \in [Object -> Value]
          /\ owed' \in [Addr -> Int] /\ inBlock' \in [Addr -> Int]
        BY <1>1, <1>t, <2>1, <2>5
    <2>7. TypeOK'
        BY <2>1, <2>2, <2>3, <2>6
           DEF BoundInv, TypeOK, StateTypeOK, Kind
    <2>8. ASSUME NEW u \in Task
          PROVE  TaskFits(u)'
        <3>1. CASE u = t
            BY <2>2, <3>1 DEF TaskFits, NoTask
        <3>2. CASE u # t
            BY <1>t, <2>2, <3>2 DEF TaskFits
        <3>3. QED
            BY <3>1, <3>2
    <2>9. QED
        BY <2>4, <2>7, <2>8 DEF BoundInv, Capped
<1>4. QED
    BY <1>2, <1>3
\* The block loop moves balances between memory and the repository, and what
\* is owed changes only when transfers are forgotten.
LEMMA LoopIsBounded ==
    ASSUME BoundInv, ObjectsInv, UNCHANGED mode, LoopStep,
           RejectBlock \/ SaveFails => \A a \in Addr : inBlock[a] = 0
    PROVE  BoundInv'
<1>t. /\ StateTypeOK
      /\ heap \in [Object -> Value]
      /\ save # NoSave => save.addr \in Addr /\ unsaved[save.addr] \in Object
    BY DEF BoundInv, TypeOK, ObjectsInv
<1>e. EmptyJournal \in Journal
    BY DEF EmptyJournal, Journal, Entry
<1>1. UNCHANGED <<task, fetch, heap>> /\ ObjectsInv'
    BY LoopKeeps
<1>2. owed' = owed
    <2>1. ASSUME \A a \in Addr : inBlock[a] = 0
          PROVE  Forgotten = owed
        <3>1. ASSUME NEW a \in Addr
              PROVE  owed[a] - inBlock[a] = owed[a]
            <4>1. owed[a] \in Int /\ inBlock[a] = 0
                BY <2>1 DEF ObjectsInv
            <4>2. QED
                BY <4>1
        <3>2. QED
            BY <3>1 DEF Forgotten, ObjectsInv
    <2>2. QED
        BY <2>1 DEF LoopStep, BeginBlock, RejectBlock, BeginCommit,
                    SaveAccount, AccountPersisted, AccountSaved, EndCommit,
                    SaveFails, RewardsPaid, history
<1>3. phase' \in {"idle", "block", "saving", "paying"}
    BY DEF BoundInv, TypeOK, LoopStep, BeginBlock, RejectBlock, BeginCommit,
           SaveAccount, AccountPersisted, AccountSaved, EndCommit, SaveFails,
           RewardsPaid
<1>4. StateTypeOK'
    <2>1. CASE AccountSaved
        <3>1. /\ save # NoSave /\ save' = NoSave
              /\ AddToCache(save.addr, unsaved[save.addr])
              /\ unsaved' = [unsaved EXCEPT ![save.addr] = NoEntry]
              /\ UNCHANGED <<journalStack, repo, fetch>>
            BY <2>1 DEF AccountSaved, SaveDone
        <3>2. /\ cache' \in [Addr -> Object \cup {NoEntry}]
              /\ cacheKeys' \in Seq(Addr)
            BY <1>t, <3>1, AddToCacheType DEF StateTypeOK
        <3>3. unsaved' \in Journal
            BY <1>t, <3>1 DEF StateTypeOK, Journal, Entry
        <3>4. QED
            BY <1>t, <3>1, <3>2, <3>3 DEF StateTypeOK, NoSave
    <2>2. CASE AccountPersisted
        BY <1>t, <2>2 DEF AccountPersisted, Persist, StateTypeOK
    <2>3. ASSUME NEW a \in Addr, SaveAccount(a)
          PROVE  StateTypeOK'
        <3>1. /\ save' = [addr |-> a, value |-> heap[unsaved[a]],
                          persisted |-> FALSE]
              /\ unsaved[a] \in Object
              /\ UNCHANGED <<journalStack, cache, cacheKeys, repo, fetch,
                             unsaved>>
            BY <2>3 DEF SaveAccount, Encode
        <3>2. heap[unsaved[a]] \in Value
            BY <1>t, <3>1
        <3>3. QED
            BY <1>t, <3>1, <3>2 DEF StateTypeOK
    <2>4. CASE BeginCommit
        BY <1>t, <2>4, MergedType DEF BeginCommit, CommitStart, StateTypeOK
    <2>5. CASE BeginBlock
        <3>1. journalStack' \in Seq(Journal)
            BY <1>e, <2>5 DEF BeginBlock, StartBlock
        <3>2. QED
            BY <1>t, <2>5, <3>1 DEF BeginBlock, StateTypeOK
    <2>6. CASE RejectBlock
        BY <1>t, <2>6 DEF RejectBlock, RollbackBlock, StateTypeOK
    <2>7. CASE EndCommit
        BY <1>t, <2>7 DEF EndCommit, CommitEnd, StateTypeOK
    <2>8. CASE SaveFails
        BY <1>e, <1>t, <2>8
           DEF SaveFails, CommitFails, RollbackBlock, StateTypeOK, NoSave
    <2>9. CASE RewardsPaid
        BY <1>t, <2>9 DEF RewardsPaid, stateVars, StateTypeOK
    <2>10. QED
        BY <2>1, <2>2, <2>3, <2>4, <2>5, <2>6, <2>7, <2>8, <2>9 DEF LoopStep
<1>5. TypeOK'
    BY <1>1, <1>3, <1>4 DEF BoundInv, TypeOK, ObjectsInv
<1>6. ASSUME NEW u \in Task
      PROVE  TaskFits(u)'
    BY <1>1 DEF BoundInv, TaskFits
<1>7. Capped'
    BY <1>1, <1>2 DEF BoundInv, Capped, Pending
<1>8. QED
    BY <1>5, <1>6, <1>7 DEF BoundInv

\* A transfer, a reward or a request begins where there is room.
LEMMA SeekIsBounded ==
    ASSUME IsFiniteSet(Api), ObjectsInv, BoundInv, UNCHANGED mode,
           NEW t \in Task, NEW a \in Addr, NEW change \in {-1, 1},
           NEW credit \in Addr \cup {NoEntry},
           change = 1 => credit = NoEntry,
           Seek(t, a, change, credit),
           IF change = 1 THEN RoomFor(a) ELSE RoomFor(credit) /\ credit \in Addr
    PROVE  BoundInv'
<1> DEFINE b == IF change = 1 THEN a ELSE credit
           Counted == {u \in Task : b \in {task[u].addr, task[u].credit}}
<1>1. b \in Addr /\ NoEntry \notin Addr
    BY MarksAssumption
<1>2. owed[b] + Cardinality(Counted) < MaxBalance
    BY DEF RoomFor
<1>3. Pending(b) \subseteq Counted
    BY DEF Pending
<1>4. /\ Counted \in SUBSET Task
      /\ Pending(b) \cup {t} \in SUBSET Task
      /\ Pending(b) \cup {t} \subseteq Counted \cup {t}
    BY <1>3 DEF Pending
<1> HIDE DEF Counted
<1>5. /\ Cardinality(Counted) \in Nat
      /\ Cardinality(Pending(b) \cup {t}) \in Nat
      /\ Cardinality(Pending(b) \cup {t}) <= Cardinality(Counted) + 1
    BY <1>4, TasksCount
<1>6. owed[b] \in Int /\ MaxBalance \in Nat
    BY <1>1, AccountServiceAssumption DEF ObjectsInv
<1>7. owed[b] + Cardinality(Pending(b) \cup {t}) <= MaxBalance
    BY <1>2, <1>5, <1>6
<1>8. ASSUME NEW x \in Addr, x = credit \/ (x = a /\ change = 1)
      PROVE  x = b
    BY <1>1, <1>8
<1>9. Asks(t, a, change, credit)
    BY WhoAsks
<1> HIDE DEF b, Asks
<1>10. \A x \in Addr : x = credit \/ (x = a /\ change = 1) =>
           owed[x] + Cardinality(Pending(x) \cup {t}) <= MaxBalance
    BY <1>7, <1>8
<1>11. QED
    BY <1>9, <1>10, AsksIsBounded

\* At first no credit is pending.
LEMMA BoundInit == ASSUME IsFiniteSet(Api) PROVE Init => BoundInv
<1> SUFFICES ASSUME Init PROVE BoundInv
    OBVIOUS
<1>n. NoEntry \notin Addr
    BY MarksAssumption
<1>1. EmptyJournal \in Journal
    BY DEF EmptyJournal, Journal, Entry
<1>2. StateTypeOK
    BY <1>1, AccountServiceAssumption
       DEF Init, StateInit, StateTypeOK, NoFetch, NoSave
<1>3. /\ task = [t \in Task |-> NoTask]
      /\ heap = [o \in Object |-> 0]
      /\ owed = [a \in Addr |-> Held(repo[a])]
    BY DEF Init
<1>4. \A a \in Addr : Held(repo[a]) \in 0..MaxBalance
    BY <1>2, AccountServiceAssumption DEF StateTypeOK, Held
<1>5. TypeOK
    <2>1. task \in [Task -> [step : {"done", "fetching", "held", "credit"},
                             addr : Addr \cup {NoEntry},
                             ref : Object \cup {NoEntry},
                             change : {-1, 0, 1},
                             credit : Addr \cup {NoEntry}]]
        BY <1>3 DEF NoTask
    <2>2. /\ heap \in [Object -> Value]
          /\ owed \in [Addr -> Int] /\ inBlock \in [Addr -> Int]
        BY <1>3, <1>4, AccountServiceAssumption DEF Init
    <2>3. phase = "idle" /\ mode \in Modes
        BY DEF Init
    <2>4. QED
        BY <1>2, <2>1, <2>2, <2>3 DEF TypeOK
<1>6. ASSUME NEW a \in Addr
      PROVE  owed[a] + Cardinality(Pending(a)) <= MaxBalance
    <2>1. Pending(a) = {}
        BY <1>n, <1>3 DEF Pending, NoTask
    <2>2. Cardinality(Pending(a)) = 0
        BY <2>1, FS_EmptySet
    <2>3. owed[a] \in 0..MaxBalance /\ MaxBalance \in Nat
        BY <1>3, <1>4, AccountServiceAssumption
    <2>4. QED
        BY <2>2, <2>3
<1>7. \A t \in Task : TaskFits(t)
    BY <1>3 DEF TaskFits, NoTask
<1>8. QED
    BY <1>5, <1>6, <1>7 DEF BoundInv, Capped

\* The three invariants of balances together.
BalanceInv == BoundInv /\ CreditInv /\ TransfersInv

\* Every step keeps the types: what is credited has no more than is owed, in
\* the runs without transfers because no credit is applied twice and in the
\* others because memory is as it should be.
LEMMA BoundStep ==
    ASSUME IsFiniteSet(Api), ModesAreSeparate
    PROVE  BalanceInv /\ [Next]_vars => BoundInv'
<1> SUFFICES ASSUME BalanceInv, [Next]_vars
             PROVE  BoundInv'
    OBVIOUS
<1>o. BoundInv /\ CreditInv /\ TransfersInv /\ ObjectsInv
    BY DEF BalanceInv, CreditInv
<1>m. (~mode.transfers /\ Credits) \/ (Undisturbed /\ Transfers)
    <2>1. mode \in Modes
        BY <1>o DEF BoundInv, TypeOK
    <2>2. ~mode.transfers \/ Undisturbed
        BY <2>1 DEF ModesAreSeparate, Undisturbed
    <2>3. ASSUME ~mode.transfers PROVE Credits
        BY <1>o, <2>3, Zenon DEF CreditInv
    <2>4. ASSUME Undisturbed PROVE Transfers
        BY <1>o, <2>4, Zenon DEF TransfersInv
    <2>5. QED
        BY <2>2, <2>3, <2>4
<1>1. CASE UNCHANGED vars
    <2>1. /\ UNCHANGED <<stateVars, heap, phase, task, mode, owed, inBlock>>
        BY <1>1 DEF vars
    <2>2. TypeOK'
        BY <1>o, <2>1 DEF BoundInv, TypeOK, StateTypeOK, stateVars
    <2>3. \A u \in Task : TaskFits(u)'
        BY <1>o, <2>1 DEF BoundInv, TaskFits
    <2>4. Capped'
        BY <1>o, <2>1 DEF BoundInv, Capped, Pending
    <2>5. QED
        BY <2>2, <2>3, <2>4 DEF BoundInv
<1>2. CASE Step /\ UNCHANGED mode
    <2> USE <1>2
    <2>1. ASSUME LoopStep
          PROVE  BoundInv'
        <3>1. RejectBlock \/ SaveFails => \A a \in Addr : inBlock[a] = 0
            BY <1>m DEF RejectBlock, SaveFails, Undisturbed, Credits
        <3>2. QED
            BY <1>o, <2>1, <3>1, LoopIsBounded
    <2>2. ASSUME NEW t \in Task, Obtain(t)
          PROVE  BoundInv'
        BY <1>o, <2>2, ObtainIsBounded
    <2>3. ASSUME NEW t \in Task, Change(t)
          PROVE  BoundInv'
        <3>1. /\ task[t].step = "held" /\ task[t].addr \in Addr
              /\ task[t].ref \in Object
              /\ Refers(task[t].addr, task[t].ref)
            BY <1>o, <2>3, MarksAssumption
               DEF Change, ObjectsInv, TaskOK, Refers
        <3>2. heap[task[t].ref] <= owed[task[t].addr]
            <4>1. CASE Credits
                BY <3>1, <4>1 DEF Credits
            <4>2. CASE Transfers
                <5>1. t = Producer
                    BY <3>1, <4>2 DEF Transfers, Quiet, Task
                <5>2. /\ task[t].ref = Lookup(task[t].addr)
                      /\ task[t].ref # NoEntry
                    BY <3>1, <4>2, <5>1, MarksAssumption
                       DEF Transfers, TransferOK
                <5>3. heap[task[t].ref] = owed[task[t].addr]
                    BY <3>1, <4>2, <5>2
                       DEF Transfers, MemoryIsOwed, Lookup, Journalled
                <5>4. owed[task[t].addr] \in Int
                    BY <1>o, <3>1 DEF ObjectsInv
                <5>5. QED
                    BY <5>3, <5>4
            <4>3. QED
                BY <1>m, <4>1, <4>2
        <3>3. QED
            BY <1>o, <2>3, <3>2, ChangeIsBounded
    <2>4. ASSUME NEW t \in Task, SeekRecipient(t)
          PROVE  BoundInv'
        <3> DEFINE a == task[t].credit
        <3>1. a \in Addr /\ task[t].step = "credit"
            BY <1>o, <2>4 DEF SeekRecipient, ObjectsInv, TaskOK
        <3>2. Asks(t, a, 1, NoEntry)
            BY <2>4, WhoAsks
        <3>3. Pending(a) \cup {t} = Pending(a)
            BY DEF Pending
        <3>4. owed[a] + Cardinality(Pending(a) \cup {t}) <= MaxBalance
            BY <1>o, <3>1, <3>3 DEF BoundInv, Capped
        <3>5. NoEntry \notin Addr
            BY MarksAssumption
        <3> HIDE DEF a, Asks
        <3>6. \A x \in Addr : x = NoEntry \/ (x = a /\ 1 = 1) =>
                  owed[x] + Cardinality(Pending(x) \cup {t}) <= MaxBalance
            BY <3>4, <3>5
        <3>7. QED
            BY <1>o, <3>1, <3>2, <3>6, AsksIsBounded
    <2>5. ASSUME NEW from \in Addr, NEW to \in Addr, Transfer(from, to)
          PROVE  BoundInv'
        <3>1. Producer \in Task
            BY DEF Task
        <3>2. Seek(Producer, from, -1, to) /\ RoomFor(to)
            BY <2>5 DEF Transfer
        <3>3. QED
            BY <1>o, <3>1, <3>2, SeekIsBounded
    <2>6. ASSUME NEW t \in Task, NEW a \in Addr, Seek(t, a, 1, NoEntry),
                 RoomFor(a)
          PROVE  BoundInv'
        BY <1>o, <2>6, SeekIsBounded
    <2>7. ASSUME NEW a \in Addr, Reward(a)
          PROVE  BoundInv'
        BY <2>6, <2>7 DEF Reward, Task
    <2>8. ASSUME NEW t \in Api, NEW a \in Addr, AddBalanceRequest(t, a)
          PROVE  BoundInv'
        BY <2>6, <2>8 DEF AddBalanceRequest, Task
    <2>9. QED
        BY <2>1, <2>2, <2>3, <2>4, <2>5, <2>7, <2>8 DEF Step, LoopStep
<1>3. QED
    BY <1>1, <1>2 DEF Next

\* No balance, in an object, on its way or on disk, is ever negative or more
\* than the bound that RoomFor puts on what an account is owed, and every
\* variable has its type.
THEOREM AccountsAreTyped ==
    ASSUME IsFiniteSet(Api), ModesAreSeparate
    PROVE  Spec => []TypeOK
<1>1. Init => BalanceInv
    BY BoundInit, CreditInit, TransfersInit DEF BalanceInv
<1>2. BalanceInv /\ [Next]_vars => BalanceInv'
    BY BoundStep, CreditStep, TransfersStep DEF BalanceInv
<1>3. BalanceInv => TypeOK
    BY DEF BalanceInv, BoundInv
<1>4. QED
    BY <1>1, <1>2, <1>3, PTL DEF Spec
=============================================================================
