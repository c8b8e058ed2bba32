-------------------------- MODULE AccountService ---------------------------
(***************************************************************************)
(* The callers that change an Account in place:                            *)
(* src/src/account/account.service.ts over StateManager.  getAccount hands *)
(* out the very object the cache or the journal holds; addBalance and      *)
(* subtractBalance change it and only then call setAccount.                *)
(*                                                                         *)
(* The block producer transfers inside a block (the path of                *)
(* BlockService.executeTransaction without a VM) and pays rewards after it *)
(* (BlockProducer.distributeRewards); POST add-balance credits an account  *)
(* whenever it likes.  A balance is all that is kept of an account.        *)
(***************************************************************************)
EXTENDS StateManager, Integers, FiniteSets

CONSTANTS
    Producer,      \* the task that runs the block loop
    Api,           \* tasks of API requests
    MaxBalance,    \* bound: no account has or is owed more than this
    MaxAccounts,   \* bound: Account objects alive at once
    Modes          \* what happens in a run of the node

Task == {Producer} \cup Api

ASSUME AccountServiceAssumption ==
    /\ {MaxBalance, MaxAccounts} \subseteq Nat
    /\ Object = 1..MaxAccounts
    /\ Value = 0..MaxBalance
    /\ NoAccount \notin Nat
    /\ Reader = Task
    /\ Producer \notin Api
    /\ Modes \subseteq [transfers : BOOLEAN, rejects : BOOLEAN,
                       rewards : BOOLEAN, requests : BOOLEAN,
                       failures : BOOLEAN]

VARIABLES
    heap,          \* the balance in each Account object
    phase,         \* "idle", "block", "saving" or "paying"
    task,          \* what each task is doing
    mode,          \* whether blocks have transfers, blocks are rolled back,
                   \* rewards are paid, requests credit accounts and LevelDB
                   \* fails
    owed,          \* history: the balance each account should have
    inBlock        \* history: what the open block's transfers changed

vars == <<stateVars, heap, phase, task, mode, owed, inBlock>>
history == <<owed, inBlock>>

\* credit: the account that is still to be credited, NoEntry if none;
\* addr, ref: the account at hand and the object it is held by.
NoTask == [step |-> "done", addr |-> NoEntry, ref |-> NoEntry,
           change |-> 0, credit |-> NoEntry]

Held(v) == IF v = NoAccount THEN 0 ELSE v

\* Objects some Map or some waiting task refers to; the others are garbage.
Live ==
    {journalStack[i][a] : i \in DOMAIN journalStack, a \in Addr}
        \cup {cache[a] : a \in Addr}
        \cup {unsaved[a] : a \in Addr}
        \cup {task[t].ref : t \in Task}

\* Mutation: one object stands for every new account.
NewShared == CHOOSE o \in Object : \A p \in Object : o <= p

\* The object that the repository makes of what it read.
New == CHOOSE o \in Object : o \notin Live /\ \A p \in Object \ Live : o <= p

Init ==
    /\ StateInit
    /\ heap = [o \in Object |-> 0]
    /\ phase = "idle"
    /\ task = [t \in Task |-> NoTask]
    /\ mode \in Modes
    /\ owed = [a \in Addr |-> Held(repo[a])]
    /\ inBlock = [a \in Addr |-> 0]

\* The bound on balances, kept where a credit begins.
RoomFor(a) ==
    owed[a] + Cardinality({t \in Task : a \in {task[t].addr, task[t].credit}})
        < MaxBalance

-----------------------------------------------------------------------------
(* getOrCreateAccount and the change that follows it *)

\* A task starts on an account: the object is at hand, or it is fetched.
Seek(t, a, change, credit) ==
    /\ task[t].step = "done"
    /\ \/ /\ Lookup(a) # NoEntry
          /\ task' = [task EXCEPT ![t] =
                [step |-> "held", addr |-> a, ref |-> Lookup(a),
                 change |-> change, credit |-> credit]]
          /\ UNCHANGED stateVars
       \/ /\ \E fails \in {FALSE, mode.failures} : Fetch(t, a, fails)
          /\ task' = [task EXCEPT ![t] =
                [step |-> "fetching", addr |-> a, ref |-> NoEntry,
                 change |-> change, credit |-> credit]]
    /\ UNCHANGED <<heap, phase, history>>

\* The repository answers.  An account it does not have is created on the
\* spot and set.
Obtain(t) ==
    /\ task[t].step = "fetching"
    /\ Object \ Live # {}
    /\ FetchDone(t, New)
    /\ heap' = [heap EXCEPT ![New] = Held(fetch[t].value)]
    /\ task' = [task EXCEPT ![t].step = "held", ![t].ref = New]
    /\ IF fetch[t].value = NoAccount
       THEN SetAccount(task[t].addr, New)
       ELSE UNCHANGED journalStack
    /\ UNCHANGED <<repo, unsaved, save, phase, history>>

\* Mutation: a balance is not compared with what is taken from it.
AlwaysSufficient(obj, change) == TRUE

\* Account.subtractBalance throws when the balance is too low.
Sufficient(obj, change) == heap[obj] + change >= 0

\* Account.addBalance or Account.subtractBalance on the object held, then
\* setAccount.  Too low a balance is an error and ends the task there.
Change(t) ==
    LET k == task[t]
        done == [task EXCEPT ![t] = NoTask]
    IN  /\ k.step = "held"
        /\ \/ /\ ~Sufficient(k.ref, k.change)
              /\ task' = done
              /\ UNCHANGED <<stateVars, heap, history>>
           \/ /\ Sufficient(k.ref, k.change)
              /\ heap' = [heap EXCEPT ![k.ref] = @ + k.change]
              /\ SetAccount(k.addr, k.ref)
              /\ owed' = [owed EXCEPT ![k.addr] = @ + k.change]
              /\ inBlock' = IF t = Producer /\ phase = "block"
                            THEN [inBlock EXCEPT ![k.addr] = @ + k.change]
                            ELSE inBlock
              /\ task' = IF k.credit = NoEntry THEN done
                         ELSE [done EXCEPT ![t].step = "credit",
                                           ![t].credit = k.credit]
              /\ UNCHANGED <<cache, cacheKeys, repo, fetch, unsaved, save>>
        /\ UNCHANGED phase

\* transfer awaited subtractBalance and goes on to addBalance.
SeekRecipient(t) ==
    LET a == task[t].credit
    IN  /\ task[t].step = "credit"
        /\ \/ /\ Lookup(a) # NoEntry
              /\ task' = [task EXCEPT ![t] =
                    [step |-> "held", addr |-> a, ref |-> Lookup(a),
                     change |-> 1, credit |-> NoEntry]]
              /\ UNCHANGED stateVars
           \/ /\ \E fails \in {FALSE, mode.failures} : Fetch(t, a, fails)
              /\ task' = [task EXCEPT ![t] =
                    [step |-> "fetching", addr |-> a, ref |-> NoEntry,
                     change |-> 1, credit |-> NoEntry]]
        /\ UNCHANGED <<heap, phase, history>>

Quiet(t) == task[t].step = "done"

-----------------------------------------------------------------------------
(* The block loop; it awaits each of its steps *)

BeginBlock ==
    /\ phase = "idle"
    /\ Quiet(Producer)
    /\ StartBlock
    /\ phase' = "block"
    /\ inBlock' = [a \in Addr |-> 0]
    /\ UNCHANGED <<cache, cacheKeys, repo, fetch, unsaved, save, heap, task,
                   owed>>

Transfer(from, to) ==
    /\ mode.transfers
    /\ phase = "block"
    /\ from # to
    /\ RoomFor(to)
    /\ Seek(Producer, from, -1, to)

\* What the block's transfers changed is as if it had not been.
Forgotten == [a \in Addr |-> owed[a] - inBlock[a]]

\* A step of produceBlock fails, or the attestations are too few.
RejectBlock ==
    /\ mode.rejects
    /\ phase = "block"
    /\ Quiet(Producer)
    /\ RollbackBlock
    /\ phase' = "idle"
    /\ owed' = Forgotten
    /\ UNCHANGED <<cache, cacheKeys, repo, fetch, unsaved, save, heap, task,
                   inBlock>>

BeginCommit ==
    /\ phase = "block"
    /\ Quiet(Producer)
    /\ CommitStart
    /\ phase' = "saving"
    /\ UNCHANGED <<heap, task, history>>

\* What is written is what the object holds when saveAccount is called.
SaveAccount(a) ==
    /\ phase = "saving"
    /\ unsaved[a] # NoEntry
    /\ Encode(a, heap[unsaved[a]])
    /\ UNCHANGED <<heap, phase, task, history>>

AccountPersisted ==
    /\ phase = "saving"
    /\ Persist
    /\ UNCHANGED <<heap, phase, task, history>>

AccountSaved ==
    /\ phase = "saving"
    /\ SaveDone
    /\ UNCHANGED <<heap, phase, task, history>>

EndCommit ==
    /\ phase = "saving"
    /\ CommitEnd
    /\ phase' = IF mode.rewards THEN "paying" ELSE "idle"
    /\ UNCHANGED <<heap, task, history>>

\* saveAccount throws.
SaveFails ==
    /\ mode.failures
    /\ phase = "saving"
    /\ CommitFails
    /\ phase' = "idle"
    /\ owed' = Forgotten
    /\ UNCHANGED <<heap, task, inBlock>>

\* distributeRewards, after commitBlock and saveBlock.
Reward(a) ==
    /\ phase = "paying"
    /\ RoomFor(a)
    /\ Seek(Producer, a, 1, NoEntry)

RewardsPaid ==
    /\ phase = "paying"
    /\ Quiet(Producer)
    /\ phase' = "idle"
    /\ UNCHANGED <<stateVars, heap, task, history>>

AddBalanceRequest(t, a) ==
    /\ mode.requests
    /\ RoomFor(a)
    /\ Seek(t, a, 1, NoEntry)

Step ==
    \/ BeginBlock
    \/ \E from, to \in Addr : Transfer(from, to)
    \/ \E t \in Task : Obtain(t) \/ Change(t) \/ SeekRecipient(t)
    \/ RejectBlock
    \/ BeginCommit
    \/ \E a \in Addr : SaveAccount(a)
    \/ AccountPersisted
    \/ AccountSaved
    \/ EndCommit
    \/ SaveFails
    \/ \E a \in Addr : Reward(a)
    \/ RewardsPaid
    \/ \E t \in Api, a \in Addr : AddBalanceRequest(t, a)

Next == Step /\ UNCHANGED mode

Spec == Init /\ [][Next]_vars

-----------------------------------------------------------------------------
(* Properties *)

TypeOK ==
    /\ StateTypeOK
    /\ heap \in [Object -> Value]
    /\ phase \in {"idle", "block", "saving", "paying"}
    /\ task \in [Task -> [step : {"done", "fetching", "held", "credit"},
                          addr : Addr \cup {NoEntry},
                          ref : Object \cup {NoEntry},
                          change : {-1, 0, 1},
                          credit : Addr \cup {NoEntry}]]
    /\ mode \in Modes
    /\ owed \in [Addr -> Int]
    /\ inBlock \in [Addr -> Int]

\* The balance a caller would find for an account now.
Balance(a) == IF Lookup(a) # NoEntry THEN heap[Lookup(a)] ELSE Held(repo[a])

AllQuiet == \A t \in Task : Quiet(t)

\* Blocks of transfers that are all kept, with nobody else at work.
Undisturbed ==
    ~mode.rejects /\ ~mode.rewards /\ ~mode.requests /\ ~mode.failures

\* Between undisturbed blocks every account has what the transfers say: a
\* transfer took effect on both sides, also when the recipient's account was
\* evicted, created or fetched meanwhile.
BalancesAreOwed ==
    Undisturbed /\ phase = "idle" /\ AllQuiet =>
        \A a \in Addr : Balance(a) = owed[a]

\* Without transfers no interleaving of credits makes an account richer than
\* its credits: none is applied twice, in memory or in the repository,
\* whatever blocks are rejected, whatever is evicted and whatever LevelDB
\* fails to do meanwhile.
NoCreditTwice ==
    ~mode.transfers =>
        \A a \in Addr : Balance(a) <= owed[a] /\ Held(repo[a]) <= owed[a]

RepositoryIsOwed == \A a \in Addr : Held(repo'[a]) = owed[a]

\* When an undisturbed block is committed the repository has every account as
\* the transfers up to then left it.
CommitSavesTransfers ==
    [][Undisturbed /\ EndCommit => RepositoryIsOwed]_vars

\* The same with rewards: those paid before a block are in the repository
\* when the block is committed.
CommitSavesWhatIsOwed == [][EndCommit /\ AllQuiet => RepositoryIsOwed]_vars
=============================================================================
