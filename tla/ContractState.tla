---------------------------- MODULE ContractState ----------------------------
(***************************************************************************)
(* Contract code and storage: CustomStateManager (src/src/state/           *)
(* custom-state-manager.ts), which the EVM calls while BlockExecution      *)
(* executes a block.                                                       *)
(*                                                                         *)
(* Accounts go through the journal of StateManager and are undone with it. *)
(* Code, the code hash by address and storage slots are put in LevelDB at  *)
(* once and are never undone.  An account here is its nonce and its code   *)
(* hash; a code stands for its hash.  putContractCode changes the Account  *)
(* it finds in place, but the one it finds is the one that creating the    *)
(* contract has put in the frame, so its value is enough.  The storage     *)
(* root, which nothing reads back, is left out.                            *)
(***************************************************************************)
EXTENDS BlockExecution

CONSTANTS
    Code,       \* runtime bytecodes
    Slot,       \* values of a contract's one slot
    NoCode      \* EMPTY_HASH, no key and empty code alike

EmptyAccount == [nonce |-> 0, code |-> NoCode]

ASSUME ContractAssumption ==
    /\ NoCode \notin Code
    /\ Value = [nonce : {0, 1}, code : Code \cup {NoCode}]

VARIABLES
    codeStore,      \* kv: the hashes with a code:<hash> key
    accountCode,    \* kv: account_codehash:<address>
    slots,          \* kv: storage:<address>:<slot>
    evm,            \* the call of putCode or putStorage that is awaited
    creating,       \* the contract whose constructor runs, and its frame
    codeOf,         \* history: the code put last for an address
    written,        \* history: slots as each open frame sees them
    spoiled         \* history: contracts some of whose writes were undone

kv == <<codeStore, accountCode, slots>>
contractHistory == <<codeOf, written, spoiled>>
contractVars == <<kv, evm, creating, contractHistory>>
allVars == <<vars, contractVars>>

Ready == [step |-> "ready", addr |-> NoEntry, code |-> NoCode]
NotCreating == [addr |-> NoEntry, frame |-> 0]

NoSlots == [a \in Addr |-> 0]

Seen == written[Len(written)]

Drop(seq) == SubSeq(seq, 1, Len(seq) - 1)

\* The contracts that see other slots after a frame or a block is undone.
Undone(upTo) == {a \in Addr : Seen[a] # written[upTo][a]}

ContractInit ==
    /\ Init
    /\ repo = [a \in Addr |-> NoAccount]
    /\ codeStore = {}
    /\ accountCode = [a \in Addr |-> NoCode]
    /\ slots = NoSlots
    /\ evm = Ready
    /\ creating = NotCreating
    /\ codeOf = [a \in Addr |-> NoCode]
    /\ written = <<NoSlots>>
    /\ spoiled = {}

-----------------------------------------------------------------------------
(* Reading *)

\* CustomStateManager.getAccount: an account that is not there is empty.
GetAccount(a) ==
    IF Lookup(a) # NoEntry THEN Lookup(a)
    ELSE IF repo[a] = NoAccount THEN EmptyAccount ELSE repo[a]

\* The account needs no read that is still to be answered.
AtHand(a) == Lookup(a) # NoEntry \/ repo[a] = NoAccount

\* Mutation: the account's hash is all that is looked at.
GetCodeByAccount(a) ==
    IF GetAccount(a).code \in codeStore THEN GetAccount(a).code ELSE NoCode

\* By the account's hash, else by the hash that is kept for the address; the
\* keys code:addr:<address> are never put.
GetContractCode(a) ==
    IF GetAccount(a).code \in codeStore THEN GetAccount(a).code
    ELSE IF accountCode[a] \in codeStore THEN accountCode[a] ELSE NoCode

GetContractStorage(a) == slots[a]

-----------------------------------------------------------------------------
(* Writing; the EVM is in a frame and awaits one step after the other *)

Answered == evm = Ready /\ \A r \in Reader : fetch[r] = NoFetch

EvmReady == phase = "block" /\ frames > 0 /\ Answered

\* putAccount of a contract, when it is called or paid: toOurAccount makes a
\* new Account, without a code hash.
TouchAccount(a) ==
    /\ EvmReady
    /\ AtHand(a)
    /\ GetAccount(a).nonce = 1
    /\ SetAccount(a, [GetAccount(a) EXCEPT !.code = NoCode])
    /\ UNCHANGED <<cacheAndRepo, blockVars, contractVars>>

\* A contract is created where the account has neither a nonce nor a code
\* hash; clearStorage does nothing.
Create(a) ==
    /\ EvmReady
    /\ creating = NotCreating
    /\ AtHand(a)
    /\ GetAccount(a) = EmptyAccount
    /\ SetAccount(a, [nonce |-> 1, code |-> NoCode])
    /\ creating' = [addr |-> a, frame |-> frames]
    /\ UNCHANGED <<cacheAndRepo, blockVars, kv, evm, contractHistory>>

\* Mutation: the code is put under another key.
PutCodeElsewhere(c) ==
    /\ EvmReady
    /\ creating.addr # NoEntry /\ creating.frame = frames
    /\ evm' = [step |-> "code", addr |-> creating.addr, code |-> c]
    /\ UNCHANGED <<vars, kv, creating, contractHistory>>

\* The constructor has returned the code: putContractCode puts the code, ...
PutCode(c) ==
    /\ EvmReady
    /\ creating.addr # NoEntry /\ creating.frame = frames
    /\ codeStore' = codeStore \cup {c}
    /\ evm' = [step |-> "code", addr |-> creating.addr, code |-> c]
    /\ UNCHANGED <<vars, accountCode, slots, creating, contractHistory>>

\* ... the hash for the address, ...
PutCodeHash ==
    /\ evm.step = "code"
    /\ accountCode' = [accountCode EXCEPT ![evm.addr] = evm.code]
    /\ evm' = [evm EXCEPT !.step = "hash"]
    /\ UNCHANGED <<vars, codeStore, slots, creating, contractHistory>>

\* ... and the account.
PutCodeInAccount ==
    /\ evm.step = "hash"
    /\ AtHand(evm.addr)
    /\ SetAccount(evm.addr, [GetAccount(evm.addr) EXCEPT !.code = evm.code])
    /\ evm' = Ready
    /\ creating' = NotCreating
    /\ codeOf' = [codeOf EXCEPT ![evm.addr] = evm.code]
    /\ UNCHANGED <<cacheAndRepo, blockVars, kv, written, spoiled>>

\* Mutation: the key leaves the address out.
SlotKey(a) == Addr

\* storage:<address>:<slot>
StorageKey(a) == {a}

\* putContractStorage of a contract puts the slot; that the contract was
\* called or created has put its account in the journal ...
PutStorage(a, v) ==
    /\ EvmReady
    /\ Merged(journalStack)[a] # NoEntry
    /\ GetAccount(a).nonce = 1
    /\ slots' = [b \in Addr |-> IF b \in StorageKey(a) THEN v ELSE slots[b]]
    /\ written' = [written EXCEPT ![Len(written)][a] = v]
    /\ evm' = [step |-> "slot", addr |-> a, code |-> NoCode]
    /\ UNCHANGED <<vars, codeStore, accountCode, creating, codeOf, spoiled>>

\* ... and sets the account it finds.
SetStorageRoot ==
    /\ evm.step = "slot"
    /\ AtHand(evm.addr)
    /\ SetAccount(evm.addr, GetAccount(evm.addr))
    /\ evm' = Ready
    /\ UNCHANGED <<cacheAndRepo, blockVars, kv, creating, contractHistory>>

-----------------------------------------------------------------------------
(* The block and its frames *)

\* Steps that the frames' and the block's end leave to the EVM.
StartBlockStep ==
    /\ BeginBlock
    /\ written' = Append(written, Seen)
    /\ UNCHANGED <<kv, evm, creating, codeOf, spoiled>>

OpenStep ==
    /\ OpenFrame
    /\ Answered
    /\ written' = Append(written, Seen)
    /\ UNCHANGED <<kv, evm, creating, codeOf, spoiled>>

\* A frame that creates a contract ends with its code or is reverted.
CommitStep ==
    /\ CommitFrame
    /\ Answered
    /\ creating.frame # frames
    /\ written' = [Drop(written) EXCEPT ![Len(written) - 1] = Seen]
    /\ UNCHANGED <<kv, evm, creating, codeOf, spoiled>>

RevertStep ==
    /\ RevertFrame
    /\ Answered
    /\ creating' = IF creating.frame = frames THEN NotCreating ELSE creating
    /\ written' = Drop(written)
    /\ spoiled' = spoiled \cup Undone(Len(written) - 1)
    /\ UNCHANGED <<kv, evm, codeOf>>

EndStep ==
    /\ EndCommit
    /\ written' = <<Seen>>
    /\ UNCHANGED <<kv, evm, creating, codeOf, spoiled>>

\* The block is undone; what the EVM awaits has been answered.
AbandonStep ==
    /\ AbandonBlock
    /\ Answered
    /\ creating' = NotCreating
    /\ written' = <<written[1]>>
    /\ spoiled' = spoiled \cup Undone(1)
    /\ UNCHANGED <<kv, evm, codeOf>>

\* The process ends anywhere and is started again.  A commit in progress is
\* cut short: what it has saved stays.
Crash ==
    /\ journalStack' = <<>>
    /\ cache' = [a \in Addr |-> NoEntry]
    /\ cacheKeys' = <<>>
    /\ fetch' = [r \in Reader |-> NoFetch]
    /\ unsaved' = EmptyJournal
    /\ save' = NoSave
    /\ phase' = "idle" /\ frames' = 0
    /\ before' = NoAccounts
    /\ torn' = IF phase = "saving" THEN TRUE ELSE torn
    /\ evm' = Ready
    /\ creating' = NotCreating
    /\ written' = <<written[1]>>
    /\ spoiled' = spoiled \cup Undone(1)
    /\ late' = {}
    /\ UNCHANGED <<repo, kv, codeOf>>

\* The EVM's reads, commitBlock, which awaits nobody but LevelDB, and what
\* becomes of other accounts.
OtherStep ==
    /\ \/ EvmReady /\ \E r \in Reader, a \in Addr : ReadMiss(r, a)
       \/ \E r \in Reader : ReadReturns(r)
       \/ BeginCommit
       \/ \E a \in Addr : SaveAccount(a)
       \/ AccountPersisted
       \/ AccountSaved
       \/ OtherCached
       \/ OtherCredited
    /\ UNCHANGED contractVars

ContractNext ==
    \/ \E a \in Addr :
          \/ TouchAccount(a)
          \/ Create(a)
          \/ \E v \in Slot : PutStorage(a, v)
    \/ \E c \in Code : PutCode(c)
    \/ PutCodeHash
    \/ PutCodeInAccount
    \/ SetStorageRoot
    \/ StartBlockStep
    \/ OpenStep
    \/ CommitStep
    \/ RevertStep
    \/ EndStep
    \/ AbandonStep
    \/ Crash
    \/ OtherStep

ContractSpec == ContractInit /\ [][ContractNext]_allVars

-----------------------------------------------------------------------------
(* Properties *)

\* Every code hash that an account or an address has, in memory or on disk,
\* has its code on disk, wherever the process ended and whatever was undone.
CodeHashesResolve ==
    LET hashes == {accountCode[a] : a \in Addr}
                    \cup {repo[a].code : a \in {b \in Addr : repo[b] # NoAccount}}
                    \cup {cache[a].code : a \in {b \in Addr : cache[b] # NoEntry}}
                    \cup {Merged(journalStack)[a].code :
                             a \in {b \in Addr :
                                       Merged(journalStack)[b] # NoEntry}}
    IN  hashes \subseteq codeStore \cup {NoCode}

\* A contract whose creation has not been undone has the code that was put
\* for it, though every later change of its account drops the code hash, and
\* through undone creations at its address, eviction, rejected blocks and
\* restarts.
DeployedCodeIsFound ==
    \A a \in Addr :
        GetAccount(a).nonce = 1 /\ creating.addr # a =>
            GetContractCode(a) = codeOf[a]

\* A contract's slot reads as the frames that are kept have left it, unless
\* a write of that contract was undone: such writes stay.
StorageIsKept ==
    \A a \in Addr \ spoiled : GetContractStorage(a) = Seen[a]
=============================================================================
