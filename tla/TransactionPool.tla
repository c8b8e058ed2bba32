-------------------------- MODULE TransactionPool --------------------------
(***************************************************************************)
(* Transactions from submission to inclusion:                              *)
(* TransactionService.submitTransaction                                    *)
(* (src/src/transaction/transaction.service.ts), the pool                  *)
(* (src/src/transaction/pool/transaction.pool.ts) and                      *)
(* BlockService.createBlock (src/src/block/block.service.ts).              *)
(*                                                                         *)
(* A request checks and adds in several awaited steps; a block executes    *)
(* its snapshot of the pool one awaited transaction at a time.  The two    *)
(* meet only in the pool and in the account nonces.                        *)
(***************************************************************************)
EXTENDS Naturals, FiniteSets

CONSTANTS
    Tx,          \* signed transactions: [from, nonce, price, id]
    Sender,
    Client,      \* requests being served at once
    Modes,       \* what happens in a run of the node
    NoTx         \* stands for no transaction

ASSUME PoolAssumption ==
    /\ Tx \subseteq [from : Sender, nonce : Nat, price : Nat, id : Nat]
    /\ Modes \subseteq [overlap : BOOLEAN, rejects : BOOLEAN,
                  wallet : BOOLEAN]
    /\ NoTx \notin Tx

VARIABLES
    pending, queued,  \* the pool's two Maps
    nonce,            \* account nonces as getNonce finds them
    savedNonce,       \* account nonces of the last committed block
    phase,            \* "idle", "running", "promoting" or "created"
    batch,            \* snapshot of pending not yet executed
    toPromote,        \* senders of the block not yet gone through
    current,          \* the transaction runTx has finished, NoTx if none
    inBlock,          \* transactions of the block being made
    okInBlock,        \* those of them that succeeded
    request,          \* where each client's submitTransaction is
    mode,             \* whether requests overlap each other and the blocks,
                      \* blocks are rolled back, and the node's own wallet
                      \* makes the requests (Wallet)
    okSettled         \* transactions of committed blocks that succeeded

poolVars == <<pending, queued>>
blockVars == <<phase, batch, toPromote, current, inBlock, okInBlock>>
chainVars == <<okSettled, savedNonce>>
vars == <<poolVars, nonce, blockVars, request, mode, chainVars>>

NoRequest == [step |-> "none", tx |-> NoTx, nonce |-> 0]

Pool == pending \cup queued

Init ==
    /\ pending = {} /\ queued = {}
    /\ nonce = [s \in Sender |-> 0]
    /\ savedNonce = nonce
    /\ phase = "idle"
    /\ batch = {} /\ toPromote = {} /\ current = NoTx
    /\ inBlock = {} /\ okInBlock = {}
    /\ request = [c \in Client |-> NoRequest]
    /\ mode \in Modes
    /\ okSettled = {}

-----------------------------------------------------------------------------
(* The pool *)

\* Mutation: every transaction is pending.
AddPending(tx, accountNonce) ==
    /\ tx \notin Pool
    /\ tx.nonce >= accountNonce
    /\ pending' = pending \cup {tx}
    /\ UNCHANGED queued

\* TransactionPool.add; a hash that is known or a nonce that is used is
\* refused.
Add(tx, accountNonce) ==
    /\ tx \notin Pool
    /\ tx.nonce >= accountNonce
    /\ IF tx.nonce = accountNonce
       THEN pending' = pending \cup {tx} /\ UNCHANGED queued
       ELSE queued' = queued \cup {tx} /\ UNCHANGED pending

\* Mutation: the other transactions of the sender go too.
RemoveSender(tx) ==
    /\ pending' = {t \in pending : t.from # tx.from}
    /\ queued' = {t \in queued : t.from # tx.from}

Remove(tx) ==
    /\ pending' = pending \ {tx}
    /\ queued' = IF tx \in pending THEN queued ELSE queued \ {tx}

\* Mutation: a promoted transaction stays queued.
PromoteCopy(s, newNonce) ==
    /\ pending' = pending \cup
            {tx \in queued : tx.from = s /\ tx.nonce = newNonce}
    /\ UNCHANGED queued

\* Mutation: the account nonce is taken for that of the last transaction.
PromoteOneLater(s, newNonce) ==
    LET ready == {tx \in queued : tx.from = s /\ tx.nonce = newNonce + 1}
    IN  /\ queued' = queued \ ready
        /\ pending' = pending \cup ready

PromoteQueuedToPending(s, newNonce) ==
    LET ready == {tx \in queued : tx.from = s /\ tx.nonce = newNonce}
    IN  /\ queued' = queued \ ready
        /\ pending' = pending \cup ready

\* The order of getPending.  At one price, transactions of one sender compare
\* by nonce and those of two by hash; the comparison is not transitive, so
\* with two senders at a price the order at that price is left open.
Precedes(txs, t, u) ==
    \/ t.price > u.price
    \/ /\ t.nonce < u.nonce
       /\ \A v \in txs : v.price = u.price => v.from = u.from
       /\ t.price = u.price

-----------------------------------------------------------------------------
(* submitTransaction *)

Idle == \A c \in Client : request[c] = NoRequest

\* The signature is good and validateNonce asks for the account nonce.
Submit(c, tx) ==
    /\ request[c] = NoRequest
    /\ mode.overlap \/ (Idle /\ phase = "idle")
    /\ request' = [request EXCEPT ![c] =
            [step |-> "nonce", tx |-> tx, nonce |-> nonce[tx.from]]]
    /\ UNCHANGED <<poolVars, nonce, blockVars, chainVars>>

\* Mutation: the pool is not looked through.
ValidateNonceAlone(c) ==
    LET q == request[c]
    IN  /\ q.step = "nonce"
        /\ request' = [request EXCEPT ![c] =
                IF q.tx.nonce >= q.nonce THEN [q EXCEPT !.step = "balance"]
                                         ELSE NoRequest]
        /\ UNCHANGED <<poolVars, nonce, blockVars, chainVars>>

\* validateNonce goes on with the nonce it was given: too old or already in
\* the pool ends the request.
ValidateNonce(c) ==
    LET q == request[c]
        good == /\ q.tx.nonce >= q.nonce
                /\ \A t \in Pool : ~(t.from = q.tx.from /\ t.nonce = q.tx.nonce)
    IN  /\ q.step = "nonce"
        /\ request' = [request EXCEPT ![c] =
                IF good THEN [q EXCEPT !.step = "balance"] ELSE NoRequest]
        /\ UNCHANGED <<poolVars, nonce, blockVars, chainVars>>

\* The balance suffices, and the account nonce is asked for once more; or it
\* does not.
ValidateBalance(c) ==
    LET q == request[c]
    IN  /\ q.step = "balance"
        /\ \E good \in BOOLEAN :
              request' = [request EXCEPT ![c] =
                  IF good THEN [q EXCEPT !.step = "add",
                                         !.nonce = nonce[q.tx.from]]
                          ELSE NoRequest]
        /\ UNCHANGED <<poolVars, nonce, blockVars, chainVars>>

\* The pool takes the transaction, or refuses it and the request fails.
AddToPool(c) ==
    LET q == request[c]
    IN  /\ q.step = "add"
        /\ request' = [request EXCEPT ![c] = NoRequest]
        /\ \/ Add(q.tx, q.nonce)
           \/ /\ q.tx \in Pool \/ q.tx.nonce < q.nonce
              /\ UNCHANGED poolVars
        /\ UNCHANGED <<nonce, blockVars, chainVars>>

-----------------------------------------------------------------------------
(* createBlock and what produceBlock does with the block *)

\* Mutation: the snapshot is taken of the wrong Map.
TakeQueued ==
    /\ phase = "idle"
    /\ mode.overlap \/ Idle
    /\ phase' = "running"
    /\ batch' = queued
    /\ inBlock' = {} /\ okInBlock' = {}
    /\ UNCHANGED <<poolVars, nonce, toPromote, current, request, chainVars>>

\* createBlock takes its snapshot of the pool.
TakePending ==
    /\ phase = "idle"
    /\ mode.overlap \/ Idle
    /\ phase' = "running"
    /\ batch' = pending
    /\ inBlock' = {} /\ okInBlock' = {}
    /\ UNCHANGED <<poolVars, nonce, toPromote, current, request, chainVars>>

\* Mutation: the EVM skips the nonce.
RunTxAnyNonce(tx) ==
    /\ phase = "running"
    /\ current = NoTx
    /\ tx \in batch
    /\ \A t \in batch : ~Precedes(batch, t, tx)
    /\ nonce' = [nonce EXCEPT ![tx.from] = @ + 1]
    /\ okInBlock' = okInBlock \cup {tx}
    /\ current' = tx
    /\ batch' = batch \ {tx}
    /\ UNCHANGED <<poolVars, phase, toPromote, inBlock, request, chainVars>>

\* runTx: the nonce must be the account's, and then grows; a transaction with
\* another nonce, or one the EVM refuses for another reason, changes nothing.
RunTx(tx) ==
    /\ phase = "running"
    /\ current = NoTx
    /\ tx \in batch
    /\ \A t \in batch : ~Precedes(batch, t, tx)
    /\ \/ /\ tx.nonce = nonce[tx.from]
          /\ nonce' = [nonce EXCEPT ![tx.from] = @ + 1]
          /\ okInBlock' = okInBlock \cup {tx}
       \/ UNCHANGED <<nonce, okInBlock>>
    /\ current' = tx
    /\ batch' = batch \ {tx}
    /\ UNCHANGED <<poolVars, phase, toPromote, inBlock, request, chainVars>>

\* Whatever came of it, the transaction is in the block and out of the pool.
IncludeTx ==
    /\ current # NoTx
    /\ inBlock' = inBlock \cup {current}
    /\ Remove(current)
    /\ current' = NoTx
    /\ UNCHANGED <<nonce, phase, batch, toPromote, okInBlock, request,
                   chainVars>>

\* Every transaction is done; the senders of the block are next.
AllExecuted ==
    /\ phase = "running"
    /\ batch = {} /\ current = NoTx
    /\ phase' = "promoting"
    /\ toPromote' = {tx.from : tx \in inBlock}
    /\ UNCHANGED <<poolVars, nonce, batch, current, inBlock, okInBlock, request,
                   chainVars>>

PromoteNext(s) ==
    /\ phase = "promoting"
    /\ s \in toPromote
    /\ PromoteQueuedToPending(s, nonce[s])
    /\ toPromote' = toPromote \ {s}
    /\ UNCHANGED <<nonce, phase, batch, current, inBlock, okInBlock, request,
                   chainVars>>

BlockCreated ==
    /\ phase = "promoting"
    /\ toPromote = {}
    /\ phase' = "created"
    /\ UNCHANGED <<poolVars, nonce, batch, toPromote, current, inBlock, okInBlock,
                   request, chainVars>>

CommitBlock ==
    /\ phase = "created"
    /\ phase' = "idle"
    /\ savedNonce' = nonce
    /\ okSettled' = okSettled \cup okInBlock
    /\ inBlock' = {} /\ okInBlock' = {}
    /\ UNCHANGED <<poolVars, nonce, batch, toPromote, current, request>>

\* A step of produceBlock after the executions fails, or the attestations are
\* too few; commitBlock itself is taken to save all the accounts or none.
RejectBlock ==
    /\ mode.rejects
    /\ phase # "idle"
    /\ batch = {} /\ current = NoTx
    /\ phase' = "idle"
    /\ toPromote' = {}
    /\ nonce' = savedNonce
    /\ inBlock' = {} /\ okInBlock' = {}
    /\ UNCHANGED <<poolVars, batch, current, request, chainVars>>

BlockStep ==
    \/ TakePending
    \/ \E tx \in Tx : RunTx(tx)
    \/ IncludeTx
    \/ AllExecuted
    \/ \E s \in Sender : PromoteNext(s)
    \/ BlockCreated
    \/ CommitBlock
    \/ RejectBlock

RequestStep(c) ==
    \/ \E tx \in Tx : Submit(c, tx)
    \/ ValidateNonce(c)
    \/ ValidateBalance(c)
    \/ AddToPool(c)

Step == BlockStep \/ \E c \in Client : RequestStep(c)

Next == Step /\ UNCHANGED mode

Spec == Init /\ [][Next]_vars

\* scheduleNextBlock sets the timer again whatever became of the last block,
\* and every awaited step of a block is answered.
FairSpec == Spec /\ WF_vars(BlockStep /\ UNCHANGED mode)

-----------------------------------------------------------------------------
(* Properties *)

TypeOK ==
    /\ pending \subseteq Tx /\ queued \subseteq Tx
    /\ pending \cap queued = {}
    /\ nonce \in [Sender -> Nat] /\ savedNonce \in [Sender -> Nat]
    /\ phase \in {"idle", "running", "promoting", "created"}
    /\ batch \subseteq Tx /\ toPromote \subseteq Sender
    /\ current \in Tx \cup {NoTx}
    /\ okInBlock \subseteq Tx \cap (inBlock \cup {current})
    /\ inBlock \subseteq Tx
    /\ request \in [Client -> [step : {"none", "nonce", "balance", "add"},
                               tx : Tx \cup {NoTx}, nonce : Nat]]
    /\ mode \in Modes
    /\ okSettled \subseteq Tx

\* Requests that come one at a time between blocks that are all kept.
Orderly == ~mode.overlap /\ ~mode.rejects

\* When all is orderly, between blocks a pending transaction is the next one
\* of its sender: it will not be wasted on a block that can only fail it.
PendingIsNext ==
    Orderly /\ phase = "idle" =>
        \A tx \in pending : tx.nonce = nonce[tx.from]

\* When all is orderly, between blocks a queued transaction waits for an
\* earlier one: none whose turn has come is left where no later block looks.
QueuedIsAhead ==
    Orderly /\ phase = "idle" =>
        \A tx \in queued : tx.nonce > nonce[tx.from]

\* The pool never holds two transactions of one sender with one nonce.
OneTxPerNonce ==
    \A t, u \in Pool : t.from = u.from /\ t.nonce = u.nonce => t = u

\* It does not when requests come one at a time, even if blocks are rolled
\* back and their transactions are sent again.
OneTxPerNonceInTurn == ~mode.overlap => OneTxPerNonce

\* The transactions of a sender that succeeded, in committed blocks and in
\* the one being made, have the nonces from 0 up, each once, and the account
\* nonce counts them: no interleaving of requests, duplicates, promotions and
\* rejected blocks executes a transaction twice or out of order.
SuccessesAreConsecutive ==
    \A s \in Sender :
        LET ok == {tx \in okSettled \cup okInBlock : tx.from = s}
        IN  /\ {tx.nonce : tx \in ok} = {n \in 0..nonce[s] : n < nonce[s]}
            /\ Cardinality(ok) = nonce[s]

\* An accepted transaction, pending or queued, stays in the pool until a
\* block has it: promotion, the removal of others and rejected requests lose
\* none.
LeavesForABlock ==
    [][\A tx \in Pool : tx \in Pool' \/ tx \in inBlock']_vars

\* A block takes up every pending transaction sooner or later, whatever
\* requests come meanwhile and whatever blocks are rolled back.
PendingIsTaken ==
    \A tx \in Tx : (mode.overlap /\ tx \in pending) ~> (tx \in inBlock)
=============================================================================
