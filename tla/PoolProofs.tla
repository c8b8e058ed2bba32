------------------------------ MODULE PoolProofs ------------------------------
(***************************************************************************)
(* Theorems about TransactionPool and Wallet, for every set of             *)
(* transactions, senders, requests at once and modes, with the node's      *)
(* wallet or without.                                                      *)
(***************************************************************************)
EXTENDS Wallet, CountingUp, TLAPS, FiniteSetTheorems

-----------------------------------------------------------------------------
(* Types *)

RequestType == [step : {"none", "nonce", "balance", "add"},
                tx : Tx \cup {NoTx}, nonce : Nat]

\* A request that is being served has a transaction; the block being made has
\* one if runTx is at work or done.
RequestsHaveTx ==
    \A c \in Client : request[c].step # "none" => request[c].tx \in Tx

TypeInv == TypeOK /\ RequestsHaveTx

\* The fields of a transaction.
LEMMA TxType ==
    ASSUME NEW tx \in Tx
    PROVE  tx.from \in Sender /\ tx.nonce \in Nat /\ tx.price \in Nat
           /\ tx # NoTx
BY PoolAssumption

\* The node starts with everything empty.
LEMMA TypeStart == Init => TypeInv
BY DEF Init, TypeInv, TypeOK, RequestsHaveTx, NoRequest

\* A request keeps the types, whatever it finds.
LEMMA TypeRequest ==
    ASSUME TypeInv, NEW c \in Client, RequestStep(c), UNCHANGED mode
    PROVE  TypeInv'
<1> USE DEF TypeInv, TypeOK, RequestsHaveTx, poolVars, blockVars, chainVars
<1>1. ASSUME NEW q \in RequestType,
             request' = [request EXCEPT ![c] = q],
             q.step # "none" => q.tx \in Tx
      PROVE  request' \in [Client -> RequestType] /\ RequestsHaveTx'
    BY <1>1 DEF RequestType
<1>2. ASSUME NEW tx \in Tx, Submit(c, tx)
      PROVE  TypeInv'
  <2> DEFINE q == [step |-> "nonce", tx |-> tx, nonce |-> nonce[tx.from]]
  <2>1. q \in RequestType
    BY TxType DEF RequestType
  <2>2. request' \in [Client -> RequestType] /\ RequestsHaveTx'
    BY <1>1, <1>2, <2>1 DEF Submit
  <2>3. QED
    BY <1>2, <2>2 DEF Submit, RequestType
<1>3. NoRequest \in RequestType
    BY DEF NoRequest, RequestType
<1> DEFINE q == request[c]
<1>4. q \in RequestType
    BY DEF RequestType
<1>5. CASE ValidateNonce(c)
  <2> DEFINE r == [q EXCEPT !.step = "balance"]
  <2>1. r \in RequestType /\ r.tx = q.tx /\ r.step = "balance"
    BY <1>4 DEF RequestType
  <2>2. request' \in [Client -> RequestType] /\ RequestsHaveTx'
    BY <1>1, <1>3, <1>5, <2>1 DEF ValidateNonce, NoRequest
  <2>3. QED
    BY <1>5, <2>2 DEF ValidateNonce, RequestType
<1>6. CASE ValidateBalance(c)
  <2> DEFINE r == [q EXCEPT !.step = "add", !.nonce = nonce[q.tx.from]]
  <2>1. q.tx \in Tx
    BY <1>6 DEF ValidateBalance
  <2>2. r \in RequestType /\ r.tx = q.tx /\ r.step = "add"
    BY <1>4, <2>1, TxType DEF RequestType
  <2>3. request' \in [Client -> RequestType] /\ RequestsHaveTx'
    BY <1>1, <1>3, <1>6, <2>1, <2>2 DEF ValidateBalance, NoRequest
  <2>4. QED
    BY <1>6, <2>3 DEF ValidateBalance, RequestType
<1>7. CASE AddToPool(c)
  <2>1. q.tx \in Tx
    BY <1>7 DEF AddToPool
  <2>2. request' \in [Client -> RequestType] /\ RequestsHaveTx'
    BY <1>1, <1>3, <1>7 DEF AddToPool, NoRequest
  <2>3. pending' \subseteq Tx /\ queued' \subseteq Tx /\ pending' \cap queued' = {}
    BY <1>7, <2>1 DEF AddToPool, Add, Pool
  <2>4. QED
    BY <1>7, <2>2, <2>3 DEF AddToPool, RequestType
<1>8. QED
    BY <1>2, <1>5, <1>6, <1>7 DEF RequestStep

\* So does the making of blocks.
LEMMA TypeBlock ==
    ASSUME TypeInv, BlockStep, UNCHANGED mode
    PROVE  TypeInv'
<1> USE DEF TypeInv, TypeOK, RequestsHaveTx, poolVars, blockVars, chainVars
<1>1. CASE TakePending
    BY <1>1 DEF TakePending
<1>2. ASSUME NEW tx \in Tx, RunTx(tx)
      PROVE  TypeInv'
  <2>1. nonce' \in [Sender -> Nat]
    BY <1>2, TxType DEF RunTx
  <2>2. okInBlock' \subseteq Tx \cap (inBlock' \cup {current'})
    BY <1>2, TxType DEF RunTx
  <2>3. QED
    BY <1>2, <2>1, <2>2 DEF RunTx
<1>3. CASE IncludeTx
    BY <1>3 DEF IncludeTx, Remove
<1>4. CASE AllExecuted
  <2>1. toPromote' \subseteq Sender
    BY <1>4, TxType DEF AllExecuted
  <2>2. QED
    BY <1>4, <2>1 DEF AllExecuted
<1>5. ASSUME NEW s \in Sender, PromoteNext(s)
      PROVE  TypeInv'
    BY <1>5 DEF PromoteNext, PromoteQueuedToPending
<1>6. CASE BlockCreated
    BY <1>6 DEF BlockCreated
<1>7. CASE CommitBlock
    BY <1>7 DEF CommitBlock
<1>8. CASE RejectBlock
    BY <1>8 DEF RejectBlock
<1>9. QED
    BY <1>1, <1>2, <1>3, <1>4, <1>5, <1>6, <1>7, <1>8 DEF BlockStep

\* Every step keeps the types.
LEMMA TypeStep == TypeInv /\ [Next]_vars => TypeInv'
<1> SUFFICES ASSUME TypeInv, [Next]_vars
             PROVE  TypeInv'
    OBVIOUS
<1>1. CASE UNCHANGED vars
    BY <1>1 DEF vars, poolVars, blockVars, chainVars, TypeInv, TypeOK,
                RequestsHaveTx
<1>2. QED
    BY <1>1, TypeRequest, TypeBlock DEF Next, Step

-----------------------------------------------------------------------------
(* What was executed *)

Of(txs, s) == {tx \in txs : tx.from = s}

\* The transactions txs have for each sender s the nonces below n[s], each once.
Counted(txs, n) ==
    \A s \in Sender :
        /\ IsFiniteSet(Of(txs, s))
        /\ {tx.nonce : tx \in Of(txs, s)} = {k \in 0..n[s] : k < n[s]}
        /\ Cardinality(Of(txs, s)) = n[s]

\* With the transactions of the block being made the account nonces are
\* counted, and without them those of the last committed block.
SuccessInv ==
    /\ TypeInv
    /\ Counted(okSettled \cup okInBlock, nonce)
    /\ Counted(okSettled, savedNonce)
    /\ phase = "idle" => okInBlock = {} /\ nonce = savedNonce

\* The next transaction of a sender is counted when its nonce is.
LEMMA CountOneMore ==
    ASSUME NEW txs \in SUBSET Tx, NEW n \in [Sender -> Nat], Counted(txs, n),
           NEW tx \in Tx, tx.nonce = n[tx.from]
    PROVE  Counted(txs \cup {tx}, [n EXCEPT ![tx.from] = @ + 1])
<1> DEFINE after == [n EXCEPT ![tx.from] = n[tx.from] + 1]
<1>1. tx.from \in Sender /\ tx.nonce \in Nat
    BY TxType
<1>2. ASSUME NEW s \in Sender, s # tx.from
      PROVE  Of(txs \cup {tx}, s) = Of(txs, s) /\ after[s] = n[s]
    BY <1>2 DEF Of
<1>3. Of(txs \cup {tx}, tx.from) = Of(txs, tx.from) \cup {tx}
    BY DEF Of
<1>4. after[tx.from] = n[tx.from] + 1 /\ n[tx.from] \in Nat
    BY <1>1
<1> DEFINE mine == Of(txs, tx.from)
           m == n[tx.from]
<1>5. /\ IsFiniteSet(mine)
      /\ {t.nonce : t \in mine} = {k \in 0..m : k < m}
      /\ Cardinality(mine) = m
    BY <1>1 DEF Counted
<1> HIDE DEF mine, m
<1>6. tx.nonce = m /\ m \in Nat
    BY <1>4 DEF m
<1>7. tx \notin mine
    BY <1>5, <1>6
<1>8. IsFiniteSet(mine \cup {tx}) /\ Cardinality(mine \cup {tx}) = m + 1
    BY <1>5, <1>7, FS_AddElement
<1>9. {t.nonce : t \in mine \cup {tx}} = {k \in 0..(m + 1) : k < m + 1}
  <2>1. {t.nonce : t \in mine \cup {tx}} = {t.nonce : t \in mine} \cup {m}
    BY <1>6
  <2>2. {k \in 0..m : k < m} \cup {m} = {k \in 0..(m + 1) : k < m + 1}
    BY <1>6
  <2>3. QED
    BY <1>5, <2>1, <2>2
<1>10. ASSUME NEW s \in Sender
       PROVE  /\ IsFiniteSet(Of(txs \cup {tx}, s))
              /\ {t.nonce : t \in Of(txs \cup {tx}, s)} =
                    {k \in 0..after[s] : k < after[s]}
              /\ Cardinality(Of(txs \cup {tx}, s)) = after[s]
  <2>1. CASE s = tx.from
    BY <1>3, <1>4, <1>8, <1>9, <2>1 DEF mine, m
  <2>2. CASE s # tx.from
    BY <1>2, <2>2 DEF Counted
  <2>3. QED
    BY <2>1, <2>2
<1>11. QED
    BY <1>10 DEF Counted

\* No transaction is executed at first.
LEMMA SuccessStart == Init => SuccessInv
<1> SUFFICES ASSUME Init
             PROVE  SuccessInv
    OBVIOUS
<1>1. TypeInv
    BY TypeStart
<1>2. ASSUME NEW s \in Sender
      PROVE  /\ IsFiniteSet(Of({}, s))
             /\ {tx.nonce : tx \in Of({}, s)} =
                   {k \in 0..nonce[s] : k < nonce[s]}
             /\ Cardinality(Of({}, s)) = nonce[s]
  <2>1. Of({}, s) = {} /\ nonce[s] = 0
    BY DEF Of, Init
  <2>2. {k \in 0..0 : k < 0} = {}
    BY SMT
  <2>3. QED
    BY <2>1, <2>2, FS_EmptySet
<1>3. Counted({}, nonce)
    BY <1>2 DEF Counted
<1>4. /\ okSettled \cup okInBlock = {} /\ okSettled = {} /\ okInBlock = {}
      /\ savedNonce = nonce
    BY DEF Init
<1>5. QED
    BY <1>1, <1>3, <1>4 DEF SuccessInv

\* A success has the nonce of its sender, and counts it up.
LEMMA SuccessStep == SuccessInv /\ [Next]_vars => SuccessInv'
<1> SUFFICES ASSUME SuccessInv, [Next]_vars
             PROVE  SuccessInv'
    OBVIOUS
<1>1. TypeInv'
    BY TypeStep DEF SuccessInv
<1>2. CASE UNCHANGED <<nonce, savedNonce, okSettled, okInBlock, phase>>
    BY <1>1, <1>2 DEF SuccessInv
<1>3. CASE TakePending
  <2>1. okInBlock = {} /\ nonce = savedNonce /\ okSettled \cup {} = okSettled
    BY <1>3 DEF SuccessInv, TakePending
  <2>2. QED
    BY <1>1, <1>3, <2>1 DEF SuccessInv, TakePending, chainVars
<1>4. ASSUME NEW tx \in Tx, RunTx(tx)
      PROVE  SuccessInv'
  <2>1. phase' = "running" /\ UNCHANGED <<okSettled, savedNonce>>
    BY <1>4 DEF RunTx, chainVars
  <2>2. CASE UNCHANGED <<nonce, okInBlock>>
    BY <1>1, <2>1, <2>2 DEF SuccessInv
  <2>3. CASE /\ tx.nonce = nonce[tx.from]
             /\ nonce' = [nonce EXCEPT ![tx.from] = @ + 1]
             /\ okInBlock' = okInBlock \cup {tx}
    <3>1. okSettled \cup okInBlock \subseteq Tx /\ nonce \in [Sender -> Nat]
      BY DEF SuccessInv, TypeInv, TypeOK
    <3>2. Counted((okSettled \cup okInBlock) \cup {tx}, nonce')
      BY <2>3, <3>1, CountOneMore DEF SuccessInv
    <3>3. okSettled' \cup okInBlock' = (okSettled \cup okInBlock) \cup {tx}
      BY <2>1, <2>3
    <3>4. QED
      BY <1>1, <2>1, <3>2, <3>3 DEF SuccessInv
  <2>4. QED
    BY <1>4, <2>2, <2>3 DEF RunTx
<1>5. CASE AllExecuted \/ BlockCreated
    BY <1>1, <1>5 DEF SuccessInv, AllExecuted, BlockCreated, chainVars
<1>6. CASE CommitBlock
  <2>1. /\ okSettled' = okSettled \cup okInBlock /\ okInBlock' = {}
        /\ savedNonce' = nonce /\ nonce' = nonce
        /\ okSettled' \cup okInBlock' = okSettled \cup okInBlock
    BY <1>6 DEF CommitBlock
  <2>2. QED
    BY <1>1, <2>1 DEF SuccessInv
<1>7. CASE RejectBlock
  <2>1. /\ okSettled' = okSettled /\ okInBlock' = {}
        /\ savedNonce' = savedNonce /\ nonce' = savedNonce
        /\ okSettled' \cup okInBlock' = okSettled
    BY <1>7 DEF RejectBlock, chainVars
  <2>2. QED
    BY <1>1, <2>1 DEF SuccessInv
<1>8. QED
    BY <1>2, <1>3, <1>4, <1>5, <1>6, <1>7
       DEF Next, Step, BlockStep, RequestStep, vars, blockVars, chainVars,
           IncludeTx, PromoteNext, Submit, ValidateNonce, ValidateBalance,
           AddToPool

-----------------------------------------------------------------------------
(* One request at a time *)

SameNonce(t, u) == t.from = u.from /\ t.nonce = u.nonce

\* Without overlap one request is served at a time, none while a block is made,
\* and what it has checked still holds when it adds.
InTurn ==
    ~mode.overlap =>
        /\ phase # "idle" => Idle
        /\ \A c, d \in Client :
              request[c] # NoRequest /\ request[d] # NoRequest => c = d
        /\ \A c \in Client : request[c].step \in {"balance", "add"} =>
              \A t \in Pool : ~SameNonce(t, request[c].tx)

InTurnInv == TypeInv /\ InTurn /\ OneTxPerNonceInTurn

\* Steps that leave the requests alone and only move or remove transactions.
LEMMA InTurnShrinks ==
    ASSUME InTurnInv, TypeInv', UNCHANGED <<request, mode>>,
           Pool' \subseteq Pool,
           ~mode.overlap /\ phase' # "idle" => Idle
    PROVE  InTurnInv'
<1>1. InTurn'
    BY DEF InTurnInv, InTurn, Idle
<1>2. OneTxPerNonceInTurn'
    BY DEF InTurnInv, OneTxPerNonceInTurn, OneTxPerNonce
<1>3. QED
    BY <1>1, <1>2 DEF InTurnInv

\* A request that goes on without touching the pool.
LEMMA InTurnGoesOn ==
    ASSUME InTurnInv, TypeInv', UNCHANGED <<poolVars, phase, mode>>,
           NEW c \in Client,
           \A d \in Client \ {c} : request'[d] = request[d],
           ~mode.overlap => /\ phase = "idle"
                            /\ \A d \in Client \ {c} : request[d] = NoRequest,
           request'[c].step \in {"balance", "add"} =>
              \A t \in Pool : ~SameNonce(t, request'[c].tx)
    PROVE  InTurnInv'
<1>1. Pool' = Pool
    BY DEF Pool, poolVars
<1>2. InTurn'
  <2>1. ~mode.overlap' =>
           \A d \in Client : request'[d] # NoRequest => d = c
    OBVIOUS
  <2>2. \A d \in Client \ {c} : ~mode.overlap => request'[d].step = "none"
    BY DEF NoRequest
  <2>3. QED
    BY <1>1, <2>1, <2>2 DEF InTurn
<1>3. OneTxPerNonceInTurn'
    BY <1>1 DEF InTurnInv, OneTxPerNonceInTurn, OneTxPerNonce
<1>4. QED
    BY <1>2, <1>3 DEF InTurnInv

\* A block takes transactions out of the pool and moves queued ones up.
LEMMA InTurnBlock ==
    ASSUME InTurnInv, BlockStep, UNCHANGED mode
    PROVE  InTurnInv'
<1> USE DEF poolVars, blockVars, chainVars
<1>1. TypeInv'
    BY TypeBlock DEF InTurnInv
<1>2. UNCHANGED request
    BY DEF BlockStep, TakePending, RunTx, IncludeTx, AllExecuted, PromoteNext,
           BlockCreated, CommitBlock, RejectBlock
<1>3. Pool' \subseteq Pool
    BY DEF BlockStep, TakePending, RunTx, IncludeTx, AllExecuted, PromoteNext,
           BlockCreated, CommitBlock, RejectBlock, Remove,
           PromoteQueuedToPending, Pool
<1>4. ~mode.overlap /\ phase' # "idle" => Idle
    <2>1. CASE TakePending
      BY <2>1 DEF TakePending
    <2>2. CASE ~TakePending
      <3>1. phase' # "idle" => phase # "idle"
        BY <2>2 DEF BlockStep, RunTx, IncludeTx, AllExecuted, PromoteNext,
                    BlockCreated, CommitBlock, RejectBlock, InTurnInv, TypeInv,
                    TypeOK
      <3>2. QED
        BY <3>1 DEF InTurnInv, InTurn
    <2>3. QED
      BY <2>1, <2>2
<1>5. QED
    BY <1>1, <1>2, <1>3, <1>4, InTurnShrinks

\* A request alone adds one, whose nonce is not in the pool.
LEMMA InTurnRequest ==
    ASSUME InTurnInv, NEW c \in Client, RequestStep(c), UNCHANGED mode
    PROVE  InTurnInv'
<1> USE DEF poolVars, blockVars, chainVars
<1>1. TypeInv' /\ request \in [Client -> RequestType]
    BY TypeRequest DEF InTurnInv, TypeInv, TypeOK, RequestType
<1>2. \A d \in Client \ {c} : request'[d] = request[d]
    BY <1>1 DEF RequestStep, Submit, ValidateNonce, ValidateBalance, AddToPool
<1>3. ASSUME request[c].step # "none", ~mode.overlap
      PROVE  /\ phase = "idle"
             /\ \A d \in Client \ {c} : request[d] = NoRequest
  <2>1. request[c] # NoRequest
    BY <1>3 DEF NoRequest
  <2>2. QED
    BY <1>3, <2>1 DEF InTurnInv, InTurn, Idle
<1>4. ASSUME NEW tx \in Tx, Submit(c, tx)
      PROVE  InTurnInv'
  <2>1. request'[c].step = "nonce"
    BY <1>1, <1>4 DEF Submit
  <2>2. ~mode.overlap => /\ phase = "idle"
                         /\ \A d \in Client \ {c} : request[d] = NoRequest
    BY <1>4 DEF Submit, Idle
  <2>3. QED
    BY <1>1, <1>2, <1>4, <2>1, <2>2, InTurnGoesOn DEF Submit
<1>5. CASE ValidateNonce(c)
  <2>1. request[c].step = "nonce"
    BY <1>5 DEF ValidateNonce
  <2>2. request'[c].step \in {"balance", "add"} =>
           \A t \in Pool : ~SameNonce(t, request'[c].tx)
    BY <1>1, <1>5 DEF ValidateNonce, NoRequest, SameNonce, RequestType
  <2>3. QED
    BY <1>1, <1>2, <1>3, <1>5, <2>1, <2>2, InTurnGoesOn DEF ValidateNonce
<1>6. CASE ValidateBalance(c)
  <2>1. request[c].step = "balance"
    BY <1>6 DEF ValidateBalance
  <2>2. request'[c].step \in {"balance", "add"} =>
           request'[c].tx = request[c].tx
    BY <1>1, <1>6 DEF ValidateBalance, NoRequest, RequestType
  <2>3. CASE mode.overlap
    <3>1. InTurn' /\ OneTxPerNonceInTurn'
      BY <2>3 DEF InTurn, OneTxPerNonceInTurn
    <3>2. QED
      BY <1>1, <3>1 DEF InTurnInv
  <2>4. CASE ~mode.overlap
    <3>1. \A t \in Pool : ~SameNonce(t, request[c].tx)
      BY <2>1, <2>4 DEF InTurnInv, InTurn
    <3>2. QED
      BY <1>1, <1>2, <1>3, <1>6, <2>1, <2>2, <3>1, InTurnGoesOn
         DEF ValidateBalance
  <2>5. QED
    BY <2>3, <2>4
<1>7. CASE AddToPool(c)
  <2> DEFINE tx == request[c].tx
  <2>1. request[c].step = "add" /\ request'[c] = NoRequest /\ UNCHANGED phase
    BY <1>1, <1>7 DEF AddToPool
  <2>2. Pool' \subseteq Pool \cup {tx}
    BY <1>7 DEF AddToPool, Add, Pool
  <2>3. CASE mode.overlap
    BY <1>1, <2>3 DEF InTurnInv, InTurn, OneTxPerNonceInTurn
  <2>4. CASE ~mode.overlap
    <3>1. \A t \in Pool : ~SameNonce(t, tx)
      BY <2>1, <2>4 DEF InTurnInv, InTurn
    <3>2. OneTxPerNonceInTurn'
      BY <2>2, <2>4, <3>1
         DEF InTurnInv, OneTxPerNonceInTurn, OneTxPerNonce, SameNonce
    <3>3. \A d \in Client : request'[d] = NoRequest
      BY <1>2, <1>3, <2>1, <2>4
    <3>4. InTurn'
      BY <3>3 DEF InTurn, Idle, NoRequest
    <3>5. QED
      BY <1>1, <3>2, <3>4 DEF InTurnInv
  <2>5. QED
    BY <2>3, <2>4
<1>8. QED
    BY <1>4, <1>5, <1>6, <1>7 DEF RequestStep

\* The pool is empty at first.
LEMMA InTurnStart == Init => InTurnInv
<1> SUFFICES ASSUME Init
             PROVE  InTurnInv
    OBVIOUS
<1>1. InTurn
    BY DEF Init, InTurn, NoRequest
<1>2. OneTxPerNonceInTurn
    BY DEF Init, OneTxPerNonceInTurn, OneTxPerNonce, Pool
<1>3. QED
    BY <1>1, <1>2, TypeStart DEF InTurnInv

\* Distinct nonces are kept by every step.
LEMMA InTurnStep == InTurnInv /\ [Next]_vars => InTurnInv'
<1> SUFFICES ASSUME InTurnInv, [Next]_vars
             PROVE  InTurnInv'
    OBVIOUS
<1>1. CASE UNCHANGED vars
  <2>1. TypeInv'
    BY <1>1, TypeStep DEF InTurnInv
  <2>2. QED
    BY <1>1, <2>1
       DEF vars, poolVars, blockVars, InTurnInv, InTurn, Idle, Pool,
           OneTxPerNonceInTurn, OneTxPerNonce
<1>2. QED
    BY <1>1, InTurnBlock, InTurnRequest DEF Next, Step

-----------------------------------------------------------------------------
(* Orderly running: the senders of a block and what waits for them *)

\* The senders whose transaction of this block has been executed.
Done == {tx.from : tx \in inBlock \cup ({current} \ {NoTx})}

\* While a block is executed, what is left of it has the nonces of accounts it
\* has not touched yet, and nothing else is pending.
Executing ==
    /\ batch \subseteq pending
    /\ pending \subseteq batch \cup {current}
    /\ \A tx \in batch : tx.nonce = nonce[tx.from] /\ tx.from \notin Done

\* When it is not, every pending transaction is the next of its sender.
NotExecuting ==
    /\ batch = {} /\ current = NoTx
    /\ \A tx \in pending : tx.nonce = nonce[tx.from]

\* A queued transaction waits for an earlier one, unless its sender is among
\* those of the block being made that are still to be promoted.
Waiting ==
    \A tx \in queued :
        /\ tx.nonce >= nonce[tx.from]
        /\ tx.nonce = nonce[tx.from] =>
              \/ phase = "running" /\ tx.from \in Done
              \/ phase = "promoting" /\ tx.from \in toPromote

\* The nonce with which a request adds is the account's.
KnowsNonce ==
    \A c \in Client :
        request[c].step = "add" => request[c].nonce = nonce[request[c].tx.from]

InOrder ==
    Orderly => /\ IF phase = "running" THEN Executing ELSE NotExecuting
               /\ Waiting
               /\ KnowsNonce

OrderInv == InTurnInv /\ InOrder

\* The pool is empty at first.
LEMMA OrderStart == Init => OrderInv
<1> SUFFICES ASSUME Init
             PROVE  OrderInv
    OBVIOUS
<1>1. NotExecuting /\ Waiting /\ phase # "running"
    BY DEF Init, NotExecuting, Waiting
<1>2. KnowsNonce
    BY DEF Init, KnowsNonce, NoRequest
<1>3. QED
    BY <1>1, <1>2, InTurnStart DEF OrderInv, InOrder

\* A transaction of the snapshot is run: nobody else's nonce changes, and no
\* other transaction of its sender is left in the snapshot.
LEMMA OrderRun ==
    ASSUME OrderInv, Orderly, NEW tx \in Tx, RunTx(tx), KnowsNonce'
    PROVE  Executing' /\ Waiting' /\ phase' = "running"
<1> USE DEF poolVars, blockVars, chainVars
<1>1. /\ phase = "running" /\ phase' = "running" /\ current = NoTx
      /\ tx \in batch /\ batch' = batch \ {tx} /\ current' = tx
      /\ UNCHANGED <<pending, queued, inBlock, toPromote>>
    BY DEF RunTx
<1>2. Executing /\ Waiting
    BY <1>1 DEF OrderInv, InOrder
<1>3. nonce \in [Sender -> Nat] /\ pending \subseteq Tx /\ queued \subseteq Tx
    BY DEF OrderInv, InTurnInv, TypeInv, TypeOK
<1>4. tx.from \in Sender /\ tx # NoTx /\ tx.nonce = nonce[tx.from]
      /\ tx.from \notin Done
    BY <1>1, <1>2, TxType DEF Executing
<1>5. Done' = Done \cup {tx.from}
    BY <1>1, <1>4 DEF Done
<1>6. \/ nonce' = nonce
      \/ nonce' = [nonce EXCEPT ![tx.from] = @ + 1]
    BY DEF RunTx
<1>7. ASSUME NEW t \in batch, t # tx
      PROVE  t.from # tx.from /\ t.from \in Sender
  <2>1. t.nonce = nonce[t.from] /\ t \in Pool /\ tx \in Pool /\ t \in Tx
    BY <1>1, <1>2, <1>3 DEF Executing, Pool
  <2>2. OneTxPerNonce
    BY DEF OrderInv, InTurnInv, OneTxPerNonceInTurn, Orderly
  <2>3. QED
    BY <1>4, <1>7, <2>1, <2>2, TxType DEF OneTxPerNonce
<1>8. Executing'
  <2>1. ASSUME NEW t \in batch'
        PROVE  t.nonce = nonce'[t.from] /\ t.from \notin Done'
    <3>1. t \in batch /\ t # tx
      BY <1>1
    <3>2. t.from # tx.from /\ t.nonce = nonce[t.from] /\ t.from \notin Done
      BY <1>2, <1>7, <3>1 DEF Executing
    <3>3. nonce'[t.from] = nonce[t.from]
      BY <1>3, <1>6, <1>7, <3>1, <3>2
    <3>4. QED
      BY <1>5, <3>2, <3>3
  <2>2. pending' \subseteq batch' \cup {current'}
    BY <1>1, <1>2, <1>3, TxType DEF Executing
  <2>3. QED
    BY <1>1, <1>2, <2>1, <2>2 DEF Executing
<1>9. Waiting'
  <2>1. ASSUME NEW t \in queued
        PROVE  /\ t.nonce >= nonce'[t.from]
               /\ t.nonce = nonce'[t.from] => t.from \in Done'
    <3>1. t.from \in Sender /\ t.nonce \in Nat /\ nonce[t.from] \in Nat
      BY <1>3, TxType
    <3>2. t.nonce >= nonce[t.from] /\ (t.nonce = nonce[t.from] =>
                                          t.from \in Done)
      BY <1>1, <1>2 DEF Waiting
    <3>3. CASE t.from = tx.from
      <4>1. t.nonce > nonce[t.from]
        BY <1>4, <3>1, <3>2, <3>3
      <4>2. nonce'[t.from] \in {nonce[t.from], nonce[t.from] + 1}
        BY <1>3, <1>6, <3>1, <3>3
      <4>3. QED
        BY <1>5, <3>1, <3>3, <4>1, <4>2
    <3>4. CASE t.from # tx.from
      <4>1. nonce'[t.from] = nonce[t.from]
        BY <1>3, <1>6, <3>1, <3>4
      <4>2. QED
        BY <1>5, <3>2, <4>1
    <3>5. QED
      BY <3>3, <3>4
  <2>2. QED
    BY <1>1, <2>1 DEF Waiting
<1>10. QED
    BY <1>1, <1>8, <1>9

\* The senders of a block are promoted one after the other.
LEMMA OrderPromote ==
    ASSUME OrderInv, Orderly, NEW s \in Sender, PromoteNext(s)
    PROVE  NotExecuting' /\ Waiting'
<1> USE DEF poolVars, blockVars, chainVars
<1>1. /\ phase = "promoting" /\ phase' = "promoting"
      /\ toPromote' = toPromote \ {s}
      /\ UNCHANGED <<nonce, batch, current>>
    BY DEF PromoteNext
<1>2. NotExecuting /\ Waiting
    BY <1>1 DEF OrderInv, InOrder
<1>3. \A t \in pending' : t \in pending \/ t.nonce = nonce[t.from]
    BY DEF PromoteNext, PromoteQueuedToPending
<1>4. \A t \in queued' : /\ t \in queued
                         /\ t.from = s => t.nonce # nonce[s]
    BY DEF PromoteNext, PromoteQueuedToPending
<1>5. NotExecuting'
    BY <1>1, <1>2, <1>3 DEF NotExecuting
<1>6. Waiting'
    BY <1>1, <1>2, <1>4 DEF Waiting
<1>7. QED
    BY <1>5, <1>6

\* While a block executes, nonces grow by what it took from the pool.
LEMMA OrderBlock ==
    ASSUME OrderInv, Orderly, BlockStep, UNCHANGED mode
    PROVE  InOrder'
<1> USE DEF poolVars, blockVars, chainVars
<1>1. phase # "idle" => Idle
    BY DEF OrderInv, InTurnInv, InTurn, Orderly
<1>2. TypeOK
    BY DEF OrderInv, InTurnInv, TypeInv
<1>3. KnowsNonce'
  <2>1. UNCHANGED request
    BY DEF BlockStep, TakePending, RunTx, IncludeTx, AllExecuted, PromoteNext,
           BlockCreated, CommitBlock, RejectBlock
  <2>2. CASE Idle
    BY <2>1, <2>2 DEF Idle, KnowsNonce, NoRequest
  <2>3. CASE ~Idle
    <3>1. phase = "idle"
      BY <1>1, <2>3
    <3>2. UNCHANGED nonce
      BY <3>1 DEF BlockStep, TakePending, RunTx, IncludeTx, AllExecuted,
                  PromoteNext, BlockCreated, CommitBlock, RejectBlock, Orderly
    <3>3. QED
      BY <2>1, <3>2 DEF OrderInv, InOrder, KnowsNonce
  <2>4. QED
    BY <2>2, <2>3
<1>4. CASE TakePending
  <2>1. /\ phase = "idle" /\ phase' = "running" /\ batch' = pending
        /\ inBlock' = {} /\ UNCHANGED <<pending, queued, nonce, current>>
    BY <1>4 DEF TakePending
  <2>2. NotExecuting /\ Waiting
    BY <2>1 DEF OrderInv, InOrder
  <2>3. Done' = {}
    BY <2>1, <2>2 DEF NotExecuting, Done
  <2>4. Executing' /\ Waiting'
    BY <2>1, <2>2, <2>3 DEF NotExecuting, Executing, Waiting
  <2>5. QED
    BY <1>3, <2>1, <2>4 DEF InOrder
<1>5. ASSUME NEW tx \in Tx, RunTx(tx)
      PROVE  InOrder'
    BY <1>3, <1>5, OrderRun DEF InOrder
<1>6. CASE IncludeTx
  <2>1. /\ current # NoTx /\ current' = NoTx
        /\ inBlock' = inBlock \cup {current}
        /\ UNCHANGED <<nonce, phase, batch, toPromote>>
        /\ pending' = pending \ {current} /\ queued' \subseteq queued
    BY <1>6 DEF IncludeTx, Remove
  <2>2. phase = "running" /\ Executing /\ Waiting
    BY <2>1 DEF OrderInv, InOrder, NotExecuting
  <2>3. Done' = Done /\ current.from \in Done
    BY <2>1 DEF Done
  <2>4. Executing'
    BY <2>1, <2>2, <2>3 DEF Executing
  <2>5. Waiting'
    BY <2>1, <2>2, <2>3 DEF Waiting
  <2>6. QED
    BY <1>3, <2>1, <2>2, <2>4, <2>5 DEF InOrder
<1>7. CASE AllExecuted
  <2>1. /\ phase = "running" /\ phase' = "promoting"
        /\ batch = {} /\ current = NoTx
        /\ toPromote' = {tx.from : tx \in inBlock}
        /\ UNCHANGED <<pending, queued, nonce, batch, current, inBlock>>
    BY <1>7 DEF AllExecuted
  <2>2. Executing /\ Waiting /\ Done = toPromote'
    BY <2>1 DEF OrderInv, InOrder, Done
  <2>3. pending = {}
    BY <1>2, <2>1, <2>2, TxType DEF Executing, TypeOK
  <2>4. NotExecuting' /\ Waiting'
    BY <2>1, <2>2, <2>3 DEF NotExecuting, Waiting
  <2>5. QED
    BY <1>3, <2>1, <2>4 DEF InOrder
<1>8. ASSUME NEW s \in Sender, PromoteNext(s)
      PROVE  InOrder'
  <2>1. phase' = "promoting"
    BY <1>8 DEF PromoteNext
  <2>2. QED
    BY <1>3, <1>8, <2>1, OrderPromote DEF InOrder
<1>9. CASE BlockCreated \/ CommitBlock
  <2>1. /\ phase \in {"promoting", "created"} /\ phase' \in {"created", "idle"}
        /\ phase = "promoting" => toPromote = {}
        /\ UNCHANGED <<pending, queued, nonce, batch, current>>
    BY <1>9 DEF BlockCreated, CommitBlock
  <2>2. NotExecuting /\ Waiting
    BY <2>1 DEF OrderInv, InOrder
  <2>3. NotExecuting' /\ Waiting'
    BY <2>1, <2>2 DEF NotExecuting, Waiting
  <2>4. QED
    BY <1>3, <2>1, <2>3 DEF InOrder
<1>10. CASE RejectBlock
    BY <1>10 DEF RejectBlock, Orderly
<1>11. QED
    BY <1>4, <1>5, <1>6, <1>7, <1>8, <1>9, <1>10 DEF BlockStep

\* A request places its transaction by the nonce the account has or will
\* have.
LEMMA OrderRequest ==
    ASSUME OrderInv, Orderly, NEW c \in Client, RequestStep(c), UNCHANGED mode
    PROVE  InOrder'
<1> USE DEF poolVars, blockVars, chainVars
<1>1. TypeOK /\ RequestsHaveTx /\ request \in [Client -> RequestType]
    BY DEF OrderInv, InTurnInv, TypeInv, TypeOK, RequestType
<1>2. UNCHANGED <<nonce, phase, batch, toPromote, current, inBlock>>
    BY DEF RequestStep, Submit, ValidateNonce, ValidateBalance, AddToPool
<1>3. phase = "idle"
  <2>1. CASE Idle
    <3>1. request[c].step = "none"
      BY <2>1 DEF Idle, NoRequest
    <3>2. QED
      BY <3>1 DEF RequestStep, Submit, ValidateNonce, ValidateBalance,
                  AddToPool, Orderly
  <2>2. CASE ~Idle
    BY <2>2 DEF OrderInv, InTurnInv, InTurn, Orderly
  <2>3. QED
    BY <2>1, <2>2
<1>4. NotExecuting /\ Waiting /\ KnowsNonce
    BY <1>3 DEF OrderInv, InOrder
<1>5. KnowsNonce'
  <2>1. ASSUME NEW d \in Client, request'[d].step = "add"
        PROVE  request'[d].nonce = nonce[request'[d].tx.from]
    <3>1. CASE request'[d] = request[d]
      BY <1>4, <2>1, <3>1 DEF KnowsNonce
    <3>2. CASE request'[d] # request[d]
      <4>1. d = c
        BY <1>1, <3>2 DEF RequestStep, Submit, ValidateNonce, ValidateBalance,
                          AddToPool
      <4>2. CASE ValidateBalance(c)
        BY <1>1, <2>1, <4>1, <4>2 DEF ValidateBalance, RequestType, NoRequest
      <4>3. CASE ~ValidateBalance(c)
        BY <1>1, <2>1, <4>1, <4>3
           DEF RequestStep, Submit, ValidateNonce, AddToPool, RequestType,
               NoRequest
      <4>4. QED
        BY <4>2, <4>3
    <3>3. QED
      BY <3>1, <3>2
  <2>2. QED
    BY <1>2, <2>1 DEF KnowsNonce
<1>6. CASE UNCHANGED <<pending, queued>>
  <2>1. NotExecuting' /\ Waiting'
    BY <1>2, <1>4, <1>6 DEF NotExecuting, Waiting, Done
  <2>2. QED
    BY <1>2, <1>3, <1>5, <2>1 DEF InOrder
<1>7. CASE AddToPool(c) /\ Add(request[c].tx, request[c].nonce)
  <2> DEFINE tx == request[c].tx
  <2>1. tx \in Tx /\ request[c].nonce = nonce[tx.from]
    BY <1>1, <1>4, <1>7 DEF AddToPool, RequestsHaveTx, KnowsNonce
  <2>2. tx.nonce \in Nat /\ nonce[tx.from] \in Nat /\ tx.nonce >= nonce[tx.from]
    BY <1>1, <1>7, <2>1, TxType DEF Add, TypeOK
  <2>3. \A t \in pending' : t \in pending \/ t.nonce = nonce[t.from]
    BY <1>7, <2>1 DEF Add
  <2>4. \A t \in queued' :
           t \in queued \/ (t = tx /\ tx.nonce # nonce[tx.from])
    BY <1>7, <2>1 DEF Add
  <2>5. NotExecuting'
    BY <1>2, <1>4, <2>3 DEF NotExecuting
  <2>6. Waiting'
    BY <1>2, <1>3, <1>4, <2>2, <2>4 DEF Waiting
  <2>7. QED
    BY <1>2, <1>3, <1>5, <2>5, <2>6 DEF InOrder
<1>8. QED
    BY <1>6, <1>7
       DEF RequestStep, Submit, ValidateNonce, ValidateBalance, AddToPool

\* The order of the pool is kept by every step.
LEMMA OrderStep == OrderInv /\ [Next]_vars => OrderInv'
<1> SUFFICES ASSUME OrderInv, [Next]_vars
             PROVE  OrderInv'
    OBVIOUS
<1>1. InTurnInv'
    BY InTurnStep DEF OrderInv
<1>2. CASE UNCHANGED vars
    BY <1>1, <1>2
       DEF vars, poolVars, blockVars, OrderInv, InOrder, Executing,
           NotExecuting, Waiting, KnowsNonce, Done, Orderly
<1>3. CASE Next
  <2>1. mode' = mode /\ (Orderly' = Orderly)
    BY <1>3 DEF Next, Orderly
  <2>2. CASE Orderly
    BY <1>1, <1>3, <2>1, <2>2, OrderBlock, OrderRequest
       DEF OrderInv, Next, Step
  <2>3. CASE ~Orderly
    BY <1>1, <2>1, <2>3 DEF OrderInv, InOrder
  <2>4. QED
    BY <2>2, <2>3
<1>4. QED
    BY <1>2, <1>3

-----------------------------------------------------------------------------
(* With the wallet *)

\* What has been signed is a transaction.
SignedIsTx ==
    /\ DOMAIN signing = Client
    /\ \A c \in Client : signing[c].step = "signed" => signing[c].tx \in Tx

\* What is signed is a transaction of the one it is signed for.
LEMMA SignedStep == SignedIsTx /\ [WalletNext]_walletVars => SignedIsTx'
<1> SUFFICES ASSUME SignedIsTx, [WalletNext]_walletVars
             PROVE  SignedIsTx'
    OBVIOUS
<1>1. CASE UNCHANGED signing
    BY <1>1 DEF SignedIsTx
<1>2. ASSUME NEW c \in Client, NEW s \in Sender, AskNonce(c, s)
      PROVE  SignedIsTx'
    BY <1>2 DEF AskNonce, SignedIsTx
<1>3. ASSUME NEW c \in Client, signing' = [signing EXCEPT ![c] = NotSigning]
      PROVE  SignedIsTx'
    BY <1>3 DEF SignedIsTx, NotSigning
<1>4. ASSUME NEW c \in Client, Sign(c)
      PROVE  SignedIsTx'
  <2>1. ASSUME NEW tx \in Tx,
               signing' = [signing EXCEPT ![c] =
                   [step |-> "signed", from |-> signing[c].from,
                    nonce |-> tx.nonce, tx |-> tx]]
        PROVE  SignedIsTx'
    BY <2>1 DEF SignedIsTx
  <2>2. QED
    BY <1>3, <1>4, <2>1 DEF Sign
<1>5. ASSUME NEW c \in Client, SubmitSigned(c)
      PROVE  SignedIsTx'
    BY <1>3, <1>5 DEF SubmitSigned
<1>6. QED
    BY <1>1, <1>2, <1>4, <1>5
       DEF WalletNext, WalletBlockStep, WalletRequestStep, walletVars

\* The wallet takes no step that the pool does not know.
LEMMA WalletIsPool == WalletSpec => Spec
<1>1. WalletInit => Init /\ SignedIsTx
  <2>1. ASSUME WalletInit
        PROVE  SignedIsTx
    BY <2>1 DEF WalletInit, SignedIsTx, NotSigning
  <2>2. QED
    BY <2>1 DEF WalletInit
<1>2. SignedIsTx /\ [WalletNext]_walletVars => [Next]_vars
  <2> SUFFICES ASSUME SignedIsTx, [WalletNext]_walletVars
               PROVE  [Next]_vars
    OBVIOUS
  <2>1. CASE UNCHANGED vars
    BY <2>1
  <2>2. CASE WalletBlockStep
    BY <2>2 DEF WalletBlockStep, Next, Step
  <2>3. ASSUME NEW c \in Client, WalletRequestStep(c)
        PROVE  [Next]_vars
    BY <2>3 DEF WalletRequestStep, Next, Step, RequestStep
  <2>4. ASSUME NEW c \in Client, SubmitSigned(c)
        PROVE  [Next]_vars
    BY <2>4 DEF SubmitSigned, SignedIsTx, Next, Step, RequestStep
  <2>5. QED
    BY <2>1, <2>2, <2>3, <2>4
       DEF WalletNext, AskNonce, Sign, walletVars
<1>3. QED
    BY <1>1, <1>2, SignedStep, PTL DEF WalletSpec, Spec

\* The variables of the pool, of the requests and of the block being made
\* always have their types, and no transaction is both pending and queued.
THEOREM PoolTypeCorrect == WalletSpec => []TypeOK
<1>1. Spec => []TypeInv
    BY TypeStart, TypeStep, PTL DEF Spec
<1>2. TypeInv => TypeOK
    BY DEF TypeInv
<1>3. QED
    BY <1>1, <1>2, WalletIsPool, PTL

\* No interleaving of requests, of whatever senders and however many at once,
\* of promotions and of blocks kept or rolled back executes a transaction twice
\* or out of order: those that succeeded have the nonces from 0 up, each once.
THEOREM ExecutedInOrder == WalletSpec => []SuccessesAreConsecutive
<1>1. Spec => []SuccessInv
    BY SuccessStart, SuccessStep, PTL DEF Spec
<1>2. SuccessInv => SuccessesAreConsecutive
    BY DEF SuccessInv, Counted, Of, SuccessesAreConsecutive
<1>3. QED
    BY <1>1, <1>2, WalletIsPool, PTL

\* When requests come one at a time, the pool never holds two transactions of
\* one sender with one nonce, also when blocks are rolled back and their
\* transactions sent again.
THEOREM OneAtATime == WalletSpec => []OneTxPerNonceInTurn
<1>1. Spec => []InTurnInv
    BY InTurnStart, InTurnStep, PTL DEF Spec
<1>2. InTurnInv => OneTxPerNonceInTurn
    BY DEF InTurnInv
<1>3. QED
    BY <1>1, <1>2, WalletIsPool, PTL

\* When requests come one at a time between blocks that are all kept, a pending
\* transaction is the next one of its sender, between blocks.
THEOREM PendingAreNext == WalletSpec => []PendingIsNext
<1>1. Spec => []OrderInv
    BY OrderStart, OrderStep, PTL DEF Spec
<1>2. OrderInv => PendingIsNext
    BY DEF OrderInv, InOrder, NotExecuting, PendingIsNext
<1>3. QED
    BY <1>1, <1>2, WalletIsPool, PTL

\* And no queued transaction has been left behind by the promotions: all wait
\* for an earlier one.
THEOREM QueuedAreAhead == WalletSpec => []QueuedIsAhead
<1>1. Spec => []OrderInv
    BY OrderStart, OrderStep, PTL DEF Spec
<1>2. ASSUME OrderInv, Orderly, phase = "idle", NEW tx \in queued
      PROVE  tx.nonce > nonce[tx.from]
  <2>1. tx.nonce \in Nat /\ nonce[tx.from] \in Nat
    BY <1>2, TxType DEF OrderInv, InTurnInv, TypeInv, TypeOK
  <2>2. tx.nonce >= nonce[tx.from] /\ tx.nonce # nonce[tx.from]
    BY <1>2 DEF OrderInv, InOrder, Waiting
  <2>3. QED
    BY <2>1, <2>2
<1>3. OrderInv => QueuedIsAhead
    BY <1>2 DEF QueuedIsAhead
<1>4. QED
    BY <1>1, <1>3, WalletIsPool, PTL

\* A transaction that was accepted stays in the pool until a block has it:
\* promotions, the removal of others and refused requests lose none.
THEOREM NothingIsLost == WalletSpec => LeavesForABlock
<1>1. ASSUME Next
      PROVE  \A tx \in Pool : tx \in Pool' \/ tx \in inBlock'
  <2> USE DEF Pool, poolVars, blockVars, chainVars
  <2>1. CASE BlockStep
    BY <2>1 DEF BlockStep, TakePending, RunTx, IncludeTx, AllExecuted,
                PromoteNext, BlockCreated, CommitBlock, RejectBlock, Remove,
                PromoteQueuedToPending
  <2>2. ASSUME NEW c \in Client, RequestStep(c)
        PROVE  \A tx \in Pool : tx \in Pool' \/ tx \in inBlock'
    BY <2>2 DEF RequestStep, Submit, ValidateNonce, ValidateBalance, AddToPool,
                Add
  <2>3. QED
    BY <1>1, <2>1, <2>2 DEF Next, Step
<1>2. [Next]_vars => [\A tx \in Pool : tx \in Pool' \/ tx \in inBlock']_vars
    BY <1>1
<1>3. Spec => LeavesForABlock
    BY <1>2, PTL DEF Spec, LeavesForABlock
<1>4. QED
    BY <1>3, WalletIsPool, PTL

-----------------------------------------------------------------------------
(* The nonces the wallet gives *)

KeepsBlocks == mode.wallet /\ ~mode.rejects

\* What is pending, or was when the block began, has had its turn.
NoneIsAhead == \A t \in pending \cup batch : t.nonce <= nonce[t.from]

\* An account's nonce has not gone back since somebody was told it.
NoncesAreReached ==
    /\ \A c \in Client :
          request[c].step = "add" =>
              request[c].nonce <= nonce[request[c].tx.from]
    /\ \A c \in Client :
          signing[c].step = "asked" =>
              /\ signing[c].from \in Sender /\ signing[c].nonce \in Nat
              /\ signing[c].nonce <= nonce[signing[c].from]

PoolIsBounded == \E b \in Nat : \A t \in Pool : t.nonce <= b

\* Every nonce between the account's and that of t is in the pool.
NoneIsMissing(t) ==
    \A n \in Nat : nonce[t.from] <= n /\ n < t.nonce => n \in NoncesInPool(t.from)

\* It is so for what is in the pool, on its way there or signed for it, and
\* what leaves the pool is behind.
NothingIsMissing ==
    /\ current # NoTx => current.nonce < nonce[current.from]
    /\ \A t \in Pool : NoneIsMissing(t)
    /\ \A c \in Client : request[c].step # "none" => NoneIsMissing(request[c].tx)
    /\ \A c \in Client : signing[c].step = "signed" => NoneIsMissing(signing[c].tx)

GapInv ==
    KeepsBlocks =>
        /\ NoneIsAhead /\ NoncesAreReached /\ PoolIsBounded
        /\ ~refused => NothingIsMissing

\* Nothing is signed at first.
LEMMA GapStart == WalletInit => GapInv
<1> SUFFICES ASSUME WalletInit
             PROVE  GapInv
    OBVIOUS
<1>1. /\ pending = {} /\ batch = {} /\ Pool = {} /\ current = NoTx
      /\ \A c \in Client : request[c].step = "none" /\ signing[c].step = "none"
    BY DEF WalletInit, Init, Pool, NoRequest, NotSigning
<1>2. PoolIsBounded
    BY <1>1 DEF PoolIsBounded
<1>3. QED
    BY <1>1, <1>2 DEF GapInv, NoneIsAhead, NoncesAreReached, NothingIsMissing

\* Nonces that grow and transactions that leave the pool when they are behind
\* make no gap.
LEMMA NoneGoesMissing ==
    ASSUME TypeInv, TypeInv', NEW t \in Tx, NoneIsMissing(t),
           \A s \in Sender : nonce[s] <= nonce'[s],
           \A u \in Pool : u \in Pool' \/ u.nonce < nonce[u.from]
    PROVE  NoneIsMissing(t)'
<1>1. t.from \in Sender /\ t.nonce \in Nat
    BY TxType
<1>2. nonce[t.from] \in Nat /\ nonce'[t.from] \in Nat
    BY <1>1 DEF TypeInv, TypeOK
<1>3. SUFFICES ASSUME NEW n \in Nat, nonce'[t.from] <= n, n < t.nonce
               PROVE  n \in NoncesInPool(t.from)'
    BY DEF NoneIsMissing
<1>4. nonce[t.from] <= n
    BY <1>1, <1>2, <1>3
<1>5. n \in NoncesInPool(t.from)
    BY <1>3, <1>4 DEF NoneIsMissing
<1>6. PICK u \in Pool : u.from = t.from /\ u.nonce = n
    BY <1>5 DEF NoncesInPool
<1>7. ~(u.nonce < nonce[u.from])
    BY <1>2, <1>4, <1>6
<1>8. u \in Pool'
    BY <1>6, <1>7
<1>9. QED
    BY <1>6, <1>8 DEF NoncesInPool

\* The next nonce leaves no gap before it: it is the account's of some time
\* ago, or comes after the last one in the pool.
LEMMA NextLeavesNone ==
    ASSUME TypeInv, PoolIsBounded, \A t \in Pool : NoneIsMissing(t),
           NEW told \in Nat, NEW tx \in Tx, told <= nonce[tx.from],
           tx.nonce = NextNonce(tx.from, told)
    PROVE  NoneIsMissing(tx)
<1>1. tx.from \in Sender /\ tx.nonce \in Nat
    BY TxType
<1>2. nonce[tx.from] \in Nat
    BY <1>1 DEF TypeInv, TypeOK
<1> DEFINE given == NoncesInPool(tx.from)
<1>3. \A t \in Pool : t \in Tx /\ t.nonce \in Nat
    BY TxType DEF TypeInv, TypeOK, Pool
<1>4. CASE given = {}
  <2>1. tx.nonce = told
    BY <1>4 DEF NextNonce
  <2>2. QED
    BY <1>1, <1>2, <2>1 DEF NoneIsMissing
<1>5. CASE given # {}
  <2>1. PICK b \in Nat : \A t \in Pool : t.nonce <= b
    BY DEF PoolIsBounded
  <2>2. given \subseteq 0..b
    BY <1>3, <2>1 DEF NoncesInPool
  <2>3. PICK last \in given : \A m \in given : m <= last
    BY <1>5, <2>2, Greatest
  <2>4. last \in Nat /\ given \subseteq Nat
    BY <2>2
  <2>5. /\ last + 1 \in {m + 1 : m \in given}
        /\ \A m \in given : m < last + 1
    BY <2>3, <2>4
  <2>6. tx.nonce = CHOOSE n \in {m + 1 : m \in given} : \A m \in given : m < n
    BY <1>5 DEF NextNonce
  <2> HIDE DEF given
  <2>7. tx.nonce \in {m + 1 : m \in given} /\ \A m \in given : m < tx.nonce
    BY <2>5, <2>6
  <2>8. tx.nonce = last + 1
    <3>1. PICK m \in given : tx.nonce = m + 1
      BY <2>7
    <3>2. m <= last /\ last < m + 1 /\ m \in Nat
      BY <2>3, <2>4, <2>7, <3>1
    <3>3. QED
      BY <2>4, <3>1, <3>2
  <2>9. PICK u \in Pool : u.from = tx.from /\ u.nonce = last
    BY <2>3 DEF given, NoncesInPool
  <2>10. ASSUME NEW n \in Nat, nonce[tx.from] <= n, n < tx.nonce
         PROVE  n \in given
    <3>1. CASE n = last
      BY <2>3, <3>1
    <3>2. CASE n # last
      <4>1. n < last
        BY <2>4, <2>8, <2>10, <3>2
      <4>2. QED
        BY <2>9, <2>10, <4>1 DEF NoneIsMissing, given
    <3>3. QED
      BY <3>1, <3>2
  <2>11. QED
    BY <2>10 DEF NoneIsMissing, given
<1>6. QED
    BY <1>4, <1>5

\* A step that leaves the requests and the wallet alone.
LEMMA GapStays ==
    ASSUME TypeInv, TypeInv', SignedIsTx, GapInv, KeepsBlocks,
           UNCHANGED <<request, signing, mode>>,
           ~refused' => ~refused, Pool' \subseteq Pool, NoneIsAhead',
           \A s \in Sender : nonce[s] <= nonce'[s],
           ~refused' => /\ \A u \in Pool : u \in Pool' \/ u.nonce < nonce[u.from]
                        /\ current' # NoTx => current'.nonce < nonce'[current'.from]
    PROVE  GapInv'
<1>1. /\ nonce \in [Sender -> Nat] /\ nonce' \in [Sender -> Nat]
      /\ request \in [Client -> RequestType] /\ RequestsHaveTx
      /\ Pool \subseteq Tx /\ Pool' \subseteq Tx
    BY DEF TypeInv, TypeOK, RequestType, Pool
<1>2. NoneIsAhead /\ NoncesAreReached /\ PoolIsBounded
      /\ (~refused => NothingIsMissing)
    BY DEF GapInv
<1>3. NoncesAreReached'
  <2>1. ASSUME NEW c \in Client, request[c].step = "add"
        PROVE  request[c].nonce <= nonce'[request[c].tx.from]
    <3>1. PICK s, n : s = request[c].tx.from /\ n = request[c].nonce
      OBVIOUS
    <3>2. s \in Sender /\ n \in Nat /\ n <= nonce[s]
      BY <1>1, <1>2, <2>1, <3>1, TxType DEF RequestsHaveTx, RequestType, NoncesAreReached
    <3>3. nonce[s] <= nonce'[s] /\ nonce[s] \in Nat /\ nonce'[s] \in Nat
      BY <1>1, <3>2
    <3>4. n <= nonce'[s]
      BY <3>2, <3>3
    <3>5. QED
      BY <3>1, <3>4
  <2>2. ASSUME NEW c \in Client, signing[c].step = "asked"
        PROVE  /\ signing[c].from \in Sender /\ signing[c].nonce \in Nat
               /\ signing[c].nonce <= nonce'[signing[c].from]
    <3>1. PICK s, n : s = signing[c].from /\ n = signing[c].nonce
      OBVIOUS
    <3>2. s \in Sender /\ n \in Nat /\ n <= nonce[s]
      BY <1>2, <2>2, <3>1 DEF NoncesAreReached
    <3>3. nonce[s] <= nonce'[s] /\ nonce[s] \in Nat /\ nonce'[s] \in Nat
      BY <1>1, <3>2
    <3>4. n <= nonce'[s]
      BY <3>2, <3>3
    <3>5. QED
      BY <3>1, <3>2, <3>4
  <2>3. QED
    BY <2>1, <2>2 DEF NoncesAreReached
<1>4. PoolIsBounded'
    BY <1>2 DEF PoolIsBounded
<1>5. ASSUME ~refused'
      PROVE  NothingIsMissing'
  <2>1. NothingIsMissing
    BY <1>2, <1>5
  <2>2. ASSUME NEW t \in Tx, NoneIsMissing(t)
        PROVE  NoneIsMissing(t)'
    BY <1>5, <2>2, NoneGoesMissing
  <2>3. \A t \in Pool' : NoneIsMissing(t)'
    BY <1>1, <2>1, <2>2 DEF NothingIsMissing
  <2>4. ASSUME NEW c \in Client, request[c].step # "none"
        PROVE  NoneIsMissing(request[c].tx)'
    <3>1. PICK t \in Tx : t = request[c].tx
      BY <1>1, <2>4 DEF RequestsHaveTx
    <3>2. NoneIsMissing(t)
      BY <2>1, <2>4, <3>1 DEF NothingIsMissing
    <3>3. NoneIsMissing(t)' /\ t = request'[c].tx
      BY <2>2, <3>1, <3>2
    <3>4. QED
      BY <3>3 DEF NoneIsMissing
  <2>5. ASSUME NEW c \in Client, signing[c].step = "signed"
        PROVE  NoneIsMissing(signing[c].tx)'
    <3>1. PICK t \in Tx : t = signing[c].tx
      BY <2>5 DEF SignedIsTx
    <3>2. NoneIsMissing(t)
      BY <2>1, <2>5, <3>1 DEF NothingIsMissing
    <3>3. NoneIsMissing(t)' /\ t = signing'[c].tx
      BY <2>2, <3>1, <3>2
    <3>4. QED
      BY <3>3 DEF NoneIsMissing
  <2>6. current' # NoTx => current'.nonce < nonce'[current'.from]
    BY <1>5
  <2>7. QED
    BY <2>3, <2>4, <2>5, <2>6 DEF NothingIsMissing
<1>6. QED
    BY <1>3, <1>4, <1>5 DEF GapInv

\* A transaction that is executed had its turn or is behind; one that fails in
\* its turn is noted.
LEMMA GapBlock ==
    ASSUME TypeInv, TypeInv', SuccessInv, SignedIsTx, GapInv, KeepsBlocks,
           WalletBlockStep
    PROVE  GapInv'
<1> USE DEF poolVars, blockVars, chainVars
<1>1. /\ nonce \in [Sender -> Nat] /\ Pool \subseteq Tx /\ batch \subseteq Tx
      /\ pending \subseteq Tx /\ queued \subseteq Tx
      /\ current \in Tx \cup {NoTx}
    BY DEF TypeInv, TypeOK, Pool
<1>2. UNCHANGED <<mode, signing>> /\ BlockStep
      /\ refused' = (refused \/ RefusedInBlock)
    BY DEF WalletBlockStep
<1>3. NoneIsAhead
    BY DEF GapInv
<1>4. ~refused' => ~refused
    BY <1>2
<1>5. ~refused => (current # NoTx => current.nonce < nonce[current.from])
    BY DEF GapInv, NothingIsMissing
<1>6. \A s \in Sender : nonce[s] <= nonce[s]
    BY <1>1
<1>7. CASE TakePending
  <2>1. UNCHANGED <<request, nonce, current, pending, queued>> /\ batch' = pending
    BY <1>7 DEF TakePending
  <2>2. NoneIsAhead' /\ Pool' = Pool
    BY <1>3, <2>1 DEF NoneIsAhead, Pool
  <2>3. QED
    BY <1>2, <1>4, <1>5, <1>6, <2>1, <2>2, GapStays
<1>8. ASSUME NEW tx \in Tx, RunTx(tx)
      PROVE  GapInv'
  <2>1. /\ UNCHANGED <<request, pending, queued>> /\ Pool' = Pool
        /\ current = NoTx /\ current' = tx
        /\ tx \in batch /\ batch' \subseteq batch
    BY <1>8 DEF RunTx, Pool
  <2>2. tx.from \in Sender /\ tx.nonce \in Nat /\ tx # NoTx /\ nonce[tx.from] \in Nat
    BY <1>1, TxType
  <2>3. tx.nonce <= nonce[tx.from]
    BY <1>3, <2>1 DEF NoneIsAhead
  <2>4. CASE /\ tx.nonce = nonce[tx.from]
             /\ nonce' = [nonce EXCEPT ![tx.from] = @ + 1]
    <3>1. /\ \A s \in Sender : nonce'[s] = IF s = tx.from THEN nonce[s] + 1 ELSE nonce[s]
          /\ tx.nonce < nonce'[tx.from]
      BY <1>1, <2>2, <2>4
    <3>2. \A s \in Sender : nonce[s] <= nonce'[s]
      BY <1>1, <3>1
    <3>3. NoneIsAhead'
      <4>1. ASSUME NEW t \in pending' \cup batch'
            PROVE  t.nonce <= nonce'[t.from]
        <5>1. t \in Tx /\ t.nonce <= nonce[t.from]
          BY <1>1, <1>3, <2>1, <4>1 DEF NoneIsAhead
        <5>2. t.from \in Sender /\ t.nonce \in Nat /\ nonce[t.from] \in Nat
          BY <1>1, <5>1, TxType
        <5>3. nonce'[t.from] \in Nat /\ nonce[t.from] <= nonce'[t.from]
          BY <5>2, <3>1, <3>2
        <5>4. QED
          BY <5>1, <5>2, <5>3
      <4>2. QED
        BY <4>1 DEF NoneIsAhead
    <3>4. QED
      BY <1>2, <1>4, <2>1, <3>1, <3>2, <3>3, GapStays
  <2>5. CASE UNCHANGED <<nonce, okInBlock>>
    <3>1. tx.nonce = nonce[tx.from] => tx \notin okInBlock
      <4>1. ASSUME tx \in okInBlock
            PROVE  tx.nonce < nonce[tx.from]
        <5>1. tx \in Of(okSettled \cup okInBlock, tx.from)
          BY <4>1 DEF Of
        <5>2. {t.nonce : t \in Of(okSettled \cup okInBlock, tx.from)} =
                 {n \in 0..nonce[tx.from] : n < nonce[tx.from]}
          BY <2>2 DEF SuccessInv, Counted
        <5>3. QED
          BY <5>1, <5>2
      <4>2. QED
        BY <2>2, <4>1
    <3>2. tx.nonce = nonce[tx.from] => RefusedInBlock
      BY <2>1, <2>2, <2>5, <3>1 DEF RefusedInBlock
    <3>3. ~refused' => tx.nonce # nonce[tx.from]
      BY <1>2, <3>2
    <3>4. ~refused' => tx.nonce < nonce[tx.from]
      BY <2>2, <2>3, <3>3
    <3>5. NoneIsAhead'
      BY <1>3, <2>1, <2>5 DEF NoneIsAhead
    <3>6. QED
      BY <1>2, <1>4, <1>6, <2>1, <2>5, <3>4, <3>5, GapStays
  <2>6. QED
    BY <1>8, <2>4, <2>5 DEF RunTx
<1>9. CASE IncludeTx
  <2>1. /\ UNCHANGED <<request, nonce, batch>> /\ current # NoTx /\ current' = NoTx
        /\ pending' = pending \ {current}
        /\ queued' = IF current \in pending THEN queued ELSE queued \ {current}
    BY <1>9 DEF IncludeTx, Remove
  <2>2. /\ Pool' \subseteq Pool
        /\ \A u \in Pool : u \in Pool' \/ u = current
    BY <2>1 DEF Pool
  <2>3. NoneIsAhead'
    BY <1>3, <2>1 DEF NoneIsAhead
  <2>4. QED
    BY <1>2, <1>4, <1>5, <1>6, <2>1, <2>2, <2>3, GapStays
<1>10. ASSUME NEW s \in Sender, PromoteNext(s)
       PROVE  GapInv'
  <2>1. /\ UNCHANGED <<request, nonce, batch, current>>
        /\ PromoteQueuedToPending(s, nonce[s])
    BY <1>10 DEF PromoteNext
  <2>2. Pool' = Pool
    BY <2>1 DEF PromoteQueuedToPending, Pool
  <2>3. NoneIsAhead'
    BY <1>1, <1>3, <1>6, <2>1 DEF NoneIsAhead, PromoteQueuedToPending
  <2>4. QED
    BY <1>2, <1>4, <1>5, <1>6, <2>1, <2>2, <2>3, GapStays
<1>11. CASE AllExecuted \/ BlockCreated \/ CommitBlock
  <2>1. UNCHANGED <<request, nonce, batch, current, pending, queued>>
    BY <1>11 DEF AllExecuted, BlockCreated, CommitBlock
  <2>2. NoneIsAhead' /\ Pool' = Pool
    BY <1>3, <2>1 DEF NoneIsAhead, Pool
  <2>3. QED
    BY <1>2, <1>4, <1>5, <1>6, <2>1, <2>2, GapStays
<1>12. ~RejectBlock
    BY DEF RejectBlock, KeepsBlocks
<1>13. QED
    BY <1>2, <1>7, <1>8, <1>9, <1>10, <1>11, <1>12 DEF BlockStep

\* What a request or the wallet itself has to keep.
LEMMA GapAsks ==
    ASSUME TypeInv, TypeInv', SignedIsTx', GapInv,
           UNCHANGED <<batch, current, nonce, mode, refused>>,
           Pool \subseteq Pool', PoolIsBounded', NoneIsAhead', NoncesAreReached',
           NothingIsMissing =>
               /\ \A t \in Pool' : t \in Pool \/ NoneIsMissing(t)
               /\ \A c \in Client : request'[c].step # "none" =>
                                       NoneIsMissing(request'[c].tx)
               /\ \A c \in Client : signing'[c].step = "signed" =>
                                       NoneIsMissing(signing'[c].tx)
    PROVE  GapInv'
<1>1. \A s \in Sender : nonce[s] <= nonce'[s]
    BY DEF TypeInv, TypeOK
<1>2. ASSUME NEW t \in Tx, NoneIsMissing(t)
      PROVE  NoneIsMissing(t)'
    BY <1>1, <1>2, NoneGoesMissing
<1>3. Pool' \subseteq Tx
    BY DEF TypeInv, TypeOK, Pool
<1>4. ASSUME NothingIsMissing
      PROVE  NothingIsMissing'
  <2>1. \A t \in Pool' : NoneIsMissing(t)'
    BY <1>2, <1>3, <1>4 DEF NothingIsMissing
  <2>2. ASSUME NEW c \in Client, request'[c].step # "none"
        PROVE  NoneIsMissing(request[c].tx)'
    <3>1. PICK t \in Tx : t = request'[c].tx
      BY <2>2 DEF TypeInv, RequestsHaveTx
    <3>2. NoneIsMissing(t)'
      BY <1>2, <1>4, <2>2, <3>1
    <3>3. QED
      BY <3>1, <3>2 DEF NoneIsMissing
  <2>3. ASSUME NEW c \in Client, signing'[c].step = "signed"
        PROVE  NoneIsMissing(signing[c].tx)'
    <3>1. PICK t \in Tx : t = signing'[c].tx
      BY <2>3 DEF SignedIsTx
    <3>2. NoneIsMissing(t)'
      BY <1>2, <1>4, <2>3, <3>1
    <3>3. QED
      BY <3>1, <3>2 DEF NoneIsMissing
  <2>4. current' # NoTx => current'.nonce < nonce'[current'.from]
    BY <1>4 DEF NothingIsMissing
  <2>5. QED
    BY <2>1, <2>2, <2>3, <2>4 DEF NothingIsMissing
<1>5. QED
    BY <1>4 DEF GapInv, KeepsBlocks

\* A transaction that was signed is what a request brings.
LEMMA GapRequest ==
    ASSUME TypeInv, TypeInv', SignedIsTx, SignedIsTx', GapInv, KeepsBlocks,
           NEW c \in Client, WalletRequestStep(c) \/ SubmitSigned(c)
    PROVE  GapInv'
<1> USE DEF poolVars, blockVars, chainVars
<1>1. /\ nonce \in [Sender -> Nat] /\ request \in [Client -> RequestType]
      /\ RequestsHaveTx /\ Pool \subseteq Tx /\ DOMAIN signing = Client
    BY DEF TypeInv, TypeOK, RequestType, Pool, SignedIsTx
<1>2. UNCHANGED <<batch, current, nonce, mode, refused>>
    BY DEF WalletRequestStep, SubmitSigned, Submit, ValidateNonce,
           ValidateBalance, AddToPool, KeepsBlocks
<1>3. NoneIsAhead /\ NoncesAreReached /\ PoolIsBounded
    BY DEF GapInv
<1>4. ASSUME UNCHANGED poolVars
      PROVE  Pool' = Pool /\ PoolIsBounded' /\ NoneIsAhead'
    BY <1>2, <1>3, <1>4 DEF Pool, PoolIsBounded, NoneIsAhead
<1>5. CASE SubmitSigned(c)
  <2>1. PICK tx \in Tx : tx = signing[c].tx
    BY <1>5 DEF SubmitSigned, SignedIsTx
  <2>2. /\ UNCHANGED poolVars /\ signing[c].step = "signed"
        /\ signing' = [signing EXCEPT ![c] = NotSigning]
        /\ request' = [request EXCEPT ![c] =
               [step |-> "nonce", tx |-> tx, nonce |-> nonce[tx.from]]]
    BY <1>5, <2>1 DEF SubmitSigned, Submit
  <2>3. \A d \in Client :
            /\ request'[d] = IF d = c THEN [step |-> "nonce", tx |-> tx,
                                            nonce |-> nonce[tx.from]]
                                      ELSE request[d]
            /\ signing'[d] = IF d = c THEN NotSigning ELSE signing[d]
    BY <1>1, <2>2
  <2>4. NoncesAreReached'
    BY <1>2, <1>3, <2>3 DEF NoncesAreReached, NotSigning
  <2>5. NothingIsMissing =>
            /\ \A d \in Client : request'[d].step # "none" =>
                                    NoneIsMissing(request'[d].tx)
            /\ \A d \in Client : signing'[d].step = "signed" =>
                                    NoneIsMissing(signing'[d].tx)
    BY <2>1, <2>2, <2>3 DEF NothingIsMissing, NotSigning
  <2>6. QED
    BY <1>2, <1>4, <2>2, <2>4, <2>5, GapAsks
<1>6. CASE WalletRequestStep(c)
  <2>1. signing' = signing /\ (ValidateNonce(c) \/ ValidateBalance(c) \/ AddToPool(c))
    BY <1>6 DEF WalletRequestStep, KeepsBlocks
  <2>2. PICK q : q = request[c]
    OBVIOUS
  <2>3. q \in RequestType /\ (q.step # "none" => q.tx \in Tx)
    BY <1>1, <2>2 DEF RequestsHaveTx
  <2>4. q.step # "none"
    BY <2>1, <2>2 DEF ValidateNonce, ValidateBalance, AddToPool
  <2>5. PICK r : /\ request' = [request EXCEPT ![c] = r]
                 /\ \/ r = NoRequest
                    \/ r = [q EXCEPT !.step = "balance"]
                    \/ r = [q EXCEPT !.step = "add", !.nonce = nonce[q.tx.from]]
    BY <2>1, <2>2 DEF ValidateNonce, ValidateBalance, AddToPool
  <2>6. /\ r.step # "none" => r.tx = q.tx
        /\ r.step = "add" => r.nonce = nonce[q.tx.from]
    <3>1. CASE r = NoRequest
      BY <3>1 DEF NoRequest
    <3>2. CASE r = [q EXCEPT !.step = "balance"]
      <4>1. r.step = "balance" /\ r.tx = q.tx
        BY <2>3, <3>2 DEF RequestType
      <4>2. QED
        BY <4>1
    <3>3. CASE r = [q EXCEPT !.step = "add", !.nonce = nonce[q.tx.from]]
      <4>1. PICK n : n = nonce[q.tx.from]
        OBVIOUS
      <4>2. r = [q EXCEPT !.step = "add", !.nonce = n]
        BY <3>3, <4>1
      <4>3. r.tx = q.tx /\ r.nonce = n
        BY <2>3, <4>2 DEF RequestType
      <4>4. QED
        BY <4>1, <4>3
    <3>4. QED
      BY <2>5, <3>1, <3>2, <3>3
  <2>7. \A d \in Client : request'[d] = IF d = c THEN r ELSE request[d]
    BY <1>1, <2>5
  <2>8. NoncesAreReached'
    <3>1. \A s \in Sender : nonce[s] <= nonce[s]
      BY <1>1
    <3>2. q.tx.from \in Sender
      BY <2>3, <2>4, TxType
    <3>3. ASSUME NEW d \in Client, request'[d].step = "add"
          PROVE  request'[d].nonce <= nonce[request'[d].tx.from]
      BY <1>3, <2>6, <2>7, <3>1, <3>2, <3>3 DEF NoncesAreReached
    <3>4. QED
      BY <1>2, <1>3, <2>1, <3>3 DEF NoncesAreReached
  <2>9. NothingIsMissing =>
            /\ \A d \in Client : request'[d].step # "none" =>
                                    NoneIsMissing(request'[d].tx)
            /\ \A d \in Client : signing'[d].step = "signed" =>
                                    NoneIsMissing(signing'[d].tx)
    BY <2>1, <2>2, <2>4, <2>6, <2>7 DEF NothingIsMissing
  <2>10. CASE UNCHANGED poolVars
    BY <1>2, <1>4, <2>8, <2>9, <2>10, GapAsks
  <2>11. CASE ~UNCHANGED poolVars
    <3>1. q.step = "add" /\ Add(q.tx, q.nonce)
      BY <2>1, <2>2, <2>11 DEF ValidateNonce, ValidateBalance, AddToPool
    <3>2. PICK tx \in Tx : tx = q.tx
      BY <2>3, <2>4
    <3>3. /\ pending' \subseteq pending \cup {tx}
          /\ Pool' = Pool \cup {tx}
          /\ tx \in pending' => tx \in pending \/ tx.nonce = q.nonce
      BY <3>1, <3>2 DEF Add, Pool
    <3>4. tx.from \in Sender /\ tx.nonce \in Nat /\ q.nonce <= nonce[tx.from]
      BY <1>3, <2>2, <3>1, <3>2, TxType DEF NoncesAreReached
    <3>5. NoneIsAhead'
      BY <1>2, <1>3, <3>3, <3>4 DEF NoneIsAhead
    <3>6. PoolIsBounded'
      <4>1. PICK b \in Nat : \A t \in Pool : t.nonce <= b
        BY <1>3 DEF PoolIsBounded
      <4>2. PICK top \in Nat : b <= top /\ tx.nonce <= top
        <5>1. CASE b <= tx.nonce
          BY <3>4, <5>1
        <5>2. CASE ~(b <= tx.nonce)
          BY <3>4, <4>1, <5>2
        <5>3. QED
          BY <5>1, <5>2
      <4>3. ASSUME NEW t \in Pool'
            PROVE  t.nonce <= top
        <5>1. t \in Pool => t.nonce \in Nat /\ t.nonce <= b
          BY <1>1, <4>1, TxType
        <5>2. t \in Pool \/ t = tx
          BY <3>3
        <5>3. QED
          BY <3>4, <4>1, <4>2, <5>1, <5>2
      <4>4. QED
        BY <4>3 DEF PoolIsBounded
    <3>7. NothingIsMissing => NoneIsMissing(tx)
      BY <2>2, <2>4, <3>2 DEF NothingIsMissing
    <3>8. QED
      BY <1>2, <2>8, <2>9, <3>3, <3>5, <3>6, <3>7, GapAsks
  <2>12. QED
    BY <2>10, <2>11
<1>7. QED
    BY <1>5, <1>6

\* The wallet asks for the account's nonce, and signs with the next one.
LEMMA GapSign ==
    ASSUME TypeInv, TypeInv', SignedIsTx, SignedIsTx', GapInv, KeepsBlocks,
           NEW c \in Client, Sign(c) \/ \E s \in Sender : AskNonce(c, s)
    PROVE  GapInv'
<1> USE DEF poolVars, blockVars, vars
<1>1. nonce \in [Sender -> Nat] /\ Pool \subseteq Tx /\ DOMAIN signing = Client
    BY DEF TypeInv, TypeOK, Pool, SignedIsTx
<1>2. UNCHANGED <<vars, refused>>
    BY DEF Sign, AskNonce
<1>3. NoneIsAhead /\ NoncesAreReached /\ PoolIsBounded
    BY DEF GapInv
<1>4. Pool' = Pool /\ PoolIsBounded' /\ NoneIsAhead'
    BY <1>2, <1>3 DEF Pool, PoolIsBounded, NoneIsAhead
<1>5. ASSUME NEW s,
             signing' = [signing EXCEPT ![c] = s],
             s.step = "asked" => /\ s.from \in Sender /\ s.nonce \in Nat
                                 /\ s.nonce <= nonce[s.from],
             NothingIsMissing /\ s.step = "signed" => NoneIsMissing(s.tx)
      PROVE  GapInv'
  <2>1. \A d \in Client : signing'[d] = IF d = c THEN s ELSE signing[d]
    BY <1>1, <1>5
  <2>2. NoncesAreReached'
    BY <1>2, <1>3, <1>5, <2>1 DEF NoncesAreReached
  <2>3. NothingIsMissing =>
            /\ \A d \in Client : request'[d].step # "none" =>
                                    NoneIsMissing(request'[d].tx)
            /\ \A d \in Client : signing'[d].step = "signed" =>
                                    NoneIsMissing(signing'[d].tx)
    BY <1>2, <1>5, <2>1 DEF NothingIsMissing
  <2>4. QED
    BY <1>2, <1>4, <2>2, <2>3, GapAsks
<1>6. ASSUME NEW s \in Sender, AskNonce(c, s)
      PROVE  GapInv'
  <2>1. nonce[s] \in Nat /\ nonce[s] <= nonce[s]
    BY <1>1
  <2>2. PICK asked : asked = [step |-> "asked", from |-> s, nonce |-> nonce[s],
                              tx |-> NoTx]
    OBVIOUS
  <2>3. /\ signing' = [signing EXCEPT ![c] = asked]
        /\ asked.step = "asked" /\ asked.from = s /\ asked.nonce = nonce[s]
    BY <1>6, <2>2 DEF AskNonce
  <2>4. QED
    BY <1>5, <2>1, <2>3
<1>7. CASE Sign(c)
  <2>1. CASE signing' = [signing EXCEPT ![c] = NotSigning]
    <3>1. NotSigning.step = "none"
      BY DEF NotSigning
    <3>2. QED
      BY <1>5, <2>1, <3>1
  <2>2. ASSUME NEW tx \in Tx, tx.from = signing[c].from,
               tx.nonce = NextNonce(signing[c].from, signing[c].nonce),
               signing' = [signing EXCEPT ![c] =
                   [step |-> "signed", from |-> signing[c].from,
                    nonce |-> tx.nonce, tx |-> tx]]
        PROVE  GapInv'
    <3>1. PICK signed : signed = [step |-> "signed", from |-> signing[c].from,
                                  nonce |-> tx.nonce, tx |-> tx]
      OBVIOUS
    <3>2. /\ signing' = [signing EXCEPT ![c] = signed]
          /\ signed.step = "signed" /\ signed.tx = tx
      BY <2>2, <3>1
    <3>3. PICK told \in Nat : told = signing[c].nonce /\ told <= nonce[tx.from]
      BY <1>3, <1>7, <2>2 DEF NoncesAreReached, Sign
    <3>4. NothingIsMissing => NoneIsMissing(tx)
      BY <1>3, <2>2, <3>3, NextLeavesNone DEF NothingIsMissing
    <3>5. QED
      BY <1>5, <3>2, <3>4
  <2>3. QED
    BY <1>7, <2>1, <2>2 DEF Sign
<1>8. QED
    BY <1>6, <1>7

\* No step opens a gap.
LEMMA GapStep ==
    TypeInv /\ TypeInv' /\ SignedIsTx /\ SignedIsTx' /\ SuccessInv /\ GapInv
      /\ [WalletNext]_walletVars => GapInv'
<1> SUFFICES ASSUME TypeInv, TypeInv', SignedIsTx, SignedIsTx', SuccessInv, GapInv,
                    [WalletNext]_walletVars
             PROVE  GapInv'
    OBVIOUS
<1>1. CASE UNCHANGED walletVars
  <2>1. /\ UNCHANGED <<pending, queued, batch, current, nonce, request, signing,
                       refused, mode>>
        /\ Pool' = Pool
    BY <1>1 DEF walletVars, vars, poolVars, blockVars, Pool
  <2>2. \A t : NoneIsMissing(t)' <=> NoneIsMissing(t)
    BY <2>1 DEF NoneIsMissing, NoncesInPool
  <2>3. /\ NoneIsAhead' <=> NoneIsAhead
        /\ NoncesAreReached' <=> NoncesAreReached
        /\ PoolIsBounded' <=> PoolIsBounded
        /\ NothingIsMissing' <=> NothingIsMissing
        /\ KeepsBlocks' <=> KeepsBlocks
    BY <2>1, <2>2 DEF NoneIsAhead, NoncesAreReached, PoolIsBounded,
                      NothingIsMissing, NoneIsMissing, NoncesInPool, KeepsBlocks
  <2>4. QED
    BY <2>1, <2>3 DEF GapInv
<1>2. CASE WalletNext
  <2>1. mode' = mode
    BY <1>2 DEF WalletNext, WalletBlockStep, WalletRequestStep, AskNonce, Sign,
                SubmitSigned, vars
  <2>2. CASE ~KeepsBlocks
    BY <2>1, <2>2 DEF GapInv, KeepsBlocks
  <2>3. CASE KeepsBlocks
    BY <1>2, <2>3, GapBlock, GapRequest, GapSign DEF WalletNext
  <2>4. QED
    BY <2>2, <2>3
<1>3. QED
    BY <1>1, <1>2

\* While blocks are kept and no transaction fails in its turn, the nonces that
\* the node gives what it signs leave no gap in the pool: not even callers who
\* sign for one sender at once, whose requests are refused or overtaken by
\* blocks, leave a transaction waiting for one that never comes.
THEOREM NoGapIsLeft == WalletSpec => []WalletsLeaveNoGap
<1>1. WalletSpec => []TypeInv /\ []SuccessInv
  <2>1. Spec => []TypeInv /\ []SuccessInv
    BY TypeStart, TypeStep, SuccessStart, SuccessStep, PTL DEF Spec
  <2>2. QED
    BY <2>1, WalletIsPool, PTL
<1>2. WalletInit => SignedIsTx
    BY DEF WalletInit, SignedIsTx, NotSigning
<1>3. WalletSpec => []SignedIsTx
    BY <1>2, SignedStep, PTL DEF WalletSpec
<1>4. WalletSpec => []GapInv
    BY <1>1, <1>3, GapStart, GapStep, PTL DEF WalletSpec
<1>5. TypeInv /\ GapInv => WalletsLeaveNoGap
  <2> SUFFICES ASSUME TypeInv, GapInv, KeepsBlocks, ~refused, NEW t \in Pool,
                      NEW n \in nonce[t.from]..t.nonce
               PROVE  n \in NoncesInPool(t.from)
    BY DEF WalletsLeaveNoGap, KeepsBlocks
  <2>1. t \in Tx
    BY DEF TypeInv, TypeOK, Pool
  <2>2. t.from \in Sender /\ t.nonce \in Nat /\ nonce[t.from] \in Nat
    BY <2>1, TxType DEF TypeInv, TypeOK
  <2>3. n \in Nat /\ nonce[t.from] <= n /\ (n < t.nonce \/ n = t.nonce)
    BY <2>2
  <2>4. NoneIsMissing(t)
    BY DEF GapInv, NothingIsMissing
  <2>5. CASE n < t.nonce
    BY <2>3, <2>4, <2>5 DEF NoneIsMissing
  <2>6. CASE n = t.nonce
    BY <2>6 DEF NoncesInPool
  <2>7. QED
    BY <2>3, <2>5, <2>6
<1>6. QED
    BY <1>1, <1>4, <1>5, PTL

-----------------------------------------------------------------------------
(* Signatures and the data field *)

\* What the node signs for itself it also accepts, for every chain id and both
\* recovery ids; and from nobody else.
THEOREM SignedIsVerified ==
    ASSUME NEW from, NEW other, NEW recoveryId \in {0, 1}
    PROVE  /\ VerifySignature(SignTransaction(from, recoveryId), from)
           /\ other # from =>
                 ~VerifySignature(SignTransaction(from, recoveryId), other)
<1>1. CHAIN_ID \in Nat
    BY WalletAssumption
<1>2. RecoveryId(Eip155V(recoveryId)) = recoveryId
    BY <1>1, SMT DEF RecoveryId, Eip155V
<1>3. QED
    BY <1>2 DEF VerifySignature, SignTransaction

\* The v of a signature made without a chain id is told from one made with, and
\* gives its recovery id too.
THEOREM LegacyIsVerified ==
    ASSUME NEW recoveryId \in {0, 1}
    PROVE  RecoveryId(LegacyV(recoveryId)) = recoveryId
BY SMT DEF RecoveryId, LegacyV

\* Data that was normalized, as a wallet does before it signs, is not changed
\* when submitTransaction normalizes it again.
THEOREM NormalizedStays ==
    ASSUME NEW data \in Data, NormalizeData(data) # Malformed
    PROVE  /\ NormalizeData(data) \in Data
           /\ NormalizeData(NormalizeData(data)) = NormalizeData(data)
BY DEF Data, NormalizeData, Hex, Malformed
=============================================================================
