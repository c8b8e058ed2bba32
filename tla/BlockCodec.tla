----------------------------- MODULE BlockCodec -----------------------------
(***************************************************************************)
(* Blocks, transactions and receipts (src/src/block/entities,              *)
(* src/src/transaction/entities) and the bytes they are stored as          *)
(* (src/src/storage/repositories/block-leveldb.repository.ts).             *)
(*                                                                         *)
(* A value is known by what JavaScript can tell about it.  Of the fields   *)
(* that are treated alike one stands for all: from also for r and s, value *)
(* also for gasPrice and gasLimit.  Numbers that are written as decimal    *)
(* text and read with parseInt or BigInt are numbers here.                 *)
(***************************************************************************)
EXTENDS Naturals, Sequences

\* What parseInt makes of the big-endian bytes of a number when they are read
\* as text: 5 of 0x35, and mostly nothing, that is 0.
CONSTANT LeadingNumber(_)

Tagged(type, x) == [type |-> type, x |-> x]

Hex(x) == Tagged("hex", x)                 \* "0x12ab", the digits being x
Prefix == Tagged("prefix", 0)              \* "0x"
EmptyString == Tagged("empty", 0)          \* ""
NullValue == Tagged("null", 0)             \* null

EMPTY_ROOT == Hex(<<>>)

-----------------------------------------------------------------------------
(* Entities *)

\* A transaction as it is signed and submitted.
NewTransaction(hash, from, to, value, nonce, v, data) ==
    [hash |-> hash, from |-> from, to |-> to, value |-> value,
     nonce |-> nonce, v |-> v, data |-> data, status |-> "pending"]

\* A receipt before the block's hash is known.
NewReceipt(tx, index, number, status) ==
    [transactionHash |-> tx.hash, transactionIndex |-> index,
     blockHash |-> EmptyString, blockNumber |-> number, from |-> tx.from,
     to |-> tx.to, status |-> status, contractAddress |-> NullValue,
     logs |-> <<>>]

\* An event of the EVM, completed by createBlock.
NewLog(address, number, tx, index) ==
    [address |-> address, blockNumber |-> number,
     transactionHash |-> tx.hash, transactionIndex |-> index,
     blockHash |-> EmptyString]

NewBlock(number, parent, timestamp, proposer, txs, roots, hash) ==
    [number |-> number, hash |-> hash, parentHash |-> parent,
     timestamp |-> timestamp, proposer |-> proposer, transactions |-> txs,
     stateRoot |-> roots.state, transactionsRoot |-> roots.transactions,
     receiptsRoot |-> roots.receipts]

HeaderFields == {"number", "hash", "parentHash", "timestamp", "proposer",
                 "stateRoot", "transactionsRoot", "receiptsRoot"}

GetHeader(block) ==
    [f \in HeaderFields \cup {"transactionCount"} |->
        IF f = "transactionCount" THEN Len(block.transactions) ELSE block[f]]

GetBody(block) == block.transactions

FromHeaderAndBody(header, body) ==
    [f \in HeaderFields \cup {"transactions"} |->
        IF f = "transactions" THEN body ELSE header[f]]

\* toJSON of a transaction: data is a string, or the bytes that the store
\* returned.
DataJson(data) ==
    CASE data.type \in {"hex", "hexBytes"} -> Hex(data.x)
      [] OTHER -> Prefix

TransactionJson(tx) == [tx EXCEPT !.data = DataJson(tx.data)]

\* toJSON of a block; the status of its transactions is left out.
BlockJson(block) ==
    [block EXCEPT !.transactions =
        [i \in DOMAIN @ |->
            [f \in DOMAIN @[i] \ {"status"} |-> TransactionJson(@[i])[f]]]]

-----------------------------------------------------------------------------
(* The roots of a block: the trie of what is encoded under its index *)

HexToBytes(hex) ==
    IF hex.type = "hex" THEN Tagged("hexBytes", hex.x) ELSE Tagged("noBytes", 0)

CalculateTransactionsRoot(txs) ==
    Hex([i \in DOMAIN txs |->
            [nonce |-> txs[i].nonce, to |-> HexToBytes(txs[i].to),
             value |-> txs[i].value, from |-> HexToBytes(txs[i].from),
             v |-> txs[i].v]])

CalculateReceiptsRoot(receipts) ==
    Hex([i \in DOMAIN receipts |->
            [status |-> receipts[i].status,
             logs |-> [j \in DOMAIN receipts[i].logs |->
                          HexToBytes(receipts[i].logs[j].address)]]])

-----------------------------------------------------------------------------
(* RLP, as the repository uses it *)

\* What decoding returns for a string, a number or null that was encoded:
\* always bytes, and an empty array, which is not falsy, for nothing.
RlpItem(value) ==
    CASE value.type = "hex"    -> Tagged("hexBytes", value.x)
      [] value.type = "number" -> Tagged("bigEndian", value.x)
      [] OTHER                 -> Tagged("noBytes", 0)

\* ensureHexString of decoded bytes.
EnsureHexString(item) ==
    IF item.type = "hexBytes" THEN Hex(item.x) ELSE Prefix

\* parseInt(bytes.toString()) || 0, of the bytes of v as RLP writes a number.
ParseIntOrZero(item) ==
    IF item.type = "bigEndian" THEN LeadingNumber(item.x) ELSE 0

-----------------------------------------------------------------------------
(* Headers, bodies, lookups and receipts *)

NumberFields == {"number", "timestamp", "transactionCount"}

SerializeHeader(header) ==
    [f \in DOMAIN header |->
        IF f \in NumberFields THEN header[f] ELSE RlpItem(header[f])]

DeserializeHeader(stored) ==
    [f \in DOMAIN stored |->
        IF f \in NumberFields THEN stored[f] ELSE EnsureHexString(stored[f])]

SerializeBody(body) ==
    [i \in DOMAIN body |->
        [hash |-> RlpItem(body[i].hash), from |-> RlpItem(body[i].from),
         to |-> RlpItem(IF body[i].to = NullValue THEN EmptyString
                                                  ELSE body[i].to),
         value |-> body[i].value, nonce |-> body[i].nonce,
         v |-> RlpItem(IF body[i].v = 0 THEN EmptyString
                                        ELSE Tagged("number", body[i].v)),
         data |-> RlpItem(body[i].data)]]

\* Mutation: sender and recipient are read from each other's places.
DeserializeBodySwapped(stored) ==
    [i \in DOMAIN stored |->
        NewTransaction(EnsureHexString(stored[i].hash),
                       EnsureHexString(stored[i].to),
                       EnsureHexString(stored[i].from),
                       stored[i].value, stored[i].nonce,
                       ParseIntOrZero(stored[i].v), stored[i].data)]

\* The transactions of a stored body.  No decoded item is falsy, so an empty
\* `to` goes through ensureHexString like any other; data stays bytes.
DeserializeBody(stored) ==
    [i \in DOMAIN stored |->
        NewTransaction(EnsureHexString(stored[i].hash),
                       EnsureHexString(stored[i].from),
                       EnsureHexString(stored[i].to),
                       stored[i].value, stored[i].nonce,
                       ParseIntOrZero(stored[i].v), stored[i].data)]

\* Mutation: transactions are counted from one.
SerializeTxLookupFromOne(blockHash, blockNumber, txIndex) ==
    [blockHash |-> RlpItem(blockHash), blockNumber |-> blockNumber,
     txIndex |-> txIndex + 1]

SerializeTxLookup(blockHash, blockNumber, txIndex) ==
    [blockHash |-> RlpItem(blockHash), blockNumber |-> blockNumber,
     txIndex |-> txIndex]

DeserializeTxLookup(stored) ==
    [stored EXCEPT !.blockHash = EnsureHexString(@)]

ReceiptHexFields ==
    {"transactionHash", "blockHash", "from", "to", "contractAddress"}

\* The logs are kept as JSON.
SerializeReceipt(receipt) ==
    [f \in DOMAIN receipt |->
        IF f \in ReceiptHexFields THEN RlpItem(receipt[f]) ELSE receipt[f]]

\* Only for contractAddress is "0x" made null again.
DeserializeReceipt(stored) ==
    [f \in DOMAIN stored |->
        IF f = "contractAddress" /\ EnsureHexString(stored[f]) = Prefix
        THEN NullValue
        ELSE IF f \in ReceiptHexFields THEN EnsureHexString(stored[f])
        ELSE stored[f]]
=============================================================================
