-------------------------------- MODULE Wallet --------------------------------
(***************************************************************************)
(* The transactions the node signs itself:                                 *)
(* TransactionService.signTransaction (src/src/transaction/                *)
(* transaction.service.ts) followed by submitTransaction, as               *)
(* ContractService.executeContract and deployContract (src/src/contract/   *)
(* contract.service.ts) and the bot (src/src/bot/                          *)
(* transaction-bot.service.ts) call them, with the signatures of           *)
(* CryptoService (src/src/common/crypto/crypto.service.ts).                *)
(*                                                                         *)
(* Such a caller is a Client of TransactionPool.  It does not choose the   *)
(* nonce: the account's is asked for, and once the answer is there the     *)
(* pool is looked through.  The bot sends its transactions one after the   *)
(* other, only for accounts that can pay; both leave fewer behaviours.     *)
(***************************************************************************)
EXTENDS TransactionPool

CONSTANTS
    CHAIN_ID,
    GasPrice     \* what all these callers pay, 1 Gwei

ASSUME WalletAssumption == {CHAIN_ID, GasPrice} \subseteq Nat

VARIABLES
    signing,     \* where each client's signTransaction is
    refused      \* history: a transaction whose turn it was has failed

walletVars == <<vars, signing, refused>>

NotSigning == [step |-> "none", from |-> NoTx, nonce |-> 0, tx |-> NoTx]

-----------------------------------------------------------------------------
(* Signatures: a signature recovers its signer with the right recovery id, *)
(* and somebody else with the other.                                       *)

\* CryptoService.sign and signTransaction.
LegacyV(recoveryId) == recoveryId + 27
Eip155V(recoveryId) == CHAIN_ID * 2 + 35 + recoveryId

\* recoverPublicKey accepts 0 and 1 only.
RecoveryId(v) == IF v >= 35 THEN v - 35 - ((v - 35) \div 2) * 2 ELSE v - 27

SignTransaction(from, recoveryId) ==
    [signer |-> from, v |-> Eip155V(recoveryId), recoveryId |-> recoveryId]

VerifySignature(signature, from) ==
    /\ RecoveryId(signature.v) = signature.recoveryId
    /\ signature.signer = from

-----------------------------------------------------------------------------
(* The data field: its prefix, its digits, and whether blanks surround it *)

Data == [prefix : {"", "0x", "0X"}, digits : {"", "lower", "upper", "other"},
         blanks : BOOLEAN]

Hex(digits) == [prefix |-> "0x", digits |-> digits, blanks |-> FALSE]

\* Refused as no hex string.
Malformed == [prefix |-> "", digits |-> "other", blanks |-> FALSE]

NormalizeData(data) ==
    IF data.digits = "" /\ (data.prefix = "" \/ ~data.blanks) THEN Hex("")
    ELSE IF data.prefix = "0X" \/ data.digits = "other" THEN Malformed
    ELSE IF data.digits = "" THEN Hex("") ELSE Hex("lower")

-----------------------------------------------------------------------------
(* signTransaction *)

NoncesInPool(from) == {t.nonce : t \in {u \in Pool : u.from = from}}

\* Mutation: the account's nonce is taken for the last one used.
NonceAfter(from, accountNonce) ==
    IF NoncesInPool(from) = {} THEN accountNonce + 1
    ELSE CHOOSE n \in {m + 1 : m \in NoncesInPool(from)} :
            \A m \in NoncesInPool(from) : m < n

NextNonce(from, accountNonce) ==
    IF NoncesInPool(from) = {} THEN accountNonce
    ELSE CHOOSE n \in {m + 1 : m \in NoncesInPool(from)} :
            \A m \in NoncesInPool(from) : m < n

NobodySigns == \A c \in Client : signing[c] = NotSigning

WalletInit ==
    /\ Init
    /\ signing = [c \in Client |-> NotSigning]
    /\ refused = FALSE

\* The caller has chosen an account, and getNonce is asked.
AskNonce(c, s) ==
    /\ mode.wallet
    /\ signing[c] = NotSigning /\ request[c] = NoRequest
    /\ mode.overlap \/ (Idle /\ NobodySigns /\ phase = "idle")
    /\ signing' = [signing EXCEPT ![c] =
            [step |-> "asked", from |-> s, nonce |-> nonce[s], tx |-> NoTx]]
    /\ UNCHANGED <<vars, refused>>

\* The nonce is there and the transaction is signed.  (Bound: one that is not
\* in Tx goes no further, as if it could not be paid.)
Sign(c) ==
    LET from == signing[c].from
        signable == {t \in Tx : /\ t.from = from /\ t.price = GasPrice
                               /\ t.nonce = NextNonce(from, signing[c].nonce)}
    IN  /\ signing[c].step = "asked"
        /\ \/ \E tx \in signable :
                 signing' = [signing EXCEPT ![c] =
                     [step |-> "signed", from |-> from, nonce |-> tx.nonce,
                      tx |-> tx]]
           \/ /\ signable = {}
              /\ signing' = [signing EXCEPT ![c] = NotSigning]
        /\ UNCHANGED <<vars, refused>>

\* submitTransaction with what was signed.
SubmitSigned(c) ==
    /\ signing[c].step = "signed"
    /\ \E recoveryId \in {0, 1} :
          LET tx == signing[c].tx
          IN  VerifySignature(SignTransaction(tx.from, recoveryId), tx.from)
    /\ Submit(c, signing[c].tx)
    /\ signing' = [signing EXCEPT ![c] = NotSigning]
    /\ UNCHANGED <<mode, refused>>

\* A transaction with the account's nonce has left it as it was.
RefusedInBlock ==
    /\ current = NoTx /\ current' # NoTx
    /\ current'.nonce = nonce[current'.from]
    /\ current' \notin okInBlock'

WalletBlockStep ==
    /\ BlockStep
    /\ mode.overlap \/ NobodySigns
    /\ refused' = (refused \/ RefusedInBlock)
    /\ UNCHANGED <<mode, signing>>

\* Requests of others come with a nonce of their choice.
WalletRequestStep(c) ==
    /\ \/ ~mode.wallet /\ \E tx \in Tx : Submit(c, tx)
       \/ ValidateNonce(c)
       \/ ValidateBalance(c)
       \/ AddToPool(c)
    /\ UNCHANGED <<mode, signing, refused>>

WalletNext ==
    \/ WalletBlockStep
    \/ \E c \in Client :
          \/ WalletRequestStep(c)
          \/ \E s \in Sender : AskNonce(c, s)
          \/ Sign(c)
          \/ SubmitSigned(c)

WalletSpec == WalletInit /\ [][WalletNext]_walletVars

\* The timer is set again whatever became of the last block, and every
\* awaited step of a block is answered.
FairWalletSpec == WalletSpec /\ WF_walletVars(WalletBlockStep)

-----------------------------------------------------------------------------
(* Properties *)

\* While blocks are kept and no transaction fails in its turn, the nonces the
\* wallet gives leave no gap: every pool transaction has all the earlier
\* nonces of its sender before it in the pool, however many callers sign for
\* one sender at once, are refused, and overlap with blocks.
WalletsLeaveNoGap ==
    mode.wallet /\ ~mode.rejects /\ ~refused =>
        \A t \in Pool : \A n \in nonce[t.from]..t.nonce :
            n \in NoncesInPool(t.from)
=============================================================================
