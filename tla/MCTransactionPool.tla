------------------------- MODULE MCTransactionPool -------------------------
(* TransactionPool and Wallet with transactions of one sender, two of which *)
(* have the same nonce, and one of another sender.                          *)
EXTENDS Wallet

CONSTANTS s1, s2, q1, q2

T(s, n, p, i) == [from |-> s, nonce |-> n, price |-> p, id |-> i]

MCTx == {T(s1, 0, 1, 1), T(s1, 0, 2, 2), T(s1, 1, 2, 3), T(s2, 0, 1, 4)}
MCTxSameNonce == {T(s1, 0, 1, 1), T(s1, 0, 2, 2), T(s1, 1, 2, 3)}

Mode(o, r, w) == [overlap |-> o, rejects |-> r, wallet |-> w]

MCModes == {Mode(FALSE, FALSE, FALSE), Mode(FALSE, TRUE, FALSE),
            Mode(TRUE, TRUE, FALSE), Mode(TRUE, FALSE, TRUE)}
MCOverlap == {Mode(TRUE, FALSE, FALSE)}
=============================================================================
