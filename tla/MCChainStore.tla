---------------------------- MODULE MCChainStore ----------------------------
(* ChainStore on two accounts and four transactions: a transfer and a       *)
(* deployment by one, a call that the EVM reverts and one that it does not  *)
(* by the other.                                                            *)
EXTENDS ChainStore

CONSTANTS a1, a2, c1, code, input, t1, t2, t3, t4

\* 2 * 999 + 35: the v of a signature for chain 999.  Neither of its bytes, 7
\* and 241, is a digit or a blank.
V == 2033

MCLeadingNumber(n) == 0

transfer == NewTransaction(Hex(t1), Hex(a1), Hex(a2), 1, 0, V, Prefix)
deployment == NewTransaction(Hex(t2), Hex(a1), NullValue, 0, 1, V, Hex(code))
failing == NewTransaction(Hex(t3), Hex(a2), Hex(c1), 0, 0, V, Hex(input))
call == NewTransaction(Hex(t4), Hex(a2), Hex(c1), 0, 1, V, Hex(input))

MCReverting == {failing}
MCBatches == {<<>>, <<transfer>>, <<transfer, deployment>>, <<deployment>>,
              <<failing, call>>}
=============================================================================
