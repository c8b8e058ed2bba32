------------------------- MODULE MCAccountService --------------------------
(* AccountService on two accounts, one of them evicted from the cache when *)
(* the other enters it.                                                    *)
EXTENDS AccountService

CONSTANTS a1, a2, p, q1, q2

MCObject == 1..MaxAccounts
MCValue == 0..MaxBalance

Mode(t, j, w, q, f) ==
    [transfers |-> t, rejects |-> j, rewards |-> w, requests |-> q,
     failures |-> f]

\* Blocks of transfers alone, and everything but transfers.
MCModes ==
    {Mode(TRUE, FALSE, FALSE, FALSE, FALSE),
     Mode(FALSE, TRUE, TRUE, TRUE, TRUE)}

\* Blocks that are all kept, and their rewards.
MCRewards == {Mode(FALSE, FALSE, TRUE, FALSE, FALSE)}
=============================================================================
