-------------------------- MODULE MCBlockProducer --------------------------
(* Consensus with two chains of timers, five validators and committees of   *)
(* three of them.                                                           *)
EXTENDS Consensus

CONSTANTS l1, l2

MCValidators == <<"A", "B", "C", "D", "E">>

MCSeed(slot, purpose) == IF purpose = "proposer" THEN 3 * slot + 1
                                                 ELSE 7 * slot + 2
=============================================================================
