----------------------------- MODULE MCEthCall -----------------------------
(* EthCall with one or two requests beside the block. *)
EXTENDS EthCall, TLC

CONSTANTS a1, a2, v1, v2, r1, c1, c2

CallSymmetry ==
    Permutations(Addr) \cup Permutations(Value) \cup Permutations(Caller)
=============================================================================
