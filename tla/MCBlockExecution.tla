------------------------- MODULE MCBlockExecution --------------------------
(* BlockExecution on two accounts, two account values and a reader, with    *)
(* a cache that one account fills.                                          *)
EXTENDS BlockExecution

CONSTANTS a1, a2, v1, v2, r1
=============================================================================
