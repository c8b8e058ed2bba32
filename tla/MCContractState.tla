-------------------------- MODULE MCContractState --------------------------
(* ContractState with two contracts, a cache that one of them fills, two    *)
(* codes and one value to write.                                            *)
EXTENDS ContractState, TLC

CONSTANTS a1, a2, x, y, r1

MCValue == [nonce : {0, 1}, code : Code \cup {NoCode}]

ContractSymmetry == Permutations(Addr) \cup Permutations(Code)
=============================================================================
