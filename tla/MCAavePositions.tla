-------------------------- MODULE MCAavePositions --------------------------
(* The instance of AavePositions that TLC checks. *)
EXTENDS AavePositions, TLC

Symmetry == Permutations(Requests) \cup Permutations(Txs)

=============================================================================
