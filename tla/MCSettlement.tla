---------------------------- MODULE MCSettlement ----------------------------
(* The settlement engine on small instances. *)
EXTENDS Settlement, TLC

Symmetry == Permutations(Drivers) \cup Permutations(Txs)
=============================================================================
