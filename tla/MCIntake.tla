------------------------------ MODULE MCIntake ------------------------------
(* The intake of intents on small instances. *)
EXTENDS Intake, TLC

Symmetry == Permutations(Intents) \cup Permutations(Vouchers)
                \cup Permutations(Requests)
=============================================================================
