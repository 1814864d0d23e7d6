----------------------------- MODULE MCSettlement -----------------------------
(* An instance of Settlement for TLC.                                       *)
EXTENDS Settlement, TLC

Symmetry == Permutations(Slots) \cup Permutations(Hashes) \cup Permutations(Alerts)

=============================================================================
