--------------------------- MODULE MCAgentWallets ---------------------------
(* Instances of AgentWallets for TLC.                                       *)
EXTENDS AgentWallets, TLC

Symmetry == Permutations(Requests) \cup Permutations(Ids)
=============================================================================
