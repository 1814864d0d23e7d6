---------------------------- MODULE MCLeaderboard ----------------------------
(* An instance of Leaderboard for TLC: the lives the code gives the copies,  *)
(* in half minutes.                                                          *)
EXTENDS Leaderboard, TLC

Symmetry == Permutations(Runs)

=============================================================================
