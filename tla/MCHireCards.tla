----------------------------- MODULE MCHireCards -----------------------------
(* An instance of HireCards for TLC: two agents at different prices.        *)
EXTENDS HireCards, TLC

CONSTANTS c1, c2

TwoPrices == c1 :> 1 @@ c2 :> 2

\* No definition and no property tells one task from another.
TaskSymmetry == Permutations(Tasks)

=============================================================================
