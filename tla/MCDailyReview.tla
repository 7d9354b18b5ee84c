--------------------------- MODULE MCDailyReview ---------------------------
(* Two requests about a day that ends while they run; a memory expires after it. *)
EXTENDS DailyReview, TLC
CONSTANTS q1, q2, m1
MCExpiry == [m \in {m1} |-> 2]
Symmetry == Permutations(Calls)
=============================================================================
