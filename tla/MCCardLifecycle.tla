--------------------------- MODULE MCCardLifecycle ---------------------------
(* Instances of CardLifecycle for TLC. *)
EXTENDS CardLifecycle, TLC

CONSTANTS w1, w2, c1, c2, c3, s1, s2

Symmetry == Permutations(Threads) \cup Permutations(Cards) \cup Permutations(Sessions)
==============================================================================
