------------------------------ MODULE MCBilling ------------------------------
(* Instances of Billing for TLC.  Days are those of a year that is not a   *)
(* leap year: 31 is the last of January, 59 of February, 90 of March.      *)
EXTENDS Billing, TLC

CONSTANTS a1, a2, c1, c2, c3, t1, t2, t3, g1, g2, g3

\* Two cards on one account, one on another.
MCAccountOf == c1 :> a1 @@ c2 :> a1 @@ c3 :> a2
MCCardOf == t1 :> c1 @@ t2 :> c2 @@ t3 :> c3
\* January 10; January 30, in two windows; February 28, in none.
MCDayOf == t1 :> 10 @@ t2 :> 30 @@ t3 :> 59
MCAmount == t1 :> 1000000 @@ t2 :> 5000 @@ t3 :> 10000
MCFee == t1 :> 0 @@ t2 :> 150 @@ t3 :> 0
Symmetry == Permutations(Generations)
==============================================================================
