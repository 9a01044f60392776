--------------------------- MODULE MCAccountAdmin ----------------------------
(* Instances of AccountAdmin for TLC: 1.00 to begin with; new limits of    *)
(* 0.50, 1.00, 0.005 and 2.015.                                             *)
EXTENDS AccountAdmin

CONSTANTS w1, w2

MCLimitRequests == {5000, 10000, 50, 20150}
==============================================================================
