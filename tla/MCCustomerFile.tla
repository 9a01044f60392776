--------------------------- MODULE MCCustomerFile ----------------------------
(* An instance of CustomerFile for TLC. *)
EXTENDS CustomerFile

CONSTANTS r1, r2, k1, k2, p1, p2, d1, d2
==============================================================================
