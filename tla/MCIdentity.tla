----------------------------- MODULE MCIdentity ------------------------------
(* An instance of Identity for TLC: the padded width holds 9 numbers, all    *)
(* used by users but one; there is no administrator but the seeded one.      *)
EXTENDS Identity

CONSTANTS t1, t2, a, b

MCEmails == [user |-> {a, b}, admin |-> {a}]
MCExisting == [user |-> 8, admin |-> 0]
==============================================================================
