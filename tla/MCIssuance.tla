----------------------------- MODULE MCIssuance ------------------------------
(* An instance of Issuance for TLC. *)
EXTENDS Issuance, TLC

CONSTANTS super, manager, p1, c1, c2, t1, t2, b1, b2

\* Threads and submitters are alike.
Symmetry == Permutations(Threads) \cup Permutations(Submitters)

MCRoleOf == (super :> "SUPERADMIN") @@ (manager :> "MANAGER")
\* The score a product asks for may be one of the band VERY_HIGH.
MCRules == (p1 :> [score |-> 500, income |-> 20000])
\* One raises a flag and has a low score, the other an income too low.
MCApplicants ==
    {[age |-> 20, income |-> 30000, verified |-> 10000, employment |-> "UNEMPLOYED"],
     [age |-> 40, income |-> 15000, verified |-> 15000, employment |-> "FULL_TIME"]}
==============================================================================
