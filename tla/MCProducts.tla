----------------------------- MODULE MCProducts ------------------------------
(* An instance of Products for TLC. *)
EXTENDS Products, TLC

CONSTANTS super, admin, manager, p1, c1, c2, t1, t2

\* Threads are alike, and so are card products.
Symmetry == Permutations(Threads) \cup Permutations(CardProducts)

MCRoleOf == (super :> "SUPERADMIN") @@ (admin :> "ADMIN") @@ (manager :> "MANAGER")
==============================================================================
