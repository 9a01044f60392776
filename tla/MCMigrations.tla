----------------------------- MODULE MCMigrations -----------------------------
(* An instance of Migrations for TLC. *)
EXTENDS Migrations, TLC

CONSTANTS o1, o2

\* Operators are alike.
Symmetry == Permutations(Operators)
===============================================================================
