----------------------------- MODULE MCMigrations ------------------------------
(* Instances of Migrations for TLC. *)
EXTENDS Migrations, TLC

\* Processes and messages are interchangeable.
Symmetry == Permutations(Processes) \cup Permutations(MessageIds)
===============================================================================
