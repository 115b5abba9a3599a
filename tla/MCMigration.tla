----------------------------- MODULE MCMigration -----------------------------
(***************************************************************************)
(* A small instance of Migration for TLC; jobs are interchangeable.        *)
(***************************************************************************)
EXTENDS Migration, TLC

Symmetry == Permutations(Job)
=============================================================================
