------------------------------ MODULE MCReadApi ------------------------------
(***************************************************************************)
(* Small instances of ReadApi for TLC; jobs are interchangeable.           *)
(***************************************************************************)
EXTENDS ReadApi

AskedLimits == {-1, 0, 1, 3, NaN}

Symmetry == Permutations(Job)
=============================================================================
