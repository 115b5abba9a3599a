----------------------------- MODULE MCJobStore -----------------------------
(***************************************************************************)
(* JobStore for TLC.  Workers are interchangeable, and so are dispatchers. *)
(* The waits between attempts are looked at on narrow integers: two units  *)
(* are a second, and one doubling more than the clamp allows would         *)
(* overflow.                                                               *)
(***************************************************************************)
EXTENDS RetryDelays, TLC

Perms == Permutations(Worker) \cup Permutations(Dispatcher)
=============================================================================
