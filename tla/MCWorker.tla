------------------------------- MODULE MCWorker -------------------------------
(***************************************************************************)
(* Worker with two read loops, scans of at most two entries, enough for a *)
(* second one to follow a stop, and one call of ProcessJob: calls share no *)
(* state, so a heartbeat that outlives its call meets nothing new.         *)
(***************************************************************************)
EXTENDS Worker
=============================================================================
