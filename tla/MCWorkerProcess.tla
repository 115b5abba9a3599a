--------------------------- MODULE MCWorkerProcess ---------------------------
(***************************************************************************)
(* WorkerProcess with two read loops, which are enough for one to be       *)
(* executing while the other is still to be started, and scans of one      *)
(* entry: what follows a stop within a scan is a matter of MCWorker.       *)
(***************************************************************************)
EXTENDS WorkerProcess
=============================================================================
