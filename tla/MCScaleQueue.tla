---------------------------- MODULE MCScaleQueue ----------------------------
(***************************************************************************)
(* Small instances of ScaleQueue for TLC.                                  *)
(***************************************************************************)
EXTENDS ScaleQueue
=============================================================================
