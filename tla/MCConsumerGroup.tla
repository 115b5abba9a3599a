--------------------------- MODULE MCConsumerGroup ---------------------------
(***************************************************************************)
(* ConsumerGroup with two read loops for TLC.  The loops are alike, but    *)
(* TLC's liveness checking does not go with symmetry.                      *)
(***************************************************************************)
EXTENDS ConsumerGroup
=============================================================================
