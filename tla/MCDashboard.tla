----------------------------- MODULE MCDashboard -----------------------------
(***************************************************************************)
(* A small instance of Dashboard for TLC.                                  *)
(***************************************************************************)
EXTENDS Dashboard
=============================================================================
