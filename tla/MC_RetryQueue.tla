--------------------------- MODULE MC_RetryQueue ---------------------------
(***************************************************************************)
(* Instances of RetryQueue for TLC: one run at a time, and two that may    *)
(* overlap.                                                                *)
(***************************************************************************)
EXTENDS RetryQueue, TLC

CONSTANTS c1, c2
=============================================================================
