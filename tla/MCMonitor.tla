----------------------------- MODULE MCMonitor -----------------------------
(* An instance of Monitor for TLC. *)
EXTENDS Monitor

CONSTANTS k1, k2
=============================================================================
