----------------------------- MODULE MCNodeMonitor -----------------------------
(***************************************************************************)
(* An instance of NodeMonitor with two machines.                           *)
(***************************************************************************)
EXTENDS NodeMonitor
=============================================================================
