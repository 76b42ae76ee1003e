------------------------------ MODULE MCCleanup ------------------------------
(* A small instance of Cleanup for TLC: the data and the control plane of a pair. *)
EXTENDS Cleanup

CONSTANTS sd, sc

TwoChildren == <<sd, sc>>
=============================================================================
