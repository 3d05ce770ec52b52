------------------------------- MODULE MCServer -------------------------------
(***************************************************************************)
(* Server for TLC: the composition of the queue, the runner and the        *)
(* process, with a queue that has no limit.                                *)
(***************************************************************************)
EXTENDS Server

=============================================================================
