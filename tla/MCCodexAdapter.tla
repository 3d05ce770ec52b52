---------------------------- MODULE MCCodexAdapter ----------------------------
(***************************************************************************)
(* CodexAdapter for TLC: two runs on the adapter of the server.            *)
(***************************************************************************)
EXTENDS CodexAdapter

=============================================================================
