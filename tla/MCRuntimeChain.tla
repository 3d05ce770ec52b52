---------------------------- MODULE MCRuntimeChain ----------------------------
(***************************************************************************)
(* RuntimeChain for TLC: one call, one process that streams two deltas.    *)
(***************************************************************************)
EXTENDS RuntimeChain

=============================================================================
