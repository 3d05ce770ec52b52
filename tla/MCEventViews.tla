----------------------------- MODULE MCEventViews -----------------------------
(***************************************************************************)
(* EventViews for TLC: every log of up to five events of two tool calls,   *)
(* text, thoughts and other events.                                        *)
(***************************************************************************)
EXTENDS EventViews

CallSymmetry == Permutations(CallId)

=============================================================================
