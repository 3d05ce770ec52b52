------------------------------ MODULE MCConsole ------------------------------
(***************************************************************************)
(* Console for TLC: two runs of this page or of another one, one slot, a    *)
(* connection that may break once and two clicks. Runs are interchangeable *)
(* in the model and in the properties, which are all invariants.           *)
(***************************************************************************)
EXTENDS Console

TaskSymmetry == Permutations(Task)

=============================================================================
