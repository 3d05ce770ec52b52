------------------------------ MODULE MCRunStore ------------------------------
(***************************************************************************)
(* RunStore for TLC: one run and two readers, whose passes overlap with    *)
(* each other and with the writes of the owner. Readers are alike.         *)
(***************************************************************************)
EXTENDS RunStore, TLC

ReaderSymmetry == Permutations(Reader)

=============================================================================
