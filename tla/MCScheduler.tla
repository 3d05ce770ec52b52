------------------------------ MODULE MCScheduler ------------------------------
(***************************************************************************)
(* Scheduler for TLC: two jobs, one update, overlapping runs, two saves    *)
(* that may overlap, and a crash or a disk error at every file operation.  *)
(***************************************************************************)
EXTENDS Scheduler, TLC

\* The jobs are alike, and so are the saves.
Interchangeable == Permutations(Job) \cup Permutations(Saver)

=============================================================================
