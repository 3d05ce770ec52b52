----------------------------- MODULE MCTaskQueue -----------------------------
(***************************************************************************)
(* TaskQueue for TLC: five requests against two slots and a queue of two,  *)
(* so that one request can find the queue full, two can wait behind two    *)
(* owners, and a drain can come between any two steps.                     *)
(***************************************************************************)
EXTENDS TaskQueue

=============================================================================
