---------------------------- MODULE MCDeliveryQueue ----------------------------
(***************************************************************************)
(* DeliveryQueue for TLC: two entries that are given up after two failed   *)
(* deliveries, with crashes and disk errors at every file operation.       *)
(***************************************************************************)
EXTENDS DeliveryQueue

=============================================================================
