---------------------------- MODULE MCApiDeliveries ----------------------------
(* Instances of ApiDeliveries for TLC. *)
EXTENDS ApiDeliveries
=============================================================================
