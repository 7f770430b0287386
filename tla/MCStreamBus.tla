----------------------------- MODULE MCStreamBus -----------------------------
(* Instances of StreamBus for TLC. *)
EXTENDS StreamBus
=============================================================================
