----------------------------- MODULE MCSourceIntake -----------------------------
(* An instance of SourceIntake for TLC: a Telegram source with one message and a   *)
(* SafeW conversation with another.                                               *)
EXTENDS SourceIntake

CONSTANTS tg, safew, m1, m3

PostedIn == [m \in Message |-> IF m = m3 THEN safew ELSE tg]
=============================================================================
