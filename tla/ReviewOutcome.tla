---------------------------- MODULE ReviewOutcome ----------------------------
(***************************************************************************)
(* What a review promises, whatever its revisions, claims and retries: its *)
(* verdict is final and ends it.  Attempts to deliver that were reported   *)
(* as failed may have reached somebody, so a text may have gone out before *)
(* the verdict; nothing goes out after it, and the attempt that ended as a *)
(* delivery is the last one.  The promise holds as long as the sessions on *)
(* the task keep to their order.                                           *)
(***************************************************************************)
EXTENDS Sequences

CONSTANT Texts

VARIABLES
  gone,     \* texts that have gone out, oldest first
  verdict,  \* "open", "rejected" or "delivered"
  calm      \* no session has written over another's change

vars == <<gone, verdict, calm>>

Init == gone = <<>> /\ verdict = "open" /\ calm = TRUE

\* An attempt that reached somebody, reported as failed or as a delivery.
Attempt(t) ==
  /\ verdict = "open"
  /\ gone' = Append(gone, t)
  /\ verdict' \in {"open", "delivered"}

Reject ==
  /\ verdict = "open"
  /\ verdict' = "rejected"
  /\ UNCHANGED gone

Next ==
  calm' => calm /\ (Reject \/ \E t \in Texts : Attempt(t))

Spec == Init /\ [][Next]_vars
=============================================================================
