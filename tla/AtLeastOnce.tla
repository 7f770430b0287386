----------------------------- MODULE AtLeastOnce -----------------------------
(***************************************************************************)
(* What a stream with a consumer group promises the process that handles   *)
(* its entries, whatever is claimed, read, acknowledged and deleted in     *)
(* what order: an entry waits until it has been handled (or cannot be, or  *)
(* was trimmed), and once it waits no more it is not handled again.  Until *)
(* the first fault this is a queue, whose entries are handled once each,   *)
(* oldest first.                                                           *)
(***************************************************************************)
EXTENDS Naturals

CONSTANTS
  Entries,  \* entries, by their ids
  Poison    \* those that no handler gets

VARIABLES
  arrived,  \* entries published
  waiting,  \* those still to be handled, or to be known to be
  trimmed,  \* those the stream gave up
  runs,     \* how often each has been handled
  calm      \* no fault yet

vars == <<arrived, waiting, trimmed, runs, calm>>

Init ==
  /\ arrived = {} /\ waiting = {} /\ trimmed = {}
  /\ runs = [i \in Entries |-> 0]
  /\ calm = TRUE

\* A new entry, which may push others out.
Arrive(i) ==
  /\ i \in Entries \ arrived
  /\ arrived' = arrived \cup {i}
  /\ \E gone \in SUBSET arrived' :
       trimmed' = trimmed \cup gone /\ waiting' = (waiting \cup {i}) \ gone
  /\ UNCHANGED runs

\* An entry trimmed while it was in hand is handled all the same.
Handle(i) ==
  /\ i \in (waiting \cup trimmed) \ Poison
  /\ calm => runs[i] = 0 /\ \A j \in waiting : i <= j
  /\ runs' = [runs EXCEPT ![i] = @ + 1]
  /\ UNCHANGED <<arrived, waiting, trimmed>>

Conclude(i) ==
  /\ i \in waiting
  /\ runs[i] > 0 \/ i \in Poison
  /\ waiting' = waiting \ {i}
  /\ UNCHANGED <<arrived, trimmed, runs>>

\* A fault may come with what it interrupts, or by itself.
Next ==
  /\ \/ \E i \in Entries : Arrive(i) \/ Handle(i) \/ Conclude(i)
     \/ UNCHANGED <<arrived, waiting, trimmed, runs>>
  /\ calm' => calm

Spec == Init /\ [][Next]_vars
=============================================================================
