------------------------------ MODULE StreamBus ------------------------------
(***************************************************************************)
(* RedisStreamBus: one stream with the consumer group of the sender.       *)
(*                                                                         *)
(* Entries are the numbers 1, 2, ... in the order of their Redis ids.  The *)
(* group keeps the last entry it has delivered and the pending ones, which *)
(* are delivered and not acknowledged.  A pending entry that has been idle *)
(* long enough may be claimed.  The consumer is one asyncio task: at says  *)
(* where it is, batch what it has read and not finished.                   *)
(***************************************************************************)
EXTENDS Naturals, FiniteSets

CONSTANTS
  Poison,      \* entries whose payload does not decode
  BatchSize,   \* COUNT of XREADGROUP and XAUTOCLAIM
  MaxLen,      \* redis_stream_maxlen, 0 for none
  MaxEntries,  \* bound on the entries published
  MaxFaults    \* bound on Redis errors, stops and crashes

ASSUME StreamAssumption ==
  /\ Poison \subseteq Nat
  /\ BatchSize \in Nat \ {0}
  /\ {MaxLen, MaxEntries, MaxFaults} \subseteq Nat

VARIABLES
  added,     \* entries published
  entries,   \* entries in the stream (XLEN is their number)
  last,      \* last delivered entry of the group
  pending,   \* the group's pending entries
  idle,      \* pending entries idle for redis_claim_idle_ms
  at,        \* where the consumer is
  batch,     \* entries it has read and not finished
  current,   \* the one in hand
  stopping,  \* stop_event
  runs,      \* ghost: how often the handler has returned for each entry
  trimmed,   \* ghost: entries removed by MAXLEN
  faults     \* Redis errors, stops and crashes so far

redis == <<added, entries, last, pending, idle>>
consumer == <<at, batch, current, stopping>>
vars == <<redis, consumer, runs, trimmed, faults>>

-----------------------------------------------------------------------------
Entries == 1 .. MaxEntries

Places == {"down", "poll", "read", "batch", "handle", "wait", "ack", "delete"}

\* The first COUNT elements of S.
First(S) == {i \in S : Cardinality({j \in S : j < i}) < BatchSize}

\* What the group has not delivered yet.
Unread == {i \in entries : i > last}

Handled(i) == runs[i] > 0

Goto(place) == at' = place /\ UNCHANGED <<batch, current, stopping>>

\* publish_incoming, publish_command: XADD, which with an approximate MAXLEN may
\* drop any number of the oldest entries above the limit, pending or not.
Publish ==
  /\ added < MaxEntries
  /\ added' = added + 1
  /\ \E n \in IF MaxLen = 0 THEN {0} ELSE 0 .. added :
       LET kept == {i \in entries \cup {added + 1} : i > n} IN
       /\ n > 0 => Cardinality(kept) >= MaxLen
       /\ entries' = kept
       /\ trimmed' = trimmed \cup (entries \ kept)
  /\ UNCHANGED <<last, pending, idle, consumer, runs, faults>>

\* Time passes over a pending entry.
Age(i) ==
  /\ i \in pending \ idle
  /\ idle' = idle \cup {i}
  /\ UNCHANGED <<added, entries, last, pending, consumer, runs, trimmed, faults>>

-----------------------------------------------------------------------------
(* Redis commands of the consumer. *)

\* Mutant: pending entries are never claimed.
Claimable_None == {}

\* The entries XAUTOCLAIM returns.
Claimable == First(idle \cap entries)

\* XAUTOCLAIM: their idle time starts again; a pending entry that is no longer in
\* the stream is dropped.
XAutoClaim ==
  /\ idle' = (idle \ Claimable) \cap entries
  /\ pending' = pending \ (idle \ entries)
  /\ UNCHANGED <<added, entries, last>>

XReadGroup ==
  /\ \/ Unread = {} /\ UNCHANGED last
     \/ /\ last' \in First(Unread)
        /\ \A i \in First(Unread) : i <= last'
  /\ pending' = pending \cup First(Unread)
  /\ UNCHANGED <<added, entries, idle>>

XAck ==
  /\ pending' = pending \ {current} /\ idle' = idle \ {current}
  /\ UNCHANGED <<added, entries, last>>

XDel ==
  /\ entries' = entries \ {current}
  /\ UNCHANGED <<added, last, pending, idle>>

-----------------------------------------------------------------------------
(* _consume. *)

Start ==
  /\ at = "down"
  /\ at' = "poll" /\ batch' = {} /\ stopping' = FALSE
  /\ UNCHANGED <<redis, current, runs, trimmed, faults>>

\* _claimed_entries; only when there are none, new ones are read.
Claim ==
  /\ at = "poll" /\ ~stopping
  /\ XAutoClaim
  /\ batch' = Claimable
  /\ at' = IF Claimable = {} THEN "read" ELSE "batch"
  /\ UNCHANGED <<current, stopping, runs, trimmed, faults>>

\* _new_entries
Read ==
  /\ at = "read"
  /\ XReadGroup
  /\ batch' = First(Unread)
  /\ at' = "batch"
  /\ UNCHANGED <<current, stopping, runs, trimmed, faults>>

\* The next entry of the batch: what does not decode is acknowledged at once,
\* and with stop_event set the consumer returns.
NextEntry ==
  /\ at = "batch"
  /\ \/ batch = {} /\ Goto("poll")
     \/ /\ current' \in batch
        /\ \A i \in batch : current' <= i
        /\ at' = IF current' \in Poison THEN "ack"
                 ELSE IF stopping THEN "down" ELSE "handle"
        /\ UNCHANGED <<batch, stopping>>
  /\ UNCHANGED <<redis, runs, trimmed, faults>>

\* Mutant: after an exception the consumer goes on with its next entry.
Raised_GoesOn ==
  at' = "batch" /\ batch' = batch \ {current} /\ UNCHANGED <<current, stopping>>

\* Mutant: an entry whose handler raised is acknowledged.
Raised_Acknowledges == Goto("ack")

\* An exception of the handler: two seconds later it is called again.
Raised == Goto("wait")

HandlerRaises ==
  /\ at = "handle" /\ Raised
  /\ UNCHANGED <<redis, runs, trimmed, faults>>

\* The wait ends early when stop_event is set, and then the consumer returns.
TryAgain ==
  /\ at = "wait" /\ Goto(IF stopping THEN "down" ELSE "handle")
  /\ UNCHANGED <<redis, runs, trimmed, faults>>

\* Mutant: the loop around the handler is not left when it returns.
AfterHandler_Again == IF stopping THEN "down" ELSE "wait"

\* With stop_event set the consumer returns without acknowledging.
AfterHandler == IF stopping THEN "down" ELSE "ack"

HandlerReturns ==
  /\ at = "handle" /\ Goto(AfterHandler)
  /\ runs' = [runs EXCEPT ![current] = @ + 1]
  /\ UNCHANGED <<redis, trimmed, faults>>

Acknowledge ==
  /\ at = "ack" /\ XAck /\ Goto("delete")
  /\ UNCHANGED <<runs, trimmed, faults>>

\* Mutant: a deleted entry stays in the batch.
Delete_InBatch ==
  /\ at = "delete" /\ XDel
  /\ at' = "batch" /\ UNCHANGED <<batch, current, stopping, runs, trimmed, faults>>

Delete ==
  /\ at = "delete" /\ XDel
  /\ at' = "batch" /\ batch' = batch \ {current}
  /\ UNCHANGED <<current, stopping, runs, trimmed, faults>>

\* The outer loop ends.
Leave ==
  /\ at = "poll" /\ stopping /\ Goto("down")
  /\ UNCHANGED <<redis, runs, trimmed, faults>>

-----------------------------------------------------------------------------
(* Faults. *)

Fault == faults < MaxFaults /\ faults' = faults + 1

\* A Redis command fails, before or after Redis has executed it: the rest of the
\* batch stays pending and the loop starts again.
RedisError ==
  /\ Fault
  /\ \/ at \in {"poll", "read", "ack", "delete"} /\ UNCHANGED redis
     \/ at = "poll" /\ XAutoClaim
     \/ at = "read" /\ XReadGroup
     \/ at = "ack" /\ XAck
     \/ at = "delete" /\ XDel
  /\ at' = "poll" /\ batch' = {}
  /\ UNCHANGED <<current, stopping, runs, trimmed>>

Stop ==
  /\ Fault /\ at # "down" /\ ~stopping
  /\ stopping' = TRUE
  /\ UNCHANGED <<redis, at, batch, current, runs, trimmed>>

Crash ==
  /\ Fault /\ at # "down" /\ Goto("down")
  /\ UNCHANGED <<redis, runs, trimmed>>

-----------------------------------------------------------------------------
Init ==
  /\ added = 0 /\ entries = {}
  /\ last = 0 /\ pending = {} /\ idle = {}
  /\ at = "down" /\ batch = {} /\ current = 0 /\ stopping = FALSE
  /\ runs = [i \in Entries |-> 0] /\ trimmed = {} /\ faults = 0

ConsumerStep ==
  \/ Start \/ Claim \/ Read \/ NextEntry \/ TryAgain \/ HandlerReturns
  \/ Acknowledge \/ Delete \/ Leave

Next ==
  \/ Publish \/ (\E i \in Entries : Age(i))
  \/ ConsumerStep \/ HandlerRaises
  \/ RedisError \/ Stop \/ Crash

Spec == Init /\ [][Next]_vars

\* The consumer goes on, time passes, a dead sender is restarted; a handler that
\* is called again and again returns at last.
Fairness ==
  /\ WF_vars(ConsumerStep)
  /\ SF_vars(HandlerReturns)
  /\ \A i \in Entries : WF_vars(Age(i))

FairSpec == Spec /\ Fairness

-----------------------------------------------------------------------------
(* Properties. *)

\* The variables have the values Redis and the code give them; what the consumer
\* has in hand is pending in the group.
TypeOK ==
  /\ added \in 0 .. MaxEntries /\ entries \subseteq 1 .. added
  /\ last \in 0 .. added /\ pending \subseteq 1 .. last /\ idle \subseteq pending
  /\ at \in Places /\ current \in 0 .. last /\ batch \subseteq pending \cup {current}
  /\ stopping \in BOOLEAN
  /\ runs \in [Entries -> Nat] /\ trimmed \subseteq 1 .. added /\ faults \in Nat

\* An entry leaves the stream, or the group's memory, only when its handler has
\* returned, its payload does not decode, or MAXLEN has removed it.
NothingLost ==
  \A i \in 1 .. added :
    \/ Handled(i) \/ i \in Poison \/ i \in trimmed
    \/ i \in entries /\ (i > last \/ i \in pending)

\* A handler runs again for the same entry only because of a Redis error, a stop
\* or a crash: slowness and exceptions of other entries never repeat one.
RepeatsAreFaults == \A i \in Entries : runs[i] <= 1 + faults

\* Entries are handled in the order in which they were published, until a fault
\* leaves entries pending that newer ones overtake.
HandledInOrder ==
  [][\A i \in Entries, j \in Entries :
       faults = 0 /\ runs'[i] > runs[i] /\ i < j => ~Handled(j)]_vars

\* What the group still owes its consumer.
Waiting == {i \in entries : i > last \/ i \in pending}

Promise == INSTANCE AtLeastOnce WITH
  arrived <- 1 .. added, waiting <- Waiting, calm <- (faults = 0)

\* Stream, group and consumer implement AtLeastOnce: nothing that was concluded is
\* handled again, nothing is concluded that was not handled, and until the first
\* fault they are a queue.
AtLeastOnceDelivery == Promise!Spec

\* Every entry is handled at last, unless it is poison or was trimmed.
EveryEntryHandled ==
  \A i \in Entries :
    i \in entries \ Poison ~> Handled(i) \/ i \in trimmed
=============================================================================
