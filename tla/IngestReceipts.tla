---------------------------- MODULE IngestReceipts ----------------------------
(***************************************************************************)
(* IngestService.accept as ingest_message calls it: requests that submit   *)
(* the same idempotency key, in any number of web workers, and the receipt *)
(* row they meet at.  A lease on the row gives one of them the right to    *)
(* enqueue the message: to the incoming stream, or, in the monolith, to    *)
(* MessageService, which may refuse it.                                    *)
(*                                                                         *)
(* A request that got no usable answer is submitted again.                 *)
(***************************************************************************)
EXTENDS Naturals, FiniteSets

CONSTANTS
  Requests,    \* requests for the key
  Contents,    \* fingerprints of what they submit
  NoRequest, NoContent,
  MaxFaults    \* bound on failed or slow statements, lost answers, dead workers

ASSUME IngestAssumption ==
  /\ NoRequest \notin Requests /\ NoContent \notin Contents
  /\ MaxFaults \in Nat

VARIABLES
  receipt,   \* the row of ingest_receipts
  at,        \* where each request is
  content,   \* what it submits
  durable,   \* TRUE: there is an incoming stream, FALSE: the monolith
  answer,    \* what each was told
  enqueued,  \* how often the stream or the queue has taken the message
  record,    \* status of its processed_messages row (monolith)
  task,      \* whether it has a review task (monolith)
  faults     \* failures so far

rest == <<content, durable, record, task>>
vars == <<receipt, at, answer, enqueued, rest, faults>>

-----------------------------------------------------------------------------
NoReceipt == [status |-> "none", content |-> NoContent, lease |-> NoRequest,
              expired |-> FALSE]

Places == {"new", "insert", "look", "claim", "enqueue", "inspect", "conclude",
           "release", "done"}

Answers == {"none", "accepted", "conflict", "busy", "unavailable", "error"}

\* Statuses of a record that a worker has had.
Worked == {"processing", "filtered", "failed", "retrying", "pending_review",
           "pending_publish", "publishing", "published"}

Goto(r, place) == at' = [at EXCEPT ![r] = place]

\* The request ends with an answer.
Answer(r, told) ==
  /\ Goto(r, "done")
  /\ answer' = [answer EXCEPT ![r] = told]

Fault == faults < MaxFaults /\ faults' = faults + 1

\* The first request, or the client's next one for the key.
Submit(r) ==
  /\ at[r] = "done" /\ answer[r] \in {"none", "busy", "unavailable", "error"}
  /\ Goto(r, "new")
  /\ answer' = [answer EXCEPT ![r] = "none"]
  /\ UNCHANGED <<receipt, enqueued, rest, faults>>

-----------------------------------------------------------------------------
(* _receipt. *)

\* A request for a receipt that exists must carry its content.
Compare(r) ==
  IF content[r] = receipt.content
  THEN Goto(r, "look") /\ UNCHANGED answer
  ELSE Answer(r, "conflict")

Lookup(r) ==
  /\ at[r] = "new"
  /\ \/ receipt.status = "none" /\ Goto(r, "insert") /\ UNCHANGED answer
     \/ receipt.status # "none" /\ Compare(r)
  /\ UNCHANGED <<receipt, enqueued, rest, faults>>

\* The unique key lets one insert through; the others read its row.
Insert(r) ==
  /\ at[r] = "insert"
  /\ \/ /\ receipt.status = "none"
        /\ receipt' = [NoReceipt EXCEPT !.status = "pending", !.content = content[r]]
        /\ Goto(r, "look")
        /\ UNCHANGED answer
     \/ /\ receipt.status # "none"
        /\ Compare(r)
        /\ UNCHANGED receipt
  /\ UNCHANGED <<enqueued, rest, faults>>

-----------------------------------------------------------------------------
(* accept. *)

Look(r) ==
  /\ at[r] = "look"
  /\ IF receipt.status = "queued"
     THEN Answer(r, "accepted")
     ELSE Goto(r, "claim") /\ UNCHANGED answer
  /\ UNCHANGED <<receipt, enqueued, rest, faults>>

\* Mutant: a lease lasts for ever.
Claimable_NoExpiry == receipt.status = "pending" /\ receipt.lease = NoRequest

\* The WHERE clause of the claim.
Claimable ==
  /\ receipt.status = "pending"
  /\ receipt.lease = NoRequest \/ receipt.expired

\* One attempt to take the lease; the request goes back to try again, or gives up.
Claim(r) ==
  /\ at[r] = "claim"
  /\ \/ /\ Claimable
        /\ receipt' = [receipt EXCEPT !.lease = r, !.expired = FALSE]
        /\ Goto(r, "enqueue") /\ UNCHANGED answer
     \/ /\ ~Claimable /\ UNCHANGED receipt
        /\ \/ Goto(r, "look") /\ UNCHANGED answer
           \/ Answer(r, "busy")
  /\ UNCHANGED <<enqueued, rest, faults>>

\* publish_incoming returns.
Publish(r) ==
  /\ durable /\ at[r] = "enqueue"
  /\ enqueued' = enqueued + 1
  /\ Goto(r, "conclude")
  /\ UNCHANGED <<receipt, answer, rest, faults>>

\* Statuses MessageService.enqueue leaves alone.
Underway == {"published", "filtered", "publishing", "pending_publish", "processing"}

\* MessageService.enqueue: it refuses what is under way or owned by a reviewer,
\* and what does not fit in the queue, of which only the row remains.
EnqueueLocally(r) ==
  /\ ~durable /\ at[r] = "enqueue"
  /\ \/ /\ task \/ record \in Underway
        /\ Goto(r, "inspect") /\ UNCHANGED <<enqueued, record>>
     \/ /\ ~task /\ record \notin Underway
        /\ record' = IF record = "none" THEN "received" ELSE record
        /\ \/ enqueued' = enqueued + 1 /\ Goto(r, "conclude")
           \/ Goto(r, "inspect") /\ UNCHANGED enqueued
  /\ UNCHANGED <<receipt, answer, content, durable, task, faults>>

\* Mutant: a row that was only received counts as well.
HasReachedWorker_Received == task \/ record \in Underway \cup {"received"}

HasReachedWorker == task \/ record \in Underway

\* Refused: fine if the message has reached the worker before.
Inspect(r) ==
  /\ at[r] = "inspect"
  /\ Goto(r, IF HasReachedWorker THEN "conclude" ELSE "release")
  /\ UNCHANGED <<receipt, answer, enqueued, rest, faults>>

\* What a failed or late enqueue leaves behind: perhaps the entry in the stream,
\* perhaps the row.
Leftover ==
  IF durable
  THEN enqueued' \in {enqueued, enqueued + 1} /\ UNCHANGED record
  ELSE /\ record' \in {record, IF record = "none" THEN "received" ELSE record}
       /\ UNCHANGED enqueued

\* enqueue raises or takes too long.
EnqueueFails(r) ==
  /\ at[r] \in {"enqueue", "inspect"} /\ Fault
  /\ Leftover
  /\ Goto(r, "release")
  /\ UNCHANGED <<receipt, answer, content, durable, task>>

\* The WHERE clause of the statements that end a lease.
Holds(r) == receipt.lease = r

\* Mutant: the receipt is not committed.
Conclude_Uncommitted(r) ==
  /\ at[r] = "conclude"
  /\ Answer(r, "accepted")
  /\ UNCHANGED <<receipt, enqueued, rest, faults>>

\* The receipt becomes queued if the lease is still this request's.
Conclude(r) ==
  /\ at[r] = "conclude"
  /\ receipt' = IF Holds(r)
                THEN [receipt EXCEPT !.status = "queued", !.lease = NoRequest,
                                     !.expired = FALSE]
                ELSE receipt
  /\ Answer(r, "accepted")
  /\ UNCHANGED <<enqueued, rest, faults>>

ConcludeFails(r) ==
  /\ at[r] = "conclude" /\ Fault
  /\ Goto(r, "release")
  /\ UNCHANGED <<receipt, answer, enqueued, rest>>

Release(r) ==
  /\ at[r] = "release"
  /\ receipt' = IF Holds(r)
                THEN [receipt EXCEPT !.lease = NoRequest, !.expired = FALSE]
                ELSE receipt
  /\ Answer(r, "unavailable")
  /\ UNCHANGED <<enqueued, rest, faults>>

-----------------------------------------------------------------------------
(* Surroundings. *)

\* A web worker dies, or a statement fails: the lease of the request stays.
Die(r) ==
  /\ at[r] # "done" /\ Fault
  /\ Answer(r, "error")
  /\ UNCHANGED <<receipt, enqueued, rest>>

\* The lease runs out, thirty seconds after it was taken, which is longer than its
\* owner may enqueue: the owner has died, or a statement that ends the lease was
\* very slow.
Expire ==
  LET owner == receipt.lease IN
  /\ owner # NoRequest /\ ~receipt.expired
  /\ \/ at[owner] \notin {"enqueue", "inspect", "conclude", "release"}
        /\ UNCHANGED faults
     \/ at[owner] \in {"conclude", "release"} /\ Fault
  /\ receipt' = [receipt EXCEPT !.expired = TRUE]
  /\ UNCHANGED <<at, answer, enqueued, rest>>

\* A worker of the monolith has the message, and gives it any outcome.
Work ==
  /\ ~durable /\ enqueued > 0
  /\ record' \in Worked
  /\ task' \in IF record = "pending_review" THEN BOOLEAN ELSE {task}
  /\ task => task'
  /\ UNCHANGED <<receipt, at, answer, enqueued, content, durable, faults>>

\* recover_pending queues a row that did not fit before.
Recover ==
  /\ ~durable /\ record = "received" /\ enqueued = 0
  /\ enqueued' = 1
  /\ UNCHANGED <<receipt, at, answer, rest, faults>>

-----------------------------------------------------------------------------
Init ==
  /\ receipt = NoReceipt
  /\ at = [r \in Requests |-> "done"]
  /\ content \in [Requests -> Contents]
  /\ durable \in BOOLEAN
  /\ answer = [r \in Requests |-> "none"]
  /\ enqueued = 0 /\ record = "none" /\ task = FALSE
  /\ faults = 0

Handle(r) ==
  \/ Lookup(r) \/ Insert(r) \/ Look(r) \/ Claim(r)
  \/ Publish(r) \/ EnqueueLocally(r) \/ Inspect(r) \/ Conclude(r) \/ Release(r)

Next ==
  \/ \E r \in Requests :
       Submit(r) \/ Handle(r) \/ EnqueueFails(r) \/ ConcludeFails(r) \/ Die(r)
  \/ Expire \/ Work \/ Recover

Spec == Init /\ [][Next]_vars

\* Web workers answer, clients come back, clocks run.
Fairness ==
  /\ \A r \in Requests : WF_vars(Submit(r)) /\ WF_vars(Handle(r))
  /\ WF_vars(Expire)

FairSpec == Spec /\ Fairness

-----------------------------------------------------------------------------
(* Properties. *)

Receipts == [status : {"none", "pending", "queued"}, content : Contents \cup {NoContent},
             lease : Requests \cup {NoRequest}, expired : BOOLEAN]

\* The variables have values the code gives them; only a pending receipt has a
\* lease.
TypeOK ==
  /\ receipt \in Receipts
  /\ receipt.status # "pending" => receipt.lease = NoRequest
  /\ at \in [Requests -> Places] /\ content \in [Requests -> Contents]
  /\ answer \in [Requests -> Answers]
  /\ enqueued \in Nat /\ faults \in Nat
  /\ durable \in BOOLEAN
  /\ record \in Worked \cup {"none", "received"} /\ task \in BOOLEAN

\* Leases serialize the publication of a message across the web workers.
OneEnqueues ==
  \A r, s \in Requests :
    at[r] = "enqueue" /\ at[s] = "enqueue" => r = s

\* Nobody is told that a message was accepted, and no receipt says queued, before
\* the stream or the queue has taken it.
AcceptedWasEnqueued ==
  receipt.status = "queued" \/ (\E r \in Requests : answer[r] = "accepted") =>
    enqueued > 0

\* Different content under the same key is never accepted, whoever inserts first.
OneContent ==
  \A r \in Requests : answer[r] = "accepted" => content[r] = receipt.content

\* The stream gets the message once, and once more at most for each failure.
RepeatsAreFaults == durable => enqueued <= 1 + faults

\* With a stream a receipt becomes queued, whoever dies with its lease, if clients
\* retry; the queue of the monolith may stay full.
ReceiptQueued == durable /\ receipt.status = "pending" ~> receipt.status = "queued"
=============================================================================
