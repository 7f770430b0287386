----------------------------- MODULE ReviewTasks -----------------------------
(***************************************************************************)
(* One review task (a row of review_tasks) and everybody who works on it:  *)
(* reviewers through the web API, the auto-approve loop of the sender and  *)
(* the sender's command consumer that runs publish_task.                   *)
(*                                                                         *)
(* ReviewService opens an ORM session, loads the row, compares             *)
(* expected_revision, changes attributes and commits; the UPDATE that the  *)
(* commit emits names the changed columns only and has no revision in its  *)
(* WHERE clause.  So each write is three steps here: the load with its     *)
(* checks (Edit, Restore, ..., Finish), Save (the commit) and Refresh (the *)
(* SELECT after the commit).  Only claim_for_publish compares and writes   *)
(* in one statement (Claim).                                               *)
(***************************************************************************)
EXTENDS Naturals, FiniteSets, Sequences

CONSTANTS
  Reviewers,    \* web requests of the reviewers
  AutoApprove,  \* the loop of ReviewAutoApproveService
  Consumer,     \* the sender's command consumer
  Texts,        \* contents a text can have
  RulesText,    \* the content the rules produced at capture
  OriginalText, \* the content as captured
  CommandBus,   \* TRUE: split deployment, FALSE: monolith without streams
  Connections,  \* bound on the database sessions that hold the row at once
  MaxRevision,  \* bound: no new operation starts on a row at this revision
  MaxRequests,  \* bound on publish requests by reviewers
  MaxCrashes,   \* bound on process crashes
  MaxPipeline   \* bound on publications of the same message by the pipeline

ASSUME ReviewAssumption ==
  /\ AutoApprove \notin Reviewers /\ Consumer \notin Reviewers
  /\ AutoApprove # Consumer
  /\ RulesText \in Texts /\ OriginalText \in Texts
  /\ CommandBus \in BOOLEAN
  /\ Connections \in Nat \ {0}
  /\ MaxRevision \in Nat /\ MaxRequests \in Nat
  /\ MaxCrashes \in Nat /\ MaxPipeline \in Nat

Sender == {AutoApprove, Consumer}
Actors == Reviewers \cup Sender

VARIABLES
  task,       \* the review_tasks row (published: published_at is set)
  revisions,  \* content_revisions of the task: revision number -> content
  processed,  \* status of the processed_messages row
  pc,         \* where each actor is
  view,       \* the revision and text of the row as each actor last read it
  sess,       \* the open ORM session of an actor: row as loaded and as changed
  commands,   \* the publish_review entries of the command stream
  asked,      \* ghost: the text an actor had before it when it asked to publish
  sent,       \* ghost: what publish_task has sent: the text, the one asked for,
              \* and whether the attempt ended as a delivery
  overlaps,   \* ghost: the ways in which sessions on the row have overlapped
  requests,   \* number of publish requests so far (bounds the model)
  crashes,    \* number of crashes so far (bounds the model)
  pipelined   \* number of publications by the pipeline (bounds the model)

db == <<task, revisions, processed>>
bounds == <<requests, crashes, pipelined>>
ghosts == <<asked, sent, overlaps>>
vars == <<db, pc, view, sess, commands, ghosts, bounds>>

-----------------------------------------------------------------------------
(* The status machine. *)

Statuses == {"pending", "editing", "approved", "publishing", "published",
             "rejected", "failed", "expired"}

Allowed(s) ==
  CASE s = "pending"    -> {"editing", "approved", "rejected", "expired"}
    [] s = "editing"    -> {"pending", "approved", "rejected"}
    [] s = "approved"   -> {"publishing"}
    [] s = "publishing" -> {"published", "failed"}
    [] s = "failed"     -> {"pending", "rejected", "approved"}
    [] OTHER            -> {}

Row == [status : Statuses, revision : Nat, published : BOOLEAN, text : Texts]

\* create_from_message leaves the task at revision 2: the original is revision
\* 1 of the text, the output of the rules revision 2.
NewTask == [status |-> "pending", revision |-> 2, published |-> FALSE,
            text |-> RulesText]

\* Where an actor can be: no request; a session with a pending write; the write
\* committed; about to ask for publication; about to claim; claim committed;
\* claim held; targets resolved; delivered; delivery failed; the second
\* transaction of the two outcomes; nothing left to write.
Places == {"idle", "open", "saved", "request", "claim", "claimed", "owner",
           "resolving", "sending", "sent", "failing", "recordok", "recordfail",
           "done"}

NoSession == [old |-> NewTask, new |-> NewTask, log |-> FALSE, next |-> "idle"]

Seen(row) == [revision |-> row.revision, text |-> row.text]

Busy == {a \in Actors : pc[a] \in {"open", "saved", "claimed"}}

Free == Cardinality(Busy) < Connections

-----------------------------------------------------------------------------
(* ORM sessions. *)

\* The row with the changed attributes an UPDATE writes: the columns a session
\* changed, over whatever the row holds when the UPDATE runs.
Flush(row, old, new) ==
  LET Column(now, was, is) == IF is # was THEN is ELSE now
  IN [status    |-> Column(row.status, old.status, new.status),
      revision  |-> Column(row.revision, old.revision, new.revision),
      published |-> Column(row.published, old.published, new.published),
      text      |-> Column(row.text, old.text, new.text)]

Bump(row) == [row EXCEPT !.revision = @ + 1]

\* ReviewService.transition as it changes a loaded row.
Transition(row, status) ==
  [Bump(row) EXCEPT !.status = status,
                    !.published = IF status = "published" THEN TRUE ELSE @]

Begin(a, new, log, next) ==
  /\ Free
  /\ sess' = [sess EXCEPT ![a] = [old |-> task, new |-> new, log |-> log,
                                  next |-> next]]
  /\ pc' = [pc EXCEPT ![a] = "open"]

\* An overlap is remembered: a commit that landed on a row another session had
\* changed since it was loaded ("commit"); a publisher that went on with a row
\* another session had changed since its own write ("refresh").
Remember(overlap, happened) ==
  overlaps' = IF happened THEN overlaps \cup {overlap} ELSE overlaps

\* The commit: the UPDATE and, for the text operations, the INSERT into
\* content_revisions, whose unique key makes the whole transaction fail.
Save(a) ==
  LET s == sess[a]
      clash == s.log /\ s.new.revision \in DOMAIN revisions
  IN
  /\ pc[a] = "open"
  /\ \/ /\ clash
        /\ pc' = [pc EXCEPT ![a] = "idle"]
        /\ sess' = [sess EXCEPT ![a] = NoSession]
        /\ UNCHANGED <<task, revisions, overlaps>>
     \/ /\ ~clash
        /\ task' = Flush(task, s.old, s.new)
        /\ revisions' =
             IF s.log
             THEN [n \in DOMAIN revisions \cup {s.new.revision} |->
                     IF n = s.new.revision THEN s.new.text ELSE revisions[n]]
             ELSE revisions
        /\ pc' = [pc EXCEPT ![a] = "saved"]
        /\ Remember("commit", task.revision # s.old.revision)
        /\ UNCHANGED sess
  /\ UNCHANGED <<processed, view, commands, asked, sent, bounds>>

\* session.refresh after the commit: the actor goes on with the row as it is
\* now, which another session may have changed meanwhile.
Refresh(a) ==
  /\ pc[a] = "saved"
  /\ view' = [view EXCEPT ![a] = Seen(task)]
  /\ pc' = [pc EXCEPT ![a] = sess[a].next]
  /\ sess' = [sess EXCEPT ![a] = NoSession]
  /\ Remember("refresh", /\ sess[a].next \in {"request", "claim"}
                         /\ task.revision # sess[a].new.revision)
  /\ UNCHANGED <<db, commands, asked, sent, bounds>>

-----------------------------------------------------------------------------
(* The operations of a reviewer.  expected_revision is the revision of the  *)
(* row the reviewer has on screen, view[a].                                 *)

Current(a) == view[a].revision = task.revision

Within == task.revision < MaxRevision

\* GET the task (the batch routes load it themselves when they are given no
\* revision); the auto-approve scan only selects undecided tasks.
OpenTask(a) ==
  /\ pc[a] = "idle"
  /\ a = AutoApprove => task.status \in {"pending", "editing"}
  /\ view' = [view EXCEPT ![a] = Seen(task)]
  /\ UNCHANGED <<db, pc, sess, commands, ghosts, bounds>>

EditedRow(t) == [Bump(task) EXCEPT !.status = "editing", !.text = t]

\* Mutant: edit_text does not add its ContentRevision.
EditText_Unlogged(a, t) ==
  /\ pc[a] = "idle" /\ Within /\ Current(a)
  /\ task.status \in {"pending", "editing"}
  /\ Begin(a, EditedRow(t), FALSE, "idle")
  /\ UNCHANGED <<db, view, commands, ghosts, bounds>>

EditText(a, t) ==
  /\ pc[a] = "idle" /\ Within /\ Current(a)
  /\ task.status \in {"pending", "editing"}
  /\ Begin(a, EditedRow(t), TRUE, "idle")
  /\ UNCHANGED <<db, view, commands, ghosts, bounds>>

\* restore_revision asks for no particular status.
RestoreRevision(a, n) ==
  /\ pc[a] = "idle" /\ Within /\ Current(a)
  /\ n \in DOMAIN revisions
  /\ Begin(a, [Bump(task) EXCEPT
                 !.status = IF @ = "pending" THEN "editing" ELSE @,
                 !.text = revisions[n]], TRUE, "idle")
  /\ UNCHANGED <<db, view, commands, ghosts, bounds>>

\* reapply_rules: the rules produce any text t, or reject the task (confirmed).
ReapplyRules(a, t, reject) ==
  LET after == CASE reject                    -> "rejected"
                 [] task.status = "failed"    -> "pending"
                 [] OTHER                     -> "editing"
  IN
  /\ pc[a] = "idle" /\ Within /\ Current(a)
  /\ task.status \in {"pending", "editing", "failed"}
  /\ Begin(a, [Bump(task) EXCEPT !.status = after, !.text = t], TRUE, "idle")
  /\ UNCHANGED <<db, view, commands, ghosts, bounds>>

Approve(a) ==
  /\ pc[a] = "idle" /\ Within /\ Current(a)
  /\ "approved" \in Allowed(task.status)
  /\ Begin(a, Transition(task, "approved"), FALSE, "idle")
  /\ UNCHANGED <<db, view, commands, ghosts, bounds>>

Reject(a) ==
  /\ pc[a] = "idle" /\ Within /\ Current(a)
  /\ "rejected" \in Allowed(task.status)
  /\ Begin(a, Transition(task, "rejected"), FALSE, "idle")
  /\ UNCHANGED <<db, view, commands, ghosts, bounds>>

\* publish_review and the auto-approve loop: an undecided task is approved
\* first, then published at the revision the approval's refresh returned.
PublishUndecided(a) ==
  /\ pc[a] = "idle" /\ Within /\ Current(a)
  /\ task.status \in {"pending", "editing"}
  /\ Begin(a, Transition(task, "approved"), FALSE,
           IF a = AutoApprove THEN "claim" ELSE "request")
  /\ asked' = [asked EXCEPT ![a] = view[a].text]
  /\ UNCHANGED <<db, view, commands, sent, overlaps, bounds>>

\* The batch route sends any decided task on with the revision it was given;
\* the single route first refuses a stale revision and a status it cannot use.
PublishDecided(a) ==
  /\ pc[a] = "idle" /\ requests < MaxRequests
  /\ task.status \notin {"pending", "editing"}
  /\ requests' = requests + 1
  /\ asked' = [asked EXCEPT ![a] = view[a].text]
  /\ pc' = [pc EXCEPT ![a] = "request"]
  /\ UNCHANGED <<db, view, sess, commands, sent, overlaps, crashes, pipelined>>

\* The end of the publish route: XADD of the command, which can fail and then
\* leaves the task approved; without a command bus, publish_task itself.
Request(a) ==
  /\ pc[a] = "request"
  /\ \/ /\ CommandBus
        /\ pc' = [pc EXCEPT ![a] = "idle"]
        /\ \/ commands' = Append(commands, [revision |-> view[a].revision,
                                            text |-> asked[a]])
           \/ UNCHANGED commands
     \/ /\ ~CommandBus
        /\ pc' = [pc EXCEPT ![a] = "claim"]
        /\ UNCHANGED commands
  /\ UNCHANGED <<db, view, sess, ghosts, bounds>>

-----------------------------------------------------------------------------
(* publish_task, run by the command consumer, by the auto-approve loop and, *)
(* in the monolith, by the web request.                                     *)

\* The oldest command is handled; it stays in the stream until acknowledged.
TakeCommand ==
  /\ pc[Consumer] = "idle" /\ commands # <<>>
  /\ view' = [view EXCEPT ![Consumer] = Head(commands)]
  /\ asked' = [asked EXCEPT ![Consumer] = Head(commands).text]
  /\ pc' = [pc EXCEPT ![Consumer] = "claim"]
  /\ UNCHANGED <<db, sess, commands, sent, overlaps, bounds>>

\* publish_task returns: the consumer acknowledges and deletes its entry.
Return(a) ==
  /\ pc' = [pc EXCEPT ![a] = "idle"]
  /\ commands' = IF a = Consumer THEN Tail(commands) ELSE commands

\* publish_task raises: the consumer keeps its entry and tries it again.
Raise(a) == pc' = [pc EXCEPT ![a] = "idle"]

\* Mutants: the conditions of the UPDATE without published_at, with one status
\* too many, without the revision.
Claimable_Republish(row, revision) ==
  row.revision = revision /\ row.status \in {"approved", "failed"}

Claimable_Publishing(row, revision) ==
  /\ row.revision = revision
  /\ ~row.published
  /\ row.status \in {"approved", "failed", "publishing"}

Claimable_AnyRevision(row, revision) ==
  ~row.published /\ row.status \in {"approved", "failed"}

Claimable(row, revision) ==
  /\ row.revision = revision
  /\ ~row.published
  /\ row.status \in {"approved", "failed"}

ClaimedRow(row) == [Bump(row) EXCEPT !.status = "publishing"]

\* Mutant: a refused claim raises, and the command is tried again.
ClaimRefused_Raises(a) == Raise(a) /\ UNCHANGED commands

\* A refused claim is an answer like any other.
ClaimRefused(a) == Return(a)

\* UPDATE ... WHERE id, revision, published_at IS NULL, status: one statement.
Claim(a) ==
  /\ pc[a] = "claim" /\ Free
  /\ \/ /\ Claimable(task, view[a].revision)
        /\ task' = ClaimedRow(task)
        /\ pc' = [pc EXCEPT ![a] = "claimed"]
        /\ sess' = [sess EXCEPT ![a] = [old |-> task', new |-> task',
                                        log |-> FALSE, next |-> "owner"]]
        /\ UNCHANGED commands
     \/ /\ ~Claimable(task, view[a].revision)
        /\ ClaimRefused(a)
        /\ UNCHANGED <<task, sess>>
  /\ UNCHANGED <<revisions, processed, view, ghosts, bounds>>

ClaimRefresh(a) ==
  /\ pc[a] = "claimed"
  /\ view' = [view EXCEPT ![a] = Seen(task)]
  /\ pc' = [pc EXCEPT ![a] = sess[a].next]
  /\ sess' = [sess EXCEPT ![a] = NoSession]
  /\ Remember("refresh", task.revision # sess[a].new.revision)
  /\ UNCHANGED <<db, commands, asked, sent, bounds>>

\* The transition that ends a claim: refused when the row has moved on.
Conclude(a, status, next) ==
  \/ /\ Current(a) /\ status \in Allowed(task.status)
     /\ Begin(a, Transition(task, status), FALSE, next)
  \/ /\ ~(Current(a) /\ status \in Allowed(task.status))
     /\ Raise(a)
     /\ UNCHANGED sess

\* A message that is already published only has its task marked so.
CheckProcessed(a) ==
  /\ pc[a] = "owner"
  /\ \/ /\ processed = "published"
        /\ Conclude(a, "published", "done")
     \/ /\ processed # "published"
        /\ pc' = [pc EXCEPT ![a] = "resolving"]
        /\ UNCHANGED sess
  /\ UNCHANGED <<db, view, commands, ghosts, bounds>>

\* Routes resolved against the current bindings; none left fails the claim.
Resolve(a) ==
  /\ pc[a] = "resolving"
  /\ \/ /\ processed' = "publishing"
        /\ pc' = [pc EXCEPT ![a] = "sending"]
     \/ /\ pc' = [pc EXCEPT ![a] = "failing"]
        /\ UNCHANGED processed
  /\ UNCHANGED <<task, revisions, view, sess, commands, ghosts, bounds>>

Sending(a, answered) ==
  [text |-> view[a].text, asked |-> asked[a], answered |-> answered]

\* Mutant: a partial delivery counts as a failed one.
Deliver_PartialFails(a) ==
  /\ pc[a] = "sending"
  /\ \E reached, answered \in BOOLEAN :
       /\ sent' = IF reached THEN Append(sent, Sending(a, answered)) ELSE sent
       /\ pc' \in {[pc EXCEPT ![a] = IF reached /\ answered THEN "sent"
                                     ELSE "failing"],
                    [pc EXCEPT ![a] = "failing"]}
  /\ UNCHANGED <<db, view, sess, commands, asked, overlaps, bounds>>

\* The API endpoints, then one target after the other, each after a look at the
\* routes.  The delivery counts when one of them answered; what has gone out
\* may all the same end as failed: a send whose answer is lost, or a look at
\* the routes that raises after something went out.
Deliver(a) ==
  /\ pc[a] = "sending"
  /\ \E reached, answered \in BOOLEAN :
       /\ answered => reached
       /\ sent' = IF reached THEN Append(sent, Sending(a, answered)) ELSE sent
       /\ pc' = [pc EXCEPT ![a] = IF answered THEN "sent" ELSE "failing"]
  /\ UNCHANGED <<db, view, sess, commands, asked, overlaps, bounds>>

Finish(a) ==
  /\ \/ pc[a] = "sent" /\ Conclude(a, "published", "recordok")
     \/ pc[a] = "failing" /\ Conclude(a, "failed", "recordfail")
  /\ UNCHANGED <<db, view, commands, ghosts, bounds>>

\* The second transaction: the processed_messages row.
Record(a) ==
  /\ \/ pc[a] = "recordok" /\ processed' = "published"
     \/ pc[a] = "recordfail" /\ processed' = "failed"
     \/ pc[a] = "done" /\ UNCHANGED processed
  /\ Return(a)
  /\ UNCHANGED <<task, revisions, view, sess, ghosts, bounds>>

-----------------------------------------------------------------------------
(* The surroundings. *)

\* The message pipeline publishes the same record: a failed one that was
\* retried, one in publishing that recovery put back in the queue, or a
\* redelivered one whose source has left review mode meanwhile.
PipelinePublishes ==
  /\ pipelined < MaxPipeline
  /\ processed # "published"
  /\ processed' = "published"
  /\ pipelined' = pipelined + 1
  /\ UNCHANGED <<task, revisions, pc, view, sess, commands, ghosts,
                 requests, crashes>>

\* A process dies: what its actors had in memory and in open transactions is
\* gone, the database and the stream remain.
Crash(process) ==
  /\ crashes < MaxCrashes
  /\ \E a \in process : pc[a] # "idle"
  /\ crashes' = crashes + 1
  /\ pc' = [a \in Actors |-> IF a \in process THEN "idle" ELSE pc[a]]
  /\ sess' = [a \in Actors |-> IF a \in process THEN NoSession ELSE sess[a]]
  /\ UNCHANGED <<db, view, commands, ghosts, requests, pipelined>>

-----------------------------------------------------------------------------
Init ==
  /\ task = NewTask
  /\ revisions = <<OriginalText, RulesText>>
  /\ processed = "pending_review"
  /\ pc = [a \in Actors |-> "idle"]
  /\ view = [a \in Actors |-> Seen(NewTask)]
  /\ sess = [a \in Actors |-> NoSession]
  /\ commands = <<>>
  /\ asked = [a \in Actors |-> RulesText]
  /\ sent = <<>>
  /\ overlaps = {}
  /\ requests = 0
  /\ crashes = 0
  /\ pipelined = 0

ReviewerOp(a) ==
  \/ \E t \in Texts : EditText(a, t)
  \/ \E n \in DOMAIN revisions : RestoreRevision(a, n)
  \/ \E t \in Texts, reject \in BOOLEAN : ReapplyRules(a, t, reject)
  \/ Approve(a)
  \/ Reject(a)
  \/ PublishDecided(a)

\* What an actor does by itself once it has begun.
Proceed(a) ==
  \/ Save(a) \/ Refresh(a) \/ Request(a)
  \/ Claim(a) \/ ClaimRefresh(a) \/ CheckProcessed(a) \/ Resolve(a)
  \/ Deliver(a) \/ Finish(a) \/ Record(a)

Next ==
  \/ \E a \in Reviewers : ReviewerOp(a)
  \/ \E a \in Reviewers \cup {AutoApprove} : OpenTask(a) \/ PublishUndecided(a)
  \/ TakeCommand
  \/ \E a \in Actors : Proceed(a)
  \/ PipelinePublishes
  \/ Crash(Sender) \/ Crash(Reviewers)

Spec == Init /\ [][Next]_vars

\* Running requests and the sender's loops keep running between crashes.
Fairness ==
  /\ \A a \in Actors : WF_vars(Proceed(a))
  /\ WF_vars(TakeCommand)

FairSpec == Spec /\ Fairness
-----------------------------------------------------------------------------
(* Properties. *)

\* The variables hold what the code stores in them.
TypeOK ==
  /\ task \in Row
  /\ DOMAIN revisions \subseteq Nat
  /\ \A n \in DOMAIN revisions : revisions[n] \in Texts
  /\ processed \in {"pending_review", "publishing", "published", "failed"}
  /\ pc \in [Actors -> Places]
  /\ view \in [Actors -> [revision : Nat, text : Texts]]
  /\ sess \in [Actors -> [old : Row, new : Row, log : BOOLEAN, next : Places]]
  /\ commands \in Seq([revision : Nat, text : Texts])
  /\ asked \in [Actors -> Texts]
  /\ sent \in Seq([text : Texts, asked : Texts, answered : BOOLEAN])
  /\ overlaps \subseteq {"commit", "refresh"}
  /\ requests \in Nat /\ crashes \in Nat /\ pipelined \in Nat

\* Once published_at is set it stays set and nobody starts another
\* publication, however stale the writes are that change the status later
\* (claim_for_publish's published_at IS NULL).
NoClaimAfterPublished ==
  [][task.published =>
       /\ task'.published
       /\ task'.status = "publishing" => task.status = "publishing"]_vars

LogTexts == {revisions[n] : n \in DOMAIN revisions}

\* Every text that went out is in the revision log of the task: no session
\* changes final_text without logging it, and the log loses nothing.
SentTextLogged == \A i \in DOMAIN sent : sent[i].text \in LogTexts

\* What follows holds until sessions overlap in a way that undoes it (see Save):
\* no commit has landed on a row it was not made for.
Orderly == "commit" \notin overlaps

Holding == {"claimed", "owner", "resolving", "sending", "sent", "failing"}

Holders == {a \in Actors : pc[a] \in Holding}

\* A claim is exclusive: as long as no stale commit has moved the row under its
\* owner, at most one actor is between its claim and the transition that ends
\* it.
OnePublisher == Orderly => Cardinality(Holders) <= 1

\* The text that goes out is the one on the screen of whoever asked for it,
\* not one that an edit, a restore or reapplied rules put there since, unless
\* sessions have overlapped.
PublishesWhatWasAsked ==
  overlaps = {} => \A i \in DOMAIN sent : sent[i].text = sent[i].asked

\* A decision is final: only a stale commit changes the status of a published
\* or rejected task.
DecisionsAreFinal ==
  [][Orderly' /\ task.status \in {"published", "rejected"} =>
       task'.status = task.status]_vars

\* The review as its user sees it: the texts that went out; delivered once an
\* attempt ended so, rejected once the status says so.
Gone == [i \in DOMAIN sent |-> sent[i].text]

Delivered == \E i \in DOMAIN sent : sent[i].answered

Verdict ==
  CASE Delivered -> "delivered"
    [] ~Delivered /\ task.status = "rejected" -> "rejected"
    [] OTHER -> "open"

Promise == INSTANCE ReviewOutcome
             WITH gone <- Gone, verdict <- Verdict, calm <- Orderly

\* Claims, retries and crashes included, nothing goes out once the review has
\* been rejected or an attempt has ended as a delivery: it refines
\* ReviewOutcome.
DecidedOnce == Promise!Spec

\* What the documentation says and overlapping sessions break: an operation on
\* a task that somebody else has changed is refused, so a commit never lands
\* on a revision other than the one its checks were made on.
NoOverwrite ==
  [][\A a \in Actors : (pc[a] = "open" /\ pc'[a] = "saved") =>
                        task.revision = sess[a].old.revision]_vars

\* What _fail_claimed_task says it does, and a restore during the publication
\* prevents: a delivery that failed ends with the processed message marked
\* failed too.
BothHalvesFail ==
  \A a \in Actors : pc[a] = "failing" ~> processed = "failed"

\* Every publish_review command is acknowledged in the end: one whose claim is
\* refused or whose final transition raised does not block the stream.
CommandsAcknowledged == []<>(commands = <<>>)
=============================================================================
