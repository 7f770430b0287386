--------------------------- MODULE MessagePipeline ---------------------------
(***************************************************************************)
(* MessageService: the way of the messages of one source through the       *)
(* sender, from their arrival (incoming stream, or the in-process queue of *)
(* the monolith) to the targets, with the commands that put stored         *)
(* messages back in the queue while others are under way.                  *)
(*                                                                         *)
(* The lock of the source lets one process_one run at a time: job is its   *)
(* state, one step per transaction or send.  recover_pending and           *)
(* retry_failed do not take that lock: admin is the one that runs, with    *)
(* the rows as its SELECT returned them and the updates it has flushed but *)
(* not committed, which lock their rows.                                   *)
(*                                                                         *)
(* All tasks of the process share one copy of the routing.  Each reloads   *)
(* it on its own: reads the source, reads its links, and some time later   *)
(* puts both in place of what is there.                                    *)
(***************************************************************************)
EXTENDS Naturals, FiniteSets, Sequences

CONSTANTS
  Messages,     \* messages of the source, by the ids of their records
  Targets,      \* Telegram and SafeW targets
  NoMessage, NoTarget,
  Durable,      \* TRUE: incoming stream (sender), FALSE: queue (monolith)
  ApiSource,    \* TRUE: the source is an ingest registration
  HasEndpoint,  \* TRUE: an API endpoint is bound to the source
  Others,       \* tasks besides process_one that reload the routing
  QueueSize,    \* queue_maxsize
  MaxRetries,   \* max_retries
  MaxArrivals,  \* bound: how often the same message arrives
  MaxChanges,   \* bound on changes to routing, mode and pause flag
  MaxCommands,  \* bound on recover_pending and retry_failed
  MaxFaults     \* bound on crashes and on exceptions in process_one

ASSUME PipelineAssumption ==
  /\ Messages \subseteq Nat
  /\ NoMessage \notin Messages /\ NoTarget \notin Targets
  /\ {Durable, ApiSource, HasEndpoint} \subseteq BOOLEAN
  /\ QueueSize \in Nat \ {0} /\ MaxRetries \in Nat \ {0}
  /\ {MaxArrivals, MaxChanges, MaxCommands, MaxFaults} \subseteq Nat

VARIABLES
  rec,       \* processed_messages: status, has target_message_ids, retries and
             \* the number of footers in the stored text
  tasks,     \* messages with a review task
  stream,    \* incoming entries not yet acknowledged, oldest first
  queue,     \* MessageService.queue
  job,       \* the process_one that runs
  admin,     \* the recover_pending or retry_failed that runs
  up,        \* the process: "down", "booting" (startup recovery) or "up"
  bound,     \* targets enabled and linked to the source
  enabled,   \* the source is enabled
  mode,      \* publish_mode of the source
  endpoint,  \* the endpoint: "active", "off" (or expired, unbound) or "deleted"
  cache,     \* the routing as ChannelService has it
  load,      \* the reload each of the others has under way
  pause,     \* publishing_paused as stored
  paused,    \* MessageService._paused
  ignored,   \* messages acknowledged because their source looked disabled
  sent,      \* ghost: how often each target got each message
  apiRows,   \* ghost: messages a delivery row was written for
  vanished,  \* ghost: messages delivered to an endpoint that was deleted meanwhile
  done,      \* ghost: messages whose row once was published
  stale,     \* ghost: targets that nobody has seen bound since before the last send
  off,       \* ghost: nobody has seen the source enabled since before the last send
  raced,     \* ghost: messages settled while a command was to overwrite their row
  orphaned,  \* ghost: messages whose review task was not created for a fault
  count      \* arrivals per message, changes, commands, faults (bounds)

routing == <<bound, enabled, mode, endpoint>>
gate == <<ignored, cache, load>>
lapsed == <<stale, off>>
delivered == <<apiRows, vanished>>
ghosts == <<sent, delivered, done, lapsed, raced, orphaned>>
vars == <<rec, tasks, stream, queue, job, admin, up, routing, pause, paused, gate,
          ghosts, count>>

-----------------------------------------------------------------------------
Statuses == {"none", "received", "processing", "filtered", "failed",
             "pending_review", "pending_publish", "publishing", "published",
             "retrying"}

Record == [status : Statuses, ids : BOOLEAN, retries : Nat, footers : Nat]

NoRecord == [status |-> "none", ids |-> FALSE, retries |-> 0, footers |-> 0]

\* Here rule_based does what auto does.
Modes == {"auto", "review", "paused"}

\* An item of the queue: a message with as many footers as its stored text has.
Item(m, n) == [msg |-> m, footers |-> n]

\* What load_from_db has read: nothing yet, the source, or its links as well.
NotLoading == [at |-> "idle", enabled |-> FALSE, mode |-> "auto", bound |-> {}]

NoJob == [at |-> "idle", msg |-> NoMessage, footers |-> 0, via |-> "queue",
          load |-> NotLoading, routes |-> {}, api |-> FALSE, target |-> NoTarget,
          success |-> FALSE, ids |-> FALSE, raised |-> FALSE]

NoRows == [m \in {} |-> NoRecord]

NoCommand == [kind |-> "none", todo |-> NoRows, held |-> NoRows]

\* active_endpoint_ids
EndpointActive == endpoint = "active" /\ enabled

\* _routing_block_reason: the targets are those process_one has read itself, the
\* enabled flag is in the cache, where others may have put theirs since.
Blocked == ~cache.enabled \/ (job.load.bound = {} /\ ~EndpointActive)

\* Row locks: a row a command has updated and not committed waits.
Unlocked(m) == m \notin DOMAIN admin.held

\* The command that runs is to write over the row, from its old copy of it.
ToOverwrite(m) ==
  /\ m \in DOMAIN admin.todo
  /\ admin.kind = "retry" \/ admin.todo[m].status = "publishing"

\* Statuses that end the way of a message.
Settled ==
  {"published"} \cup (IF ApiSource THEN {"filtered", "pending_review"} ELSE {})

\* Ghost: m is settled by this step, and not for long.
Race(m) ==
  raced' = raced \cup (IF ToOverwrite(m) /\ rec'[m].status \in Settled THEN {m} ELSE {})

SetStatus(m, status) == rec' = [rec EXCEPT ![m].status = status]

Store(m, status, n) == rec' = [rec EXCEPT ![m].status = status, ![m].footers = n]

Goto(at) == job' = [job EXCEPT !.at = at]

Room == Len(queue) < QueueSize

-----------------------------------------------------------------------------
(* Arrival. *)

\* Statuses in which enqueue leaves a message alone.
Underway == {"published", "filtered", "publishing", "pending_publish", "processing"}

Owned(m) == ApiSource /\ m \in tasks

\* enqueue: the row (or the fresh payload) is committed, then the message is
\* put in the queue; with a full queue only the row remains.
Enqueue(m) ==
  IF Owned(m) \/ rec[m].status \in Underway
  THEN UNCHANGED <<rec, queue>>
  ELSE /\ Unlocked(m)
       /\ rec' = [rec EXCEPT
                    ![m].footers = 0,
                    ![m].status = IF @ = "none" THEN "received" ELSE @]
       /\ IF Room
          THEN queue' = Append(queue, Item(m, 0))
          ELSE UNCHANGED queue

Arrive(m) ==
  /\ count.arrivals[m] < MaxArrivals
  /\ count' = [count EXCEPT !.arrivals[m] = @ + 1]
  /\ IF Durable
     THEN stream' = Append(stream, m) /\ UNCHANGED <<rec, queue>>
     ELSE up = "up" /\ Enqueue(m) /\ UNCHANGED stream
  /\ UNCHANGED <<tasks, job, admin, up, routing, pause, paused, gate,
                 ghosts>>

MayStart == up # "down" /\ job.at = "idle"

Take(m, n, via) ==
  job' = [NoJob EXCEPT !.at = "start", !.msg = m, !.footers = n, !.via = via]

\* Mutant: the entry is acknowledged before its message is handled.
HandleIncoming_AckFirst ==
  /\ MayStart /\ up = "up" /\ stream # <<>>
  /\ paused' = pause
  /\ Take(Head(stream), 0, "queue")
  /\ stream' = Tail(stream)
  /\ UNCHANGED <<rec, tasks, queue, admin, up, routing, pause, gate, ghosts, count>>

\* The routing as the rows have it.
Routing == [enabled |-> enabled, mode |-> mode, bound |-> bound]

\* handle_incoming with the oldest entry.  The source's enabled flag comes from
\* the cache, reloaded here when it is five seconds old, and always for an ingest
\* registration.
HandleIncoming ==
  /\ MayStart /\ up = "up" /\ stream # <<>>
  /\ paused' = pause
  /\ cache' \in {Routing} \cup (IF ApiSource THEN {} ELSE {cache})
  /\ \/ /\ cache'.enabled
        /\ Take(Head(stream), 0, "stream")
        /\ UNCHANGED <<stream, ignored>>
     \/ /\ ~cache'.enabled
        /\ ignored' = ignored \cup {Head(stream)}
        /\ stream' = Tail(stream)
        /\ UNCHANGED job
  /\ UNCHANGED <<rec, tasks, queue, admin, up, routing, pause, load, ghosts, count>>

\* A worker takes the next item; it holds it until the lock is free.
WorkerTakes ==
  /\ MayStart /\ queue # <<>>
  /\ Take(Head(queue).msg, Head(queue).footers, "queue")
  /\ queue' = Tail(queue)
  /\ UNCHANGED <<rec, tasks, stream, admin, up, routing, pause, paused, gate, ghosts,
                 count>>

-----------------------------------------------------------------------------
(* The routing. *)

\* The two statements of load_from_db that the routing of a source comes from.
SourceRead == [at |-> "source", enabled |-> enabled, mode |-> mode, bound |-> {}]

LinksRead(reload) == [reload EXCEPT !.at = "links", !.bound = bound]

\* _apply_cache
Apply(reload) ==
  cache' = [enabled |-> reload.enabled, mode |-> reload.mode, bound |-> reload.bound]

\* Publications of other sources, reviews, commands and handle_incoming reload too.
OtherReads(t) ==
  /\ up # "down"
  /\ load' = [load EXCEPT ![t] = IF @.at = "idle" THEN SourceRead ELSE LinksRead(@)]
  /\ load[t].at # "links"
  /\ UNCHANGED <<rec, tasks, stream, queue, job, admin, up, routing, pause, paused, ignored,
                 cache, ghosts, count>>

OtherApplies(t) ==
  /\ load[t].at = "links"
  /\ Apply(load[t])
  /\ load' = [load EXCEPT ![t] = NotLoading]
  /\ UNCHANGED <<rec, tasks, stream, queue, job, admin, up, routing, pause, paused, ignored,
                 ghosts, count>>

\* process_one reloads when it starts, when it publishes and before each send.
Refreshes == job.at \in {"start", "resolve"} \/ (job.at = "routes" /\ job.routes # {})

ReadSource ==
  /\ Refreshes /\ job.load.at = "idle"
  /\ job' = [job EXCEPT !.load = SourceRead]
  /\ UNCHANGED <<rec, tasks, stream, queue, admin, up, routing, pause, paused, gate, ghosts,
                 count>>

\* The links are read and the rows put in place: what others put there in between
\* does not stay.
ReadLinks ==
  /\ Refreshes /\ job.load.at = "source"
  /\ job' = [job EXCEPT !.load = LinksRead(@)]
  /\ Apply(LinksRead(job.load))
  /\ UNCHANGED <<rec, tasks, stream, queue, admin, up, routing, pause, paused, ignored, load,
                 ghosts, count>>

\* Then active_endpoint_ids is awaited, and process_one goes on.
Refreshed == job.load.at = "links"

-----------------------------------------------------------------------------
(* process_one. *)

\* Mutant: the entry of a message is not acknowledged.
Return_Unacknowledged == job' = NoJob /\ UNCHANGED stream

\* process_one returns; a stream entry is acknowledged and deleted.
Return ==
  /\ job' = NoJob
  /\ stream' = IF job.via = "stream" THEN Tail(stream) ELSE stream

\* Mutant: a published record is processed like any other.
Finished_Ignored(m) ==
  ApiSource /\ (rec[m].status = "filtered" \/ m \in tasks)

\* Mutant: review and filter decisions do not count for redelivered messages.
Finished_Undecided(m) == rec[m].status = "published"

\* A record process_one does not touch again.
Finished(m) ==
  \/ rec[m].status = "published"
  \/ ApiSource /\ (rec[m].status = "filtered" \/ m \in tasks)

\* The first session: the record is created if need be and set to processing.
Start ==
  LET m == job.msg IN
  /\ job.at = "start" /\ Refreshed
  /\ \/ Finished(m) /\ Return /\ UNCHANGED rec
     \/ /\ ~Finished(m) /\ Unlocked(m) /\ Blocked
        /\ Store(m, "failed", job.footers)
        /\ Return
     \/ /\ ~Finished(m) /\ Unlocked(m) /\ ~Blocked
        /\ Store(m, "processing", job.footers)
        /\ job' = [job EXCEPT !.at = "materialize", !.load = NotLoading]
        /\ UNCHANGED stream
  /\ UNCHANGED <<tasks, queue, admin, up, routing, pause, paused, gate, ghosts, count>>

\* Media that cannot be had fails the message (_mark_failed without a retry).
Materialize ==
  /\ job.at = "materialize"
  /\ \/ Goto("pipeline") /\ UNCHANGED <<rec, stream>>
     \/ Unlocked(job.msg) /\ SetStatus(job.msg, "failed") /\ Return
  /\ UNCHANGED <<tasks, queue, admin, up, routing, pause, paused, gate,
                 ghosts, count>>

PublishingPaused == paused \/ cache.mode = "paused"

\* The pipeline and the second session: dropped or failed; sent to review by a
\* rule, which runs before the footer; or through with the footer appended, and
\* then to review because of the source's mode, as the cache has it by now, or on to
\* publication.
Decide ==
  LET m == job.msg
      n == job.footers + 1
  IN
  /\ job.at = "pipeline" /\ Unlocked(m)
  /\ \/ \E status \in {"filtered", "failed"} : SetStatus(m, status) /\ Return
     \/ /\ Store(m, "pending_review", job.footers) /\ Goto("review")
        /\ UNCHANGED stream
     \/ /\ cache.mode = "review"
        /\ Store(m, "pending_review", n) /\ Goto("review")
        /\ UNCHANGED stream
     \/ /\ cache.mode # "review"
        /\ Store(m, "pending_publish", n)
        /\ IF PublishingPaused
           THEN Return
           ELSE /\ job' = [job EXCEPT !.at = "resolve", !.footers = n]
                /\ UNCHANGED stream
  /\ Race(m)
  /\ UNCHANGED <<tasks, queue, admin, up, routing, pause, paused, gate,
                 sent, delivered, done, lapsed, orphaned, count>>

\* create_from_message, a transaction of its own; an existing task is kept.
CreateTask ==
  /\ job.at = "review"
  /\ tasks' = tasks \cup {job.msg}
  /\ Return
  /\ UNCHANGED <<rec, queue, admin, up, routing, pause, paused, gate,
                 ghosts, count>>

\* _mark_failed with increment_retry
MarkRetry(m) ==
  /\ Unlocked(m)
  /\ rec' = [rec EXCEPT
       ![m].retries = @ + 1,
       ![m].footers = job.footers,
       ![m].status = IF rec[m].retries + 1 >= MaxRetries THEN "failed" ELSE "retrying"]
  /\ Return

\* Ghost: what nobody sees bound or enabled from here on, unless it changes: neither
\* the registry nor the rows that another task has read and not yet put in place.
Lapse ==
  /\ stale' = Targets \ (bound \cup UNION {load[t].bound : t \in Others})
  /\ off' = ~(enabled \/ \E t \in Others : load[t].enabled)

\* _publish resolves the routes again; the refresh may raise.
Resolve ==
  LET m == job.msg IN
  /\ job.at = "resolve"
  /\ \/ MarkRetry(m) /\ UNCHANGED lapsed
     \/ /\ Refreshed /\ Blocked /\ Unlocked(m)
        /\ Store(m, "failed", job.footers) /\ Return /\ UNCHANGED lapsed
     \/ /\ Refreshed /\ ~Blocked
        /\ job' = [job EXCEPT !.at = "mark", !.load = NotLoading,
                              !.routes = cache.bound, !.api = EndpointActive]
        /\ Lapse
        /\ UNCHANGED <<rec, stream>>
  /\ UNCHANGED <<tasks, queue, admin, up, routing, pause, paused, gate, sent, delivered,
                 done, raced, orphaned, count>>

MarkPublishing ==
  LET m == job.msg IN
  /\ job.at = "mark"
  /\ \/ /\ PublishingPaused \/ rec[m].status = "published"
        /\ Return /\ UNCHANGED rec
     \/ /\ ~PublishingPaused /\ rec[m].status # "published" /\ Unlocked(m)
        /\ SetStatus(m, "publishing") /\ Goto("api") /\ UNCHANGED stream
  /\ UNCHANGED <<tasks, queue, admin, up, routing, pause, paused, gate, ghosts, count>>

\* api_delivery.enqueue asks once more whether the endpoint is active; its failure is
\* kept as an exception to raise if nothing else succeeds.
CheckEndpoint ==
  /\ job.at = "api"
  /\ job' \in {[job EXCEPT !.at = IF job.api /\ EndpointActive THEN "insert" ELSE "routes"],
               [job EXCEPT !.at = "routes", !.raised = TRUE]}
  /\ UNCHANGED <<rec, tasks, stream, queue, admin, up, routing, pause, paused, gate, ghosts,
                 count>>

\* One row per endpoint and message.  An endpoint deleted in between refuses it, which
\* enqueue takes for a row that is there already.
DeliverToApi ==
  /\ job.at = "insert"
  /\ \/ /\ job' = [job EXCEPT !.at = "routes", !.success = TRUE]
        /\ IF endpoint = "deleted"
           THEN vanished' = vanished \cup {job.msg} /\ UNCHANGED apiRows
           ELSE apiRows' = apiRows \cup {job.msg} /\ UNCHANGED vanished
     \/ job' = [job EXCEPT !.at = "routes", !.raised = TRUE] /\ UNCHANGED delivered
  /\ UNCHANGED <<rec, tasks, stream, queue, admin, up, routing, pause, paused, gate, sent,
                 done, lapsed, raced, orphaned, count>>

\* Mutant: the route resolved at the start is used as it is.
StillRouted_Snapshot(t) == TRUE

\* The route is still enabled and bound, by the cache.
StillRouted(t) == t \in cache.bound

\* The next route, validated just before its send.
CheckRoute(t) ==
  LET next == [job EXCEPT !.load = NotLoading] IN
  /\ job.at = "routes" /\ t \in job.routes /\ Refreshed
  /\ job' = CASE ~cache.enabled -> [next EXCEPT !.routes = {}]
              [] cache.enabled /\ ~StillRouted(t) -> [next EXCEPT !.routes = @ \ {t}]
              [] OTHER -> [next EXCEPT !.at = "send", !.target = t]
  /\ UNCHANGED <<rec, tasks, stream, queue, admin, up, routing, pause, paused, gate, ghosts,
                 count>>

\* The send: answered, refused, or without an answer after it arrived.
Send ==
  LET t == job.target
      next == [job EXCEPT !.at = "routes", !.routes = @ \ {t}, !.target = NoTarget]
  IN
  /\ job.at = "send"
  /\ \/ /\ sent' = [sent EXCEPT ![job.msg][t] = @ + 1]
        /\ job' \in {[next EXCEPT !.success = TRUE, !.ids = TRUE],
                     [next EXCEPT !.raised = TRUE]}
     \/ job' = [next EXCEPT !.raised = TRUE] /\ UNCHANGED sent
  /\ Lapse
  /\ UNCHANGED <<rec, tasks, stream, queue, admin, up, routing, pause, paused, gate,
                 delivered, done, raced, orphaned, count>>

\* Mutant: a publication that reached nobody counts as one.
Reached_Anyway == TRUE

Reached == job.success

\* The end of _publish; an exception in a refresh of the routing ends here too,
\* whatever has been sent by then.
Conclude ==
  LET m == job.msg IN
  /\ job.at = "routes"
  /\ \/ /\ job.routes = {} /\ Reached /\ Unlocked(m)
        /\ rec' = [rec EXCEPT ![m].status = "published", ![m].ids = job.ids]
        /\ done' = done \cup {m}
        /\ Return
     \/ /\ job.routes = {} /\ ~Reached /\ ~job.raised /\ Unlocked(m)
        /\ Store(m, "failed", job.footers) /\ Return /\ UNCHANGED done
     \/ /\ job.routes = {} => ~Reached /\ job.raised
        /\ MarkRetry(m) /\ UNCHANGED done
  /\ Race(m)
  /\ UNCHANGED <<tasks, queue, admin, up, routing, pause, paused, gate,
                 sent, delivered, lapsed, orphaned, count>>

-----------------------------------------------------------------------------
(* Commands. *)

Recoverable == {"pending_publish", "retrying", "publishing", "processing", "received"}

\* list_by_status: the rows as they are now.
Snapshot(statuses) ==
  [m \in {x \in Messages : rec[x].status \in statuses} |-> rec[m]]

Select(kind, statuses) ==
  admin' = [kind |-> kind, todo |-> Snapshot(statuses), held |-> NoRows]

\* The record the loop has come to: they are in the order of their ids.
AtRecord(m) ==
  /\ m \in DOMAIN admin.todo
  /\ \A x \in DOMAIN admin.todo : m <= x

Without(f, m) == [x \in DOMAIN f \ {m} |-> f[x]]

MayCommand == up = "up" /\ admin.kind = "none"

\* The command handler of recover_pending refreshes the pause flag first.
Recover ==
  /\ MayCommand /\ count.commands < MaxCommands
  /\ count' = [count EXCEPT !.commands = @ + 1]
  /\ paused' = pause
  /\ Select("recover", Recoverable)
  /\ UNCHANGED <<rec, tasks, stream, queue, job, up, routing, pause, gate, ghosts>>

RetryFailed ==
  /\ MayCommand /\ count.commands < MaxCommands
  /\ count' = [count EXCEPT !.commands = @ + 1]
  /\ Select("retry", {"failed", "retrying"})
  /\ UNCHANGED <<rec, tasks, stream, queue, job, up, routing, pause, paused, gate,
                 ghosts>>

\* Flushes a new status: visible to others, and its lock gone, at the commit.
Hold(m, status) ==
  [x \in DOMAIN admin.held \cup {m} |-> IF x = m THEN status ELSE admin.held[x]]

\* One record of recover_pending; a full queue ends the loop.
RecoverOne(m) ==
  LET row == admin.todo[m] IN
  /\ admin.kind = "recover" /\ AtRecord(m)
  /\ \/ /\ row.ids
        /\ admin' = [admin EXCEPT !.held = Hold(m, "published"),
                                  !.todo = Without(@, m)]
        /\ UNCHANGED queue
     \/ /\ ~row.ids
        /\ queue' = IF Room THEN Append(queue, Item(m, row.footers)) ELSE queue
        /\ admin' = [admin EXCEPT
             !.held = IF row.status = "publishing" THEN Hold(m, "retrying") ELSE @,
             !.todo = IF Room THEN Without(@, m) ELSE NoRows]
  /\ UNCHANGED <<rec, tasks, stream, job, up, routing, pause, paused, gate, ghosts, count>>

\* One record of retry_failed: the update is flushed, then queue.put waits for
\* room with the transaction still open.
RetryOne(m) ==
  LET row == admin.todo[m] IN
  /\ admin.kind = "retry" /\ AtRecord(m)
  /\ \/ /\ row.ids \/ Owned(m)
        /\ Unlocked(m)
        /\ admin' = [admin EXCEPT !.todo = Without(@, m)]
        /\ UNCHANGED queue
     \/ /\ ~row.ids /\ ~Owned(m) /\ Unlocked(m)
        /\ admin' = [admin EXCEPT !.held = Hold(m, "pending_publish")]
        /\ UNCHANGED queue
     \/ /\ ~row.ids /\ ~Unlocked(m) /\ Room
        /\ admin' = [admin EXCEPT !.todo = Without(@, m)]
        /\ queue' = Append(queue, Item(m, row.footers))
  /\ UNCHANGED <<rec, tasks, stream, job, up, routing, pause, paused, gate, ghosts, count>>

CommitCommand ==
  /\ admin.kind # "none" /\ DOMAIN admin.todo = {}
  /\ rec' = [m \in Messages |->
               IF m \in DOMAIN admin.held
               THEN [rec[m] EXCEPT !.status = admin.held[m]] ELSE rec[m]]
  /\ admin' = NoCommand
  /\ up' = "up"
  /\ UNCHANGED <<tasks, stream, queue, job, routing, pause, paused,
                 gate, ghosts, count>>

-----------------------------------------------------------------------------
(* Surroundings. *)

Change ==
  /\ count.changes < MaxChanges
  /\ count' = [count EXCEPT !.changes = @ + 1]

\* The administrator binds, unbinds, disables, enables, changes the mode; an endpoint
\* is disabled, enabled or deleted, or expires.
Reroute ==
  /\ Change
  /\ \/ /\ \E t \in Targets : bound' = IF t \in bound THEN bound \ {t} ELSE bound \cup {t}
        /\ UNCHANGED <<enabled, mode, endpoint>>
     \/ enabled' = ~enabled /\ UNCHANGED <<bound, mode, endpoint>>
     \/ mode' \in Modes \ {mode} /\ UNCHANGED <<bound, enabled, endpoint>>
     \/ /\ endpoint # "deleted"
        /\ endpoint' \in {"active", "off", "deleted"} \ {endpoint}
        /\ UNCHANGED <<bound, enabled, mode>>
  /\ stale' = stale \ bound'
  /\ off' = (off /\ ~enabled')
  /\ UNCHANGED <<rec, tasks, stream, queue, job, admin, up, pause, paused, gate, sent,
                 delivered, done, raced, orphaned>>

\* set_paused: stored by the web process, or by the monolith itself.
SetPaused ==
  /\ Change
  /\ pause' = ~pause
  /\ paused' = IF Durable THEN paused ELSE pause'
  /\ UNCHANGED <<rec, tasks, stream, queue, job, admin, up, routing, gate, ghosts>>

\* The auto-approve loop reads the stored flag at each of its ticks.
RefreshPaused ==
  /\ up = "up" /\ paused # pause
  /\ paused' = pause
  /\ UNCHANGED <<rec, tasks, stream, queue, job, admin, up, routing, pause, gate,
                 ghosts, count>>

Fail ==
  /\ count.faults < MaxFaults
  /\ count' = [count EXCEPT !.faults = @ + 1]

\* Ghost: a fault between pending_review and the review task.
Orphan ==
  orphaned' = orphaned \cup (IF job.at = "review" THEN {job.msg} \ tasks ELSE {})

\* An exception leaves process_one: the stream tries the entry again, a worker
\* logs it and goes on to its next item.
Raise ==
  /\ Fail /\ job.at # "idle"
  /\ job' = NoJob
  /\ Orphan
  /\ UNCHANGED <<rec, tasks, stream, queue, admin, up, routing, pause, paused, gate, sent,
                 delivered, done, lapsed, raced>>

Crash ==
  /\ Fail /\ up # "down"
  /\ up' = "down"
  /\ job' = NoJob /\ queue' = <<>> /\ admin' = NoCommand
  /\ load' = [t \in Others |-> NotLoading]
  /\ Orphan
  /\ UNCHANGED <<rec, tasks, stream, routing, pause, paused, ignored, cache, sent, delivered,
                 done, lapsed, raced>>

\* load_from_db, start_workers, which reads the pause flag, and then recover_pending.
Boot ==
  /\ up = "down"
  /\ up' = "booting"
  /\ paused' = pause /\ cache' = Routing
  /\ Select("recover", Recoverable)
  /\ UNCHANGED <<rec, tasks, stream, queue, job, routing, pause, ignored, load, ghosts, count>>

-----------------------------------------------------------------------------
Init ==
  /\ rec = [m \in Messages |-> NoRecord]
  /\ tasks = {}
  /\ stream = <<>> /\ queue = <<>>
  /\ job = NoJob /\ admin = NoCommand
  /\ up = "down"
  /\ bound = Targets /\ enabled = TRUE /\ mode \in Modes
  /\ endpoint = IF HasEndpoint THEN "active" ELSE "deleted"
  /\ cache = Routing /\ load = [t \in Others |-> NotLoading]
  /\ pause = FALSE /\ paused = FALSE
  /\ ignored = {}
  /\ sent = [m \in Messages |-> [t \in Targets |-> 0]]
  /\ apiRows = {} /\ vanished = {} /\ done = {}
  /\ stale = {} /\ off = FALSE /\ raced = {} /\ orphaned = {}
  /\ count = [arrivals |-> [m \in Messages |-> 0], changes |-> 0, commands |-> 0,
              faults |-> 0]

ProcessStep ==
  \/ ReadSource \/ ReadLinks
  \/ Start \/ Materialize \/ Decide \/ CreateTask \/ Resolve \/ MarkPublishing
  \/ CheckEndpoint \/ DeliverToApi \/ (\E t \in Targets : CheckRoute(t)) \/ Send \/ Conclude

CommandStep ==
  \/ \E m \in Messages : RecoverOne(m) \/ RetryOne(m)
  \/ CommitCommand

Next ==
  \/ \E m \in Messages : Arrive(m)
  \/ HandleIncoming \/ WorkerTakes \/ ProcessStep
  \/ \E t \in Others : OtherReads(t) \/ OtherApplies(t)
  \/ Recover \/ RetryFailed \/ CommandStep
  \/ Reroute \/ SetPaused \/ RefreshPaused \/ Raise \/ Crash \/ Boot

Spec == Init /\ [][Next]_vars

\* The event loop runs what can run; a dead sender is restarted.
Fairness ==
  /\ WF_vars(ProcessStep) /\ WF_vars(CommandStep)
  /\ WF_vars(HandleIncoming) /\ WF_vars(WorkerTakes)
  /\ WF_vars(Boot)

FairSpec == Spec /\ Fairness
-----------------------------------------------------------------------------
(* Properties. *)

Reloads == [at : {"idle", "source", "links"}, enabled : BOOLEAN, mode : Modes,
            bound : SUBSET Targets]

Jobs == [at : {"idle", "start", "materialize", "pipeline", "review", "resolve",
               "mark", "api", "insert", "routes", "send"},
         msg : Messages \cup {NoMessage}, footers : Nat, via : {"stream", "queue"},
         load : Reloads, routes : SUBSET Targets, api : BOOLEAN,
         target : Targets \cup {NoTarget},
         success : BOOLEAN, ids : BOOLEAN, raised : BOOLEAN]

Items == [msg : Messages, footers : Nat]

\* The variables hold what the code stores in them.
TypeOK ==
  /\ rec \in [Messages -> Record]
  /\ tasks \subseteq Messages
  /\ stream \in Seq(Messages)
  /\ queue \in Seq(Items) /\ Len(queue) <= QueueSize
  /\ job \in Jobs
  /\ admin.kind \in {"none", "recover", "retry"}
  /\ DOMAIN admin.todo \subseteq Messages /\ DOMAIN admin.held \subseteq Messages
  /\ \A m \in DOMAIN admin.todo : admin.todo[m] \in Record
  /\ \A m \in DOMAIN admin.held : admin.held[m] \in Statuses
  /\ up \in {"down", "booting", "up"}
  /\ bound \subseteq Targets /\ enabled \in BOOLEAN /\ mode \in Modes
  /\ endpoint \in {"active", "off", "deleted"}
  /\ cache \in [enabled : BOOLEAN, mode : Modes, bound : SUBSET Targets]
  /\ load \in [Others -> Reloads]
  /\ pause \in BOOLEAN /\ paused \in BOOLEAN
  /\ ignored \subseteq Messages
  /\ sent \in [Messages -> [Targets -> Nat]]
  /\ apiRows \subseteq Messages /\ vanished \subseteq Messages /\ done \subseteq Messages
  /\ stale \subseteq Targets /\ off \in BOOLEAN
  /\ raced \subseteq Messages /\ orphaned \subseteq Messages

Sends(m, t) == sent'[m][t] > sent[m][t]

InStream(m) == \E i \in DOMAIN stream : stream[i] = m

\* The statuses in which recovery or a retry finds a message, and those that end its way.
Findable == Recoverable \cup {"failed"}

Ended == {"published", "filtered"}

InReview(m) ==
  /\ rec[m].status = "pending_review"
  /\ m \in tasks \/ (job.at = "review" /\ job.msg = m)

\* A message that has arrived is in the stream, or its record is in a status in which
\* recovery or a retry finds it, or it is at an end, with a reviewer, or was turned away
\* because its source is disabled: no crash, exception or command makes it
\* vanish, unless a fault comes between pending_review and the review task.
NothingForgotten ==
  \A m \in Messages :
    count.arrivals[m] > 0 =>
      \/ InStream(m) \/ m \in ignored
      \/ rec[m].status \in Findable \cup Ended
      \/ InReview(m)
      \/ rec[m].status = "pending_review" /\ m \in orphaned

\* A record that says published was delivered to a target or an endpoint, whatever
\* recovery has made of it since, or to an endpoint that was deleted just then.
PublishedWasDelivered ==
  \A m \in Messages :
    rec[m].status = "published" =>
      m \in apiRows \cup vanished \/ \E t \in Targets : sent[m][t] > 0

\* A target gets nothing that was unbound, or whose source was disabled, since before
\* the previous send of the same publication: the validation goes with each send,
\* not with the publication.  Unless another task had read the older rows by then, and
\* puts them in place between the reload and the decision.
NoSendToUnbound ==
  [][\A m \in Messages, t \in Targets : Sends(m, t) => t \notin stale /\ ~off]_vars

\* A message whose record was published is not sent to anybody again, whatever
\* puts it back in the queue: unless a command was to write over that very row
\* when it was published.
NoResend ==
  [][\A m \in Messages, t \in Targets : Sends(m, t) => m \notin done \ raced]_vars

\* For an ingest registration a review task or a filter decision stands:
\* neither redelivery, recovery nor a retry changes the status of its record,
\* unless a command was to write over it when the decision was taken.
ApiDecisionsStand ==
  [][\A m \in Messages \ raced :
       ApiSource /\ (m \in tasks \/ rec[m].status = "filtered") =>
         rec'[m].status = rec[m].status]_vars

\* The footer is appended once per message, as FooterProcessor says of itself.
FooterOnce ==
  [][\A m \in Messages, t \in Targets : Sends(m, t) => job.footers <= 1]_vars

\* retry_failed waits for room, and the item that would make room waits for a row
\* it has not committed.
HeldUp == admin.kind = "retry" /\ ~Room /\ job.msg \in DOMAIN admin.held

\* Every incoming entry is acknowledged in the end: none blocks the entries behind
\* it, unless a retry of its own row is caught in front of a full queue.
StreamDrains == []<>(stream = <<>> \/ HeldUp)
=============================================================================
