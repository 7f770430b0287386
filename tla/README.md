# TG-forwarder in TLA+

This directory models the forwarder kept in `app/`: what its processes do to
the rows of PostgreSQL, to the Redis streams and to each other, with the
instances TLC checks and the theorems TLAPS proves.

## 1. The system

Four containers share PostgreSQL and Redis (`docs/architecture.md`):

| process | what it does |
| --- | --- |
| `web` | admin and review API, ingest API, API deliveries; writes rows, sends commands |
| `telegram-receiver`, `safew-receiver` | turn source messages into events of the incoming stream |
| `sender` (one replica) | consumes both streams, runs the pipeline, publishes, auto-approves, recovers |

`app/main.py` runs all of it in one process without streams ("monolith").

### Components

| component | state | operations | what makes it correct |
| --- | --- | --- | --- |
| Review tasks (`app/review`, `routes/reviews.py`) | `review_tasks`, `content_revisions`, `review_actions`, commands in flight | create, edit, restore, reapply rules, approve, reject, publish, claim, conclude, auto-approve | one publication per task, what is sent is what was asked for, decisions are final, nothing gets lost when requests overlap |
| Message pipeline (`message_service.py`) | `processed_messages`, in-process queue, per-chat lock, pause flag | enqueue, process, publish, retry, recover, pause | every accepted message reaches an end, a published one is not published again, nothing goes to a target that was unbound before |
| Stream bus (`redis_streams.py`) | two Redis streams with one consumer group | publish, claim idle, read new, handle with retry, acknowledge and delete | at least once, poison events do not block, length counts unfinished work |
| Ingest (`ingest_service.py`, `routes/ingest.py`) | `ingest_receipts` with leases, `ingest_sources` | authenticate, receipt, lease, enqueue, conclude | a queued receipt has reached the queue, one content per key |
| API deliveries (`api_delivery_service.py`) | `api_deliveries`, `api_endpoints` | enqueue, pull with a cursor, authenticate, bind | one delivery per endpoint and message, a client that follows its cursor sees all |
| Album collector (`album_collector.py`) | parts per group, flush timers | add, flush after delay, flush all | each album leaves once, with all parts that came in time |
| Channel registry (`channel_service.py`, `routes/channels.py`) | rows of sources and targets, their links, the sender's copy | create, patch, delete, replace links from either side, rescan, check permissions, register a conversation | bindings name rows that exist and are the ones asked for; what the account cannot read is disabled |
| Authentication (`app/auth`, `routes/auth.py`) | users, refresh tokens, cookies of browsers, attempts per address | login, refresh, logout, change password, create users, admin script | a login has one token that can be refreshed, until it is ended and not longer |
| Rules and processors (`app/rules`, `rules_service.py`, `app/processors`) | rules, groups, counters, logs, the pass of each worker | administration, seed file, filter, apply, count, deduplicate | edits survive, stored rules can be applied, order and stop conditions, no duplicate without an overlap |
| Receivers (`app/entrypoints/*_receiver.py`, `app/listeners`) | snapshot of the sources, messages in handlers, the sender's copy of the registry | subscribe, monitor, restart, publish to the stream, accept or ignore | a message whose source nobody edits is judged as the registry and the settings say |
| Publishers and retry (`app/publishers`, `retry_service.py`) | none | send with retry and backoff | bounded attempts, no retry of fatal errors |
| Web UI, migrations, scripts, configuration, read-only routes | - | - | not modelled: presentation, schema, configuration |

### Behaviours that are hard to test

ORM sessions overlap on one row; a crash falls between two transactions that
belong together; the stream redelivers; recovery runs while work is in flight;
a restore lands in the middle of a publication; a handler that raises blocks
the stream behind it; a copy of the registry is older than the message judged
by it; an operation awaits the messenger between its reads and its commit.
`PROJECT.json` lists each one at its line, with the property that watches it.

Known and watched by no property, because the code promises nothing there: an
approval whose XADD fails waits for a reviewer (`reviews.py:343`); so does a
task whose overdue approval was followed by a crash (`auto_approve.py:159`);
`retrying` is a status no scheduler picks up (`message_service.py:713`); a
refresh of the routing that raises between two sends marks the message
`retrying` although a target has it (`message_service.py:598`), which is the
at-least-once delivery that `docs/architecture.md:210` accepts; and `session.refresh`
after a commit may return a row that another session has changed meanwhile
(`review/service.py:185`), which the `Refresh` step of `ReviewTasks` models.

## 2. Modules

| module | kind | models |
| --- | --- | --- |
| `ReviewTasks` | component | one review task and everybody who works on it |
| `ReviewOutcome` | abstract | what a review promises: decided once |
| `MessagePipeline` | component | the messages of one source in the sender or the monolith |
| `StreamBus` | component | one Redis stream, its consumer group and the consumer loop |
| `AtLeastOnce` | abstract | what a stream promises who handles its entries: a queue until the first fault, at-least-once delivery after it |
| `IngestReceipts` | component | the receipt of one idempotency key and the requests for it |
| `ApiDeliveries` | component | delivery rows, publications that write them, clients that pull them |
| `ChannelRegistry` | component | sources, targets and their bindings under overlapping operations |
| `SourceIntake` | component | the way of a message from a chat through the receivers to the sender's verdict |
| `TextRules` | operators | processors, matcher and engine on symbolic texts |
| `RuleBook` | component | the table of rules, who edits it, and the passes that apply it |
| `AuthSessions` | component | users, refresh tokens, browsers and overlapping requests |
| `IntakeProofs` | proofs | theorems about `IngestReceipts` and, as the instance `Intake`, `SourceIntake` |
| `*Proofs` (seven more) | proofs | theorems about the component of that name |
| `MC*` | instance | the component as TLC runs it, with symmetry where it is sound |

The components meet at the rows and streams they share, and each module has
the others as its surroundings: `ReviewTasks` has the publication of the same
record by the pipeline (`PipelinePublishes`) and the command stream;
`MessagePipeline` has the incoming stream as a sequence whose head stays until
`Return`, which `StreamBus` models as the Redis commands it is made of (that
the sequence is a fair picture of them until the first fault is what
`AtLeastOnce` says, and that after it nothing is lost or handled without cause);
`IngestReceipts` ends where the stream or the queue takes the message;
`ApiDeliveries` is the transaction that `MessagePipeline` has as
`DeliverToApi` and `ReviewTasks` as part of `Deliver`; `SourceIntake` reads the
enabled flags that `ChannelRegistry` edits, has the stream of `StreamBus` as
the same queue, and ends where `MessagePipeline` begins; `RuleBook`
extends `TextRules` and is inside `Decide` of `MessagePipeline`.

### ReviewTasks

The state is the row of `review_tasks` (status, revision, whether
`published_at` is set, `final_text`), the revision log, the status of the
`processed_messages` row, the command stream, and for each actor its place in
the code, the row as it last read it (`view`) and its open ORM session
(`sess`). Actors are reviewers' web requests, the auto-approve loop and the
sender's command consumer.

`ReviewService` loads a row, checks `expected_revision`, changes attributes
and commits; the UPDATE names the changed columns and has no revision in its
WHERE clause. So every write is three steps: the load with its checks
(`EditText`, `RestoreRevision`, `ReapplyRules`, `Approve`, `Reject`,
`PublishUndecided`, `Finish`, `CheckProcessed`), `Save` (commit: the changed
columns over whatever the row holds by then; the unique revision number makes
two logged writes collide) and `Refresh` (the SELECT after the commit, which
may see somebody else's row). Only `Claim` is one statement.
`Connections` bounds how many sessions may hold the row at once. Sessions that
do overlap leave a mark in the ghost `overlaps`: `"commit"` when a commit lands on
a row another session has changed since it was loaded, `"refresh"` when a
publisher goes on with a row another session has changed since its own write.
The properties that such an overlap breaks say which of them they except; until
it happens they hold of overlapping sessions too.

`publish_task` is `Claim`, `ClaimRefresh`, `CheckProcessed`, `Resolve`,
`Deliver`, `Finish`, `Record`; it is run by the consumer (`TakeCommand`,
`Return` acknowledges, `Raise` keeps the entry), the auto-approve loop, and in
the monolith by the web request. `Crash` kills the sender or the web process.
Texts are abstract. The per-target loop of a delivery is one step, `Deliver`,
with three outcomes: it counts, because a target or the API answered; nothing
went out, and it fails; or something went out and it fails all the same, because
the answer was lost (`publish.py:437-447`) or because the refresh of the routes
before a later target raised (`publish.py:383-396`, which the `except` at 470
turns into a failed task).

The ghosts `asked` and `sent` record what an actor had on its screen, and what
went out: the text, the one asked for, and whether the attempt ended as a
delivery. `ReviewOutcome` is what the user sees of it: the texts that went out
and a verdict, `open` until an attempt ends as a delivery or the status says
`rejected`. Attempts that fail leave it open, also those that reached somebody.

### MessagePipeline

The state is the rows of `processed_messages` (status, whether
`target_message_ids` is set, retry count, how many footers the stored text
has), the messages with a review task, the incoming stream,
`MessageService.queue`, the registry (bound targets, enabled, `publish_mode`, and
the API endpoint: active, off or deleted), the pause flag as stored and as held in
`_paused`, `ChannelService`'s copy of the registry (`cache`), which all tasks
share, the reload that each other task has under way (`load`), the `process_one`
that runs (`job`) and the command that runs (`admin`).

The lock of the source allows one `process_one` at a time, so `job` is one
record; each of its steps is one transaction, one statement after which others
may come in, or one send: `ReadSource` and `ReadLinks` (the refresh of the routing
before `Start`, `Resolve` and each `CheckRoute`; the second puts what was read in
place of the cache), `Start`, `Materialize`, `Decide`, `CreateTask`, `Resolve`,
`MarkPublishing`, `CheckEndpoint`, `DeliverToApi`, `CheckRoute`, `Send`, `Conclude`.
What these decide from is the cache, as others may have left it since: `Others` are
the tasks that reload it as well (`OtherReads`, `OtherApplies`), and may put rows in
place that are older than those `process_one` has just read. Between
`CheckEndpoint` and `DeliverToApi` the endpoint may be deleted: the code then
reports a delivery and writes no row (`api_delivery_service.py:180-183`).

An item that a worker holds while it waits for the lock is still in `queue`, which
is the same as a larger queue. `recover_pending` and `retry_failed` take no lock:
they select rows (`Recover`, `RetryFailed`), go through the copies one by one
(`RecoverOne`, `RetryOne`) and commit at the end (`CommitCommand`); a row they have
flushed is locked until then (`Unlocked`).

`Reroute` and `SetPaused` are the administrator, `RefreshPaused` the tick that
reads the stored flag, `Raise` an exception that leaves `process_one`, `Crash`
and `Boot` the end and the start of the process. `Durable` chooses between
the sender with its stream and the monolith, `ApiSource` makes the source an
ingest registration, `HasEndpoint` gives it an endpoint. Commands run alongside a
publication whenever they like.

The ghosts: `sent`, `apiRows` and `done` are what went out, what has a delivery row
and what was published; `vanished` the messages reported as delivered to an endpoint
that was deleted just then; `stale` and `off` say which targets nobody has seen
bound, and that nobody has seen the source enabled, since before the last send,
neither the registry nor a reload under way; `raced` has the messages that were
published (or, for an ingest registration, filtered or given to review) while the
command that runs held an old copy of their row that makes it write the status again
(`ToOverwrite`): a `publishing` row of `recover_pending`, any row of `retry_failed`;
`orphaned` those that a fault hit between `pending_review` and their review task.

Abstracted: what the processors do to a text is the outcome of `Decide`, and
`rule_based` does what `auto` does; the rows of the later parts of an album
(`COLLECTING_ALBUM`) and a payload that no longer validates are left out; the
attempts of one send are one step with three outcomes (answered, refused,
arrived without an answer).

### StreamBus

Entries are numbers in the order of their ids. The state is the stream, the
group's last delivered entry and pending entries, those idle long enough to be
claimed, and where `_consume` is with its batch. Each Redis command of the
loop is an action: `Claim` (XAUTOCLAIM), `Read` (XREADGROUP), `Acknowledge`
(XACK), `Delete` (XDEL); `NextEntry`, `HandlerRaises`, `TryAgain`,
`HandlerReturns` and `Leave` are the code between them. `Publish` trims as an
approximate MAXLEN may. `RedisError` is a command that fails before or after
Redis executed it, `Stop` is `stop_event`, `Crash` the end of the process.
Redis is modelled as version 7 (XAUTOCLAIM drops pending entries that are no
longer in the stream) and the sender as the single consumer it is deployed as.

`AtLeastOnce` is its abstract specification: entries arrive, wait, are handled
and concluded. Its `waiting` is `Waiting` here, the entries that are in the
stream and unread or pending; its `calm` is that there was no fault. The
refinement (`AtLeastOnceDelivery`) is a property of `stream_main` and a theorem.

### IngestReceipts

The state is the row of `ingest_receipts` for one key, where each request for
it is, what it was told, and what the stream or the queue has taken. `Lookup`,
`Insert`, `Look`, `Claim`, `Conclude` and `Release` are the statements of
`IngestService`, `Publish`, `EnqueueLocally` and `Inspect` the `enqueue`
callback of the route. `durable` is chosen at the start: TRUE with a stream,
FALSE in the monolith. `Expire` is the clock: the lease of 30 seconds outlives
the 10 seconds the owner may spend in `enqueue`, so only the lease of a dead
owner, or of one in a slow statement, runs out. `Work` gives a message of the
monolith any outcome, more than `MessagePipeline` allows. The answers 200 and
202 are both `"accepted"`; credentials are not modelled.

### ApiDeliveries

The state is the committed rows of `api_deliveries`, the publication of each
writer with its flushed rows, the endpoints, and the request, the cursor and
the processed ids of each endpoint's client. `Resolve` is
`active_endpoint_ids`; `Check` and `Insert` are the loop of `enqueue` over the
endpoints, in the order of their links, which is taken to stay the same;
`Insert` takes the next id, waits for a transaction that has flushed the same
key, and is refused by the unique or the foreign key; `Commit` shows the rows.
A refused insert uses up an id, as a sequence does. `Reconfigure` and `Delete`
are the administrator and the clock of `expires_at`. `Authenticate` and `Pull`
are the two transactions of the pull route; `Receive` and `Lose` are a client
that behaves as `docs/api.md:72-76` asks. The ghost `overtaken` has the ids
that were flushed and not committed when another writer flushed a later one;
`reported` is what `enqueue` returned.

### ChannelRegistry

The state is the rows of sources and targets (whether there is one, enabled,
access status, permission, the legacy `target_channel_id`), the links of each
source in the order of their ids, its API bindings, the chats the account can
read and which sources the sender has loaded. An operation that spans several
transactions, or awaits the messenger between its reads and its commit, is two
actions: one that reads a `Snapshot` into `request`, one that commits the
columns whose values differ from those read, and is refused by a unique or a
foreign key (`ReplaceAllowed`, `BindAllowed`). `Aborts` is an exception or the
death of the process in between. `AccountMoves` is the account joining or
leaving a channel, `RegisterConversation` and `SenderLoads` the sender.

`asked` and `askedApis` record what the operators chose last, `overlapped`
the rows that an operation wrote after another had changed them, `torn` the
sources between the two transactions of `create_source`.

### SourceIntake

A message is posted, held by a handler of its receiver, in the stream, and
accepted or ignored by the sender; or missed, when nobody was subscribed,
filtered by the settings of the SafeW receiver (`Admitted`), or lost, with the
process that held it or by an error that the listener logs and swallows (`Drop`). The Telegram receiver reads its snapshot
(`InitialSnapshot`), connects (`Subscribe`), and its `Monitor` restarts it when
the selection has changed. The sender's tasks share one `cache`; a reload is a
read of the rows and, later, the assignment, so reloads overlap. `Handle` is
`handle_incoming`, which reloads when it has not done so for five seconds or since
its start (`due`), registers an unknown SafeW conversation if the settings say so,
and acknowledges what it ignores. `settings` is chosen at the start and stays.

The ghost `owed` has, for each message, what the registry and the settings made of it
when it was posted, if nothing was behind about its source by then (`Settled`):
the receiver listened to it or not, rightly, and neither the copy nor a reload under way
had another row of it. It is taken back (`Excuse`) when somebody edits
that source, or when the message is given up by its receiver.

### TextRules and RuleBook

Texts are sequences of symbols: words, links, invitations, mentions; for each
symbol a message has the entity that covers it: none, a URL, a mention, or the link
it hides. Links are told apart by whether a regular expression of the link filter
sees them (`Bare` ones begin with neither `http(s)://`, `t.me/` nor `telegram.me/`),
mentions by whether they have five characters (`Short`). `TextRules` has the
processors as operators (`KeywordDrop`, `TextReplaced`, which forgets the entities of
a text it changes, `LinkFiltered`, `WithFooter`, `HashOf`), the
matcher (`Matches`, `MediaHits`, `ApplyReplacements`, `ValidRule`) and the
engine (`EngineStep`, applied in turn by `ApplyRules`). What goes over a text or
a list is a recursive function on its positions (`Picked`, `Ordered`,
`AllReplaced`, `Hits`, `ApplyReplacements`, `ApplyRules`).

`RuleBook` has the rows of rules and groups, the calls of operators, the
sender seeding the rules from its file, and in each worker the pass of a
message: `Filter` (the processors before the rules; enabled groups are read),
`Apply` (the rules are read and applied), `ReadCounts` and `RecordHits` (the
session that logs), `Decide` (verdict, footer, deduplication). An update
validates the merge of the patch with the row as read and writes the columns
that differ. `Publish` is the rest of the pipeline or a review. `asked` is each
rule as it was asked for, `overlapped` the rules an operation wrote after
another had changed them, `contended` the same of counters, and `clean` what
the deduplication could have met when it let a message pass. `Age` is the clock: a
published row grows older than `duplicate_content_window_hours`, after which the
deduplication does not ask for it (`aged`).

### AuthSessions

Tokens are numbers; a token has its user, whether it is revoked, the login it
descends from (`chain`) and the password it was issued under. Passwords are
the numbers of their changes. A browser has a cookie with a refresh token
(`jar`) and an access token; a response may be lost. `refresh` is two
transactions (`RefreshRead` and `RefreshCommit`, then `Issue`), a logout and a
change of password are a read and a commit; `change_password` has written the
user's row before it selects the tokens, so two of them do not overlap.
`AdminScript` sets a password and leaves the tokens. The limiter has the
attempts of one address in memory: an attempt drops those from the front that
the window has passed (`Kept`), then is let through (`Allow`) or refused
(`Deny`) by how many are left; `Crash` forgets them.
The ghosts `overlap`, `lost`, `left` and `reset` have the logins on which two
requests met, that lost a token on its way, that were logged out, and whose
password the script set.

## 3. Runs

| run | instance | shows |
| --- | --- | --- |
| `review_serial` | a reviewer, the auto-approve loop and the consumer, two requests, a crash, a competing pipeline publication, operations up to revision 5, one session at a time | `PublishesWhatWasAsked`, `DecidedOnce` (refinement of `ReviewOutcome`), `CommandsAcknowledged` |
| `review_racing` | the monolith, a reviewer and the loops of the sender, two sessions that may overlap, operations up to revision 4, a crash | `SentTextLogged`, `NoClaimAfterPublished` survive lost updates; `OnePublisher` until a stale commit lands |
| `review_overwrite` | two overlapping sessions | violates `NoOverwrite`: an edit is overwritten without a conflict |
| `pipeline_main` | one message, a target and an API endpoint, a queue of one, one change, one command alongside, one fault | `NothingForgotten`, `PublishedWasDelivered`, `StreamDrains` |
| `pipeline_repeats` | a message of an ingest registration that arrives twice, in the monolith; two targets, another task that reloads the routing, a command alongside, a change, a fault | `NoResend`, `ApiDecisionsStand`, `NoSendToUnbound` |
| `stream_main` | four entries, one poison, batches of two, MAXLEN 3, three faults | `NothingLost`, `RepeatsAreFaults`, `HandledInOrder`, `AtLeastOnceDelivery` (refinement of `AtLeastOnce`), `EveryEntryHandled` |
| `ingest_main` | two requests, two contents, two faults, both deployments | `AcceptedWasEnqueued`, `RepeatsAreFaults`, `ReceiptQueued` |
| `api_main` | two writers, two endpoints, two messages, pages of one row, one change, one fault | `DeliveredHasRow`, `OnlyOvertakenSkipped`, `EveryRowReceived` |
| `registry_main` | two sources and two targets, of Telegram and not, one API endpoint, two operations that may overlap, one move of the account; some rows registered at the start, others created | `WellFormed` (legal rows, no binding to a row that is gone), `ExactlyWhatWasAsked`, `AccessGate`, `LegacyAligned` |
| `intake_main` | a Telegram source and a SafeW conversation with a message each, every choice of the settings, two reloading tasks, two edits, one failure | `QuietIntakeIsExact`, `SubscriptionFollows`, `TakenIsConcluded` |
| `rules_main` | three rules, two groups, two messages of one content and one that a replacement changes, two workers, two calls of operators, a restart | `WellFormed` (rows complete, valid, in groups that exist), `PatchesSurvive`, `HitsAreCounted`, `EngineKeepsOrder`, `LinksAreRemoved`, `DuplicatesOverlapped` |
| `auth_main` | two users, two browsers, three tokens, three requests of which two overlap, one login in two seconds, a crash, a reset | `OneLivePerLogin`, `EndedSessionsStayEnded`, `SessionsLast`, `LoginsBounded` |

Every safety property of these runs is also a theorem (section 4); a few are
left to the proofs alone (`DecisionsAreFinal`, `OneDelivery`, `OneEnqueues`,
`OneContent`, most `TypeOK`s). What only the runs show is liveness.
`CHECK_DEADLOCK` is off because every instance stops once its bounds are used up.

### Why the bounds are enough

Each hazard needs two actors and one fault; the bounds admit one more than
that where TLC can afford it. Review: the task starts at revision 2, an
approval and a claim make it 4, and the operations allowed up to 5 let a restore land on the
claimed row, so that the transition at the end of the publication is refused
(`Raise` in `Conclude`) and its command is tried again; the reviewer and the
auto-approve loop are the competitors, with two sessions in `review_racing`.
What needs both an overlap and more operations is left to the proofs, in
which neither is bounded. Pipeline: the queue of one makes
it full with a single message, a target and an endpoint, or two targets
(`pipeline_repeats`), make a partial delivery, two
retries reach `max_retries`, a single change or command at any of the steps is
what the code validates against, and one other task is enough to put older rows in
place of the cache. Stream: four entries with MAXLEN 3 force a
trim, two per batch leave a rest behind a failure, three faults can hit
delivery, acknowledgement and deletion of one entry. Receipts: two requests
compete for a lease, two faults let both die with it. Deliveries: two writers
with two endpoints have a partially flushed transaction, a page of one row
forces `has_more`. Registry: every pair of operations meets on two sources and
two targets, the least with which one side's replacement touches the other's.
Intake: a registry row needs two edits to be changed and changed back while a
reload is under way; messages of one source do not affect each other. Rules:
an order needs two rules, a copy or an import one more, a
contended counter two workers; the texts have every kind of symbol and entity the
filters tell apart, with entities that are kept and entities that a replacement
forgets, under one choice of the settings: that of the others is left to
`LinksNeverPass`, which holds for all. Sessions: a login, its successor and the successor of a
request that overlapped are three tokens; a window of one and a clock up to two
have attempts inside, at the end of and after a window. Every bound is a constant with `Max` in its name and appears
in a guard; the proofs do not depend on its value.

### Fairness

The fair actions are those the event loop, the database and Redis carry on by
themselves: a request or `process_one` that has begun goes on, the consumer
reads what is there, a dead container is restarted (`restart:
unless-stopped` in `compose.yaml`), clocks run. Faults, requests and administrators are not
fair. Two assumptions are strong: a handler called again and again returns at
last (`StreamBus`, SF on `HandlerReturns`; `StreamDrains` and
`CommandsAcknowledged` show that for the two handlers of the sender), and a
client does not lose every answer (`ApiDeliveries`, SF on `Receive`).
`SourceIntake` has the restart of the receiver, the poll of its monitor, the
XADD that is retried and the handler under way as fair; edits, posts and
failures are not.
`StreamDrains` excepts `HeldUp`: `retry_failed` awaits room in the queue
(`message_service.py:757`) with row locks held that the item at the head of
the line may need.

### Findings

`review_overwrite` is the run that contradicts a line of the documentation;
`PROJECT.json` quotes it. TLC refutes four more properties, which stay in their
modules; a configuration for each is the one of the component's main run with
that property in place of the others and the changes named here.

- `BothHalvesFail` (`ReviewTasks` as in `review_serial`, with
  `MaxCrashes = 0` and `MaxPipeline = 0`): a restore during a
  publication that fails bumps the revision under the owner of the claim
  (`review/service.py:259`), whose final transition is then refused; the task
  stays in `publishing`, where the docstring of `publish.py:203` has both
  records fail.
- `NoResend` with `done` in place of `done \ raced` (`MessagePipeline`, in
  `pipeline_repeats`): `recover_pending` writes the status over a row that has been
  published since it was read (`message_service.py:835`) and queues it again, while
  `docs/architecture.md:201` has published messages left alone. `ApiDecisionsStand`
  without its exception fails in the same way, through `retry_failed`
  (`message_service.py:749`). The exception is exact as far as the theorems go:
  apart from these two orders of steps, both properties hold.
- `FooterOnce` (`MessagePipeline`): a message that was paused after the
  processors goes through them again (`message_service.py:837`).
- `NothingSkipped` (`ApiDeliveries`): a row whose transaction commits late lies
  behind the cursor of its client (`api_delivery_service.py:217`, against
  `docs/api.md:78` and `:107`).

What the other properties make an exception for, or a model has as the code
does it:

- `session.refresh` after a commit returns the row as it is by then
  (`review/service.py:185`), and the auto-approve loop and the publish routes go
  on with the revision it returns: an edit that lands between an approval and its
  refresh is published in place of the approved text. `PublishesWhatWasAsked`
  excepts exactly this (`"refresh"` in `overlaps`) and stale commits.
- A task whose delivery reached a target and then raised is marked failed
  (`publish.py:470`) and may be published again, to the same targets: `DecidedOnce`
  promises nothing after an attempt that failed.
- `pending_review` is committed before the review task is created
  (`message_service.py:474`) and recovery does not select that status: an item
  of the in-process queue that fails in between has no task (`orphaned` in
  `NothingForgotten`, which excepts exactly these).
- A fault leaves entries pending for five idle minutes while newer ones are
  handled (`redis_streams.py:168`), hence `faults = 0` in `HandledInOrder`. A
  crash between XACK and XDEL (`:197`) leaves an entry that XLEN counts for ever.
- Two overlapping replacements of a source's destinations leave the union of
  both (`channel_service.py:605`; the docstring at `:643` says "Atomically
  replace all"): `overlapped` in `ExactlyWhatWasAsked`.
- The sender registers a SafeW conversation it does not know as enabled, also
  one that an operator created and disabled since its last reload
  (`channel_service.py:178`).
- A message of a source enabled less than five seconds ago is ignored and
  acknowledged (`sender.py:159-167`), and a change of the selection ends the
  receiver with what its handlers hold (`telegram_receiver.py:198-208`); the listener
  drops a message for which Telegram answers with an error or a flood wait
  (`telegram_listener.py:159-219`): `owed` in `QuietIntakeIsExact`.
- Nothing keeps the names of rules unique, by which the seed file finds them: a
  second rule of one name makes `sync_from_file` raise at each start
  (`rules_service.py:317-319`). The file also writes over operators' edits of
  its rules at each start, and its item merged with them may not be valid.
- A rule of a group that is disabled between the two SELECTs of
  `load_enabled_rules` is applied once more (`loader.py:34`); a rule deleted
  between its application and its log makes the pass raise
  (`rule_engine.py:68-89`); deleting a disabled group makes its rules active
  (`rules_service.py:386`).
- A rule on media with `replace` or `remove` puts its replacement before the
  text; the test of the rule does not show that, although `matcher.py:1` has
  both share the matcher.
- `find_matches` goes on behind a hit that is no whole word (`matcher.py:155`),
  so that a whole word that overlaps it is not found.
- A replacement that changes a text clears its entities (`text_replace.py:35-37`),
  and the regular expressions that are left see only links that begin with
  `http(s)://`, `t.me/` or `telegram.me/`, and mentions of five characters or more
  (`link_filter.py:11-15`): a blocked domain or a `telegram.dog` invitation without
  a scheme passes. `LinksAreRemoved` excepts exactly these (`EntitiesTell`, `Bare`,
  `Short`).
- The deduplication asks only for rows created within its window
  (`message_repo.py:129-134`): content published before it gets through again
  (`aged` in `DuplicatesOverlapped`).
- An endpoint that is deleted while a message is on its way to it counts as
  delivered without a row (`api_delivery_service.py:180-183`): a message with no
  other destination is then published to nobody (`vanished` in
  `PublishedWasDelivered`).
- The routing is read again before each send, but decided from the shared cache,
  where a reload that began earlier may put older rows in between
  (`channel_service.py:170-176`): a target unbound, or a source disabled, before the
  previous send still gets the message if some task had read it as bound and was about
  to put that in place (`stale` and `off` in `NoSendToUnbound`).
- `create_admin.py:40` sets a password and leaves the refresh tokens good
  (`reset`); access tokens are valid until they expire, whatever ends the
  session; two requests that refresh with one token both get a successor
  (`overlap`).

## 4. Proofs

Proofs hold for every value of the constants, so for any number of actors,
messages, entries, rules, retries and faults. The assumptions are the named
`ASSUME`s of the modules: that bounds are natural numbers, that the `No...`
values are not members of the sets they extend, that the rules
(`RuleAssumption`) and targets (`RegistryAssumption`) are finitely many, and
that what operators send and the seed file holds has the columns that the API's
schemas and the loader let through (`Columns`, `Items`).

- **ReviewTasks.** `TypeCorrect`. `NoRepublication`
  (`NoClaimAfterPublished`): `TypeInv` and `SessionsKeep`, that no open session
  unsets `published_at` or enters `publishing`, because what overlapping
  sessions write is decided when they load. `SentTextIsLogged`: `AllLogged`,
  that the text of the row, of every session, screen and send is in the log.
  The other three hold of overlapping sessions too, up to the overlap they
  except. `OrderlyInv`: no open session leaves a final status, and only the owner's
  leaves `publishing` (`SessionSafe`); and while `Orderly`, a session whose
  revision is still the row's has loaded the row as it is (`Fresh`), so that any
  other commit breaks `Orderly`, and there is one owner at most, with the row in
  `publishing`. Hence `ExclusiveClaim` and `FinalDecisions`. `AskedIsPublished`
  (`PublishesWhatWasAsked`): in `AskedInv` a revision number names one text, so
  that whoever holds the number of the row, on a screen, in a command or in a
  claim, holds its text (`Fits`). `ReviewDecidedOnce` is the refinement of
  `ReviewOutcome`, step by step (`OutcomeStep`): in `OutcomeInv` an owner that has
  not delivered is the only one who could have, and it ends its claim as
  published after a delivery, as failed only without one.
- **MessagePipeline.** `TypeCorrect`; `RoutesAreValidated`
  (`NoSendToUnbound`) from `RouteInv`, that nobody sees a stale target (`NobodySees`):
  not the registry, not a reload of another task or of `process_one`, nor the cache once
  it was refreshed for the target about to be sent to (`ReloadSees`, `CacheSees`);
  `PublishedIsDelivered` from `DeliveredInv`, which carries the delivery, or that the
  endpoint was deleted just then, from the job and from the copies of
  rows that commands hold; `NothingIsForgotten` from `ForgetInv`, that an entry
  leaves the stream only with a record or a refusal (`KnownInv`: who is past the
  first session, has a task or is held by a command has a record), and that a message
  in `pending_review` has its task, is about to get it, or was hit by a fault
  (`ReviewInv`).
  `PublishedStaysSent` (`NoResend`) and `DecisionsOfApiStand` hold with commands
  alongside, from `SettledInv`: the row of a settled message that is not in `raced`
  is as it was settled and no command has touched it or is to (`Untouched`); a
  message under way is not such a message; and a copy with `target_message_ids`
  belongs to one in `raced`, because no command selects a published row.
- **StreamBus.** `TypeCorrect`; `NothingIsLost` from `LostInv`, that an entry
  in hand past its handler is handled or poison; `RepeatsCostFaults` from
  `RepeatInv`, in which an entry that is still ahead has
  a fault for each time it was handled, and a stop under way counts as a fault
  that may yet repeat one; `OrderIsKept` (`HandledInOrder`) from `OrderInv`, that
  until the first fault what is pending is in the batch, what is in hand is its
  first, and what was handled comes before the rest.
  `StreamIsAtLeastOnce` is the refinement of `AtLeastOnce`, step by step
  (`PromiseStep`), from the four invariants and `KeptInv`, that a pending entry is
  in the stream or was trimmed and what the handler gets decodes: of the Redis
  commands only XACK takes an entry from what waits (`ClaimWaits`, `ReadWaits`,
  `AckConcludes`, `DelWaits`).
- **IngestReceipts** (`IntakeProofs`). `TypeCorrect`, `OneEnqueuesHolds`,
  `AcceptedIsEnqueued`, `KeysHaveOneContent`, `RepeatsCostFaults` from `LeaseInv`
  (who enqueues holds a lease that has not expired), `ContentInv`, `TakenInv` and
  `RepeatInv`.
- **SourceIntake** (`IntakeProofs`, as the instance `Intake`, whose assumption is
  therefore a hypothesis of its theorems, and whose properties are listed under
  its name there: `Intake!TypeOK`, `Intake!QuietIntakeIsExact`). `IntakeTypeCorrect`; `IntakeIsExact`
  (`QuietIntakeIsExact`) from `OwedInv`: a message of which something is owed has it,
  or is on its way while the row of its source still makes that of it (`Right`) and
  all copies of that row, in the cache and in every reload under way, are right or
  older only by the registration of the conversation (`Fresh`). `RegisteredInv` is
  what the registration needs, that the reload behind it sees what it wrote;
  `StreamInv` what a verdict on the head needs, that the stream
  holds each of its messages once.
- **ApiDeliveries.** `TypeCorrect`, `OneDeliveryHolds`, `DeliveredRowsExist`,
  `OnlyOvertakenRowsSkipped`. `KeyInv` extends the unique key to flushed rows.
  For the cursor: a flushed row behind any later row, cursor or answer on its
  way is overtaken (`OvertakenInv`, `PastInv`), and an answer is closed
  downwards above the cursor (`PageInv`, `FirstOfClosed`).
- **ChannelRegistry.** `RegistryWellFormed`, `DestinationsAsAsked`
  (`ExactlyWhatWasAsked`), `MissingIsDisabled` (`AccessGate`) and
  `LegacyNamesALink` (`LegacyAligned`) from one `RegistryInv`, stated of one row
  at a time so that a step has to be followed only for the rows it writes.
  `Requests` says what each operation has read; what it read may be old by its
  commit, and the invariant needs nothing of it but its type: bindings to rows
  that are gone are kept out by the foreign keys and by the deletes that cascade,
  the rest holds of rows that are not `overlapped` (or `torn`), because no
  operation wrote them over another's change. That the targets are finitely many
  bounds the lists of links, which name each at most once (`Lists`, `Only`).
- **RuleBook.** The table: `TableWellFormed` and `ChangesSurvive`
  (`PatchesSurvive`) from `TableInv`, in which every stored rule is whole, in a
  group that exists, and, unless overlapped, valid and as it was asked for,
  although the code only ever validates a merge with an earlier read. The passes:
  `CountersFollowLogs` (`HitsAreCounted`), `RulesInOrder` (`EngineKeepsOrder`),
  `LinksNeverPass` (`LinksAreRemoved`) and `DuplicatesAreSeen`
  (`DuplicatesOverlapped`) from `PassInv`, that a pass has the text the processors
  and the engine made for it and no counter it read is ahead of the logs.
  `RulesInOrder` is about what `ApplyRules` computes: an induction over the rules
  (`AppliedUpTo`, `InOrder`). `LinksNeverPass` rests on `PickedFacts`, what
  picking positions of a text leaves of it, and on `ReplacedEntities`, that entities
  still cover their links unless a replacement changed the text. `DuplicatesAreSeen`
  needs that hashes and rows stay as the check met them (`Deduplicated`).
  Three theorems say what the text functions compute, for every text. No run
  states them, since TLC would only meet the few texts of its constants.
  `HitsAreExact`: a search finds occurrences only, in order and without overlap,
  and every occurrence it leaves aside overlaps one it found (`FoundUpTo`, an
  invariant of the scan). `KeywordsAreExact`, from it: the keyword filter drops
  exactly the texts in which a keyword stands, symbol by symbol up to case.
  `ReplacementsAreExact`: replacing from right to left, which keeps the positions
  of the hits still to come valid, rewrites every hit and nothing else, although each
  replacement moves all that stands behind it (`PartRewritten`, which says where
  every part stands after each replacement).
- **AuthSessions.** `TypeCorrect`, `OneLive`, `EndedStayEnded`, `Lasting`.
  The three properties speak of tokens at rest; whether they last is decided by
  what a request read before the commits of others. `ChainInv` ties rows,
  cookies and requests to chains and users; `SoloInv` and `SeatInv` give a chain
  one browser and, while no overlap was seen, one request. On such a
  chain one token is live, the request at work is about it, and none is live
  between the two commits of a refresh (`LiveInv`). `LeftInv` adds
  that no refresh is on its way on a chain that was logged out;
  `PasswordInv`, that whoever is about to issue a token with an older
  password has met its change, and that a change under way has found every live
  token of its user. `FreshStep` is the step of all four requests that begin.
  `LoginsStayBounded` (`LoginsBounded`) from `LimiterInv`: the limiter remembers
  the last logins that were let through and has forgotten only those that the
  window has passed.

The functions that go over a text or a list of rules are reasoned about with two
lemmas of `RuleBookProofs`: `Recursion`, that the function a definition by
recursion over positions describes exists and obeys it, and `UpTo`, that what
each step keeps holds at every position, by the least position where it does
not (`Induction`, from the well-foundedness of the natural numbers). Texts are
sequences of strings; that the three literals in `RuleAssumption` are strings is
stated there for the provers.

Only model-checked: liveness, which is out of the prover's reach
(`CommandsAcknowledged`, `StreamDrains`, `EveryEntryHandled`, `ReceiptQueued`,
`EveryRowReceived`, `SubscriptionFollows`, `TakenIsConcluded`), and the findings,
which are violations.

## 5. Not modelled

- Web UI, migrations, scripts, configuration, logging, read-only routes:
  presentation, schema and start-up.
- Credentials and tokens of ingest sources and API endpoints: single-row writes.
- Media files, media snapshots of a task: files on disk; that a download fails
  is a choice of `Materialize`.
- Role heartbeats and queue length: they only report.
- Channel registry: titles, user names, publish mode and processing profile,
  the registration of a row that was deleted before, the test message.
- Receivers: the normalization of messages, the D-Bus service, an unset account; events
  of ingest registrations, for which the sender reloads its copy before it looks
  (`sender.py:40-47`); an XADD that Redis executed although its answer was lost, by which
  a message is in the stream twice.
- Rules: regular expressions beyond literal ones, names and priorities of
  groups, tags, excerpts, the test of a rule; in the link filter, entities that
  overlap, offsets of UTF-16 taken for code points (`link_filter.py:99-125`), and links
  that a removal puts together out of what stood around it. `RuleBook` takes a group's name as
  unique, which a constraint guarantees.
- Authentication: roles beyond who may create users, the formats of tokens and
  hashes, a response that overtakes a later one.
- Album collector, attempts and backoff of one send, bot commands (each calls
  one operation modelled elsewhere), runtime settings and history (single-row
  writes and reads): planned or not, see below.

## 6. Plan

Done: the nine components above, in the order in which a message meets the
most actors, and a theorem for each safety property of their runs. Next, most
important first:

1. **AlbumCollector**: parts, timers, late parts; **SendRetry**: attempts and
   backoff with their bounds.
2. Compositions: `StreamBus` with the stream of `SourceIntake` and
   `MessagePipeline` (the sequence as the abstract specification of stream and
   consumer), `IngestReceipts` in front of it.

A new component's run would take the place of `review_racing` or
`pipeline_repeats`, whose properties are theorems.
