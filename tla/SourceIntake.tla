----------------------------- MODULE SourceIntake -----------------------------
(***************************************************************************)
(* The way of a message from the chat it is posted in to the pipeline: the *)
(* Telegram receiver, which subscribes to the enabled sources of the       *)
(* registry and restarts when they change; the SafeW receiver, which takes *)
(* the notifications its settings admit; and the sender, which accepts or  *)
(* ignores what comes by its own copy of the registry.                     *)
(*                                                                         *)
(* The sender's tasks share that copy.  Each reloads it on its own: reads  *)
(* the rows, and some time later puts them in place of what is there.      *)
(*                                                                         *)
(* The stream between them is StreamBus, here the queue that it is as long *)
(* as nothing fails (AtLeastOnce): a failure may let messages of different  *)
(* sources overtake each other.                                            *)
(***************************************************************************)
EXTENDS Naturals, FiniteSets, Sequences

CONSTANTS
  Source, TgSource,   \* sources; the Telegram ones, the others are SafeW's
  Message, SourceOf,  \* messages and the source each is posted in
  Task,               \* tasks of the sender that reload the registry
  Incoming,           \* the one that handles the stream
  MaxEdits, MaxFaults \* bounds: registry changes, failures

ASSUME IntakeAssumption ==
  /\ TgSource \subseteq Source
  /\ SourceOf \in [Message -> Source]
  /\ Incoming \in Task
  /\ MaxEdits \in Nat /\ MaxFaults \in Nat

VARIABLES
  settings,   \* of the containers: conversations admitted, registration on or off
  row,        \* the registry: each source is absent, off or on
  receiver,   \* where the Telegram receiver process is
  subscribed, \* the snapshot it started from
  where,      \* where each message is
  stream,     \* the incoming stream
  handler,    \* where handle_incoming is with the head of the stream
  cache,      \* the sender's copy of the registry
  load,       \* the reload each task has under way
  due,        \* handle_incoming has not reloaded since the sender started
  edits, faults,
  \* Observation: what became, by the registry and the settings, of a message when it was
  \* posted, or "none": subscription, copy or a reload had its source wrong, an operator
  \* has edited the source since, or it was lost for a reason (Monitor, Drop, ...).
  owed

counters == <<edits, faults>>
vars == <<settings, row, receiver, subscribed, where, stream, handler, cache, load, due,
          counters, owed>>

-----------------------------------------------------------------------------
Rows == [Source -> {"absent", "off", "on"}]

\* Mutant: sources of other backends are not left out.
Enabled_AllBackends == {s \in Source : row[s] = "on"}

\* load_telegram_source_snapshot
Enabled == {s \in TgSource : row[s] = "on"}

NotLoading == [at |-> "idle"]

Read(rows) == [at |-> "read", rows |-> rows]

\* Nothing is behind about source s: the receiver listens to it when it should, and no
\* reload can bring back an old row of it.
Settled(s) ==
  /\ s \in TgSource => receiver = "up" /\ (s \in subscribed <=> row[s] = "on")
  /\ cache[s] = row[s]
  /\ \A t \in Task : load[t].at = "idle" \/ load[t].rows[s] = row[s]

\* safew_app_names, safew_capture_all_apps and safew_allowed_chats as the set of
\* conversations they let through; safew_auto_register_sources.
Settings == [admitted : SUBSET (Source \ TgSource), register : BOOLEAN]

\* What the handlers of the Telegram receiver, and of the SafeW receiver, hold.
HeldByTelegram == {m \in Message : where[m] = "held" /\ SourceOf[m] \in TgSource}

HeldBySafeW == {m \in Message : where[m] = "held" /\ SourceOf[m] \notin TgSource}

Place(m, place) == where' = [where EXCEPT ![m] = place]

\* What is to become of a message of source s.
Judged(s) ==
  CASE s \in TgSource -> IF row[s] = "on" THEN "accepted" ELSE "missed"
    [] s \notin TgSource \cup settings.admitted -> "filtered"
    [] s \in settings.admitted ->
         IF row[s] = "on" \/ (row[s] = "absent" /\ settings.register)
         THEN "accepted" ELSE "ignored"

Posted(m, place) ==
  /\ where[m] = "unposted"
  /\ Place(m, place)
  /\ owed' = [owed EXCEPT ![m] = IF Settled(SourceOf[m]) THEN Judged(SourceOf[m]) ELSE @]

\* Nothing is owed any more of these messages.
Excuse(messages) == owed' = [m \in Message |-> IF m \in messages THEN "none" ELSE owed[m]]

Fault == faults < MaxFaults /\ faults' = faults + 1 /\ UNCHANGED edits

-----------------------------------------------------------------------------
(* The registry. *)

\* One commit of ChannelRegistry: a source is created, enabled, disabled or deleted.
Edit(s) ==
  /\ edits < MaxEdits
  /\ edits' = edits + 1
  /\ \E to \in {"absent", "off", "on"} \ {row[s]} : row' = [row EXCEPT ![s] = to]
  /\ Excuse({m \in Message : SourceOf[m] = s})
  /\ UNCHANGED <<settings, receiver, subscribed, where, stream, handler, cache, load, due,
                 faults>>

-----------------------------------------------------------------------------
(* The Telegram receiver. *)

\* _wait_for_initial_snapshot, repeated while the database fails.
InitialSnapshot ==
  /\ receiver = "starting"
  /\ receiver' = "connecting"
  /\ subscribed' = Enabled
  /\ UNCHANGED <<settings, row, where, stream, handler, cache, load, due, counters, owed>>

\* TelegramListener.start registers the handlers; without sources it stays idle.
Subscribe ==
  /\ receiver = "connecting"
  /\ receiver' = "up"
  /\ UNCHANGED <<settings, row, subscribed, where, stream, handler, cache, load, due,
                 counters, owed>>

\* The process ends: what its handlers still hold is lost, compose starts it again.
Exit ==
  /\ receiver' = "starting"
  /\ subscribed' = {}
  /\ where' = [m \in Message |-> IF m \in HeldByTelegram THEN "lost" ELSE where[m]]

\* Mutant: a snapshot compared with another object always differs.
SelectionChanged_Always == TRUE

\* Mutant: only a new source makes the receiver restart.
SelectionChanged_Added == ~(Enabled \subseteq subscribed)

SelectionChanged == subscribed # Enabled

\* _monitor_source_changes returns when the selection differs from the first one.
Monitor ==
  /\ receiver = "up"
  /\ SelectionChanged
  /\ Exit
  /\ Excuse(IF subscribed # Enabled THEN HeldByTelegram ELSE {})
  /\ UNCHANGED <<settings, row, stream, handler, cache, load, due, counters>>

\* The connection breaks, the session is not authorized, or the process dies.
ReceiverFails ==
  /\ receiver # "starting"
  /\ Fault
  /\ Exit
  /\ Excuse(HeldByTelegram)
  /\ UNCHANGED <<settings, row, stream, handler, cache, load, due>>

\* A message is posted in a Telegram channel: its handler takes it when the receiver
\* listens to that chat.  Telegram does not repeat it to a client that was away.
PostInChannel(m) ==
  /\ SourceOf[m] \in TgSource
  /\ Posted(m, IF receiver = "up" /\ SourceOf[m] \in subscribed THEN "held" ELSE "missed")
  /\ UNCHANGED <<settings, row, receiver, subscribed, stream, handler, cache, load, due,
                 counters>>

\* _handle_event and _handle_album catch a flood wait, an RPC error and any other
\* exception, log it and go on without the message; the process does not end.
Drop(m) ==
  /\ m \in HeldByTelegram
  /\ Fault
  /\ Place(m, "lost")
  /\ Excuse({m})
  /\ UNCHANGED <<settings, row, receiver, subscribed, stream, handler, cache, load, due>>

\* Mutant: the filter by application and conversation does nothing.
Admitted_All(s) == TRUE

Admitted(s) == s \in settings.admitted

\* The SafeW desktop notifies of a message; the receiver leaves out what its settings
\* do not admit.
Notify(m) ==
  /\ SourceOf[m] \notin TgSource
  /\ Posted(m, IF Admitted(SourceOf[m]) THEN "held" ELSE "filtered")
  /\ UNCHANGED <<settings, row, receiver, subscribed, stream, handler, cache, load, due,
                 counters>>

\* _publish_incoming_message and the SafeW receiver's handle retry the XADD until it
\* succeeds; media that cannot be had is noted in the message.
Publish(m) ==
  /\ where[m] = "held"
  /\ Place(m, "stream")
  /\ stream' = Append(stream, m)
  /\ UNCHANGED <<settings, row, receiver, subscribed, handler, cache, load, due, counters,
                 owed>>

\* The SafeW receiver dies with the notifications it holds.
SafeWFails ==
  /\ Fault
  /\ HeldBySafeW # {}
  /\ where' = [m \in Message |-> IF m \in HeldBySafeW THEN "lost" ELSE where[m]]
  /\ Excuse(HeldBySafeW)
  /\ UNCHANGED <<settings, row, receiver, subscribed, stream, handler, cache, load, due>>

-----------------------------------------------------------------------------
(* The sender. *)

\* load_from_db of task t: the SELECTs, and, the session closed, _apply_cache.
LoadRows(t) ==
  /\ load[t].at = "idle"
  /\ load' = [load EXCEPT ![t] = Read(row)]
  /\ UNCHANGED <<settings, row, receiver, subscribed, where, stream, cache, counters, owed>>

ApplyCache(t) ==
  /\ load[t].at = "read"
  /\ cache' = load[t].rows
  /\ load' = [load EXCEPT ![t] = NotLoading]
  /\ UNCHANGED <<settings, row, receiver, subscribed, counters, owed>>

\* Publications, reviews and commands reload before they route.
OtherLoads(t) == t # Incoming /\ LoadRows(t) /\ UNCHANGED <<handler, due>>

OtherApplies(t) ==
  t # Incoming /\ ApplyCache(t) /\ UNCHANGED <<where, stream, handler, due>>

\* handle_incoming takes the head of the stream and reloads when five seconds have passed
\* since it did so before, as they may have at any time.
Take ==
  /\ handler = "idle" /\ stream # <<>>
  /\ handler' \in (IF due THEN {"reload"} ELSE {"reload", "check"})
  /\ UNCHANGED <<settings, row, receiver, subscribed, where, stream, cache, load, due,
                 counters, owed>>

Reload ==
  /\ handler = "reload"
  /\ LoadRows(Incoming)
  /\ handler' = "apply"
  /\ UNCHANGED due

Reloaded ==
  /\ handler = "apply"
  /\ ApplyCache(Incoming)
  /\ handler' = "check"
  /\ due' = FALSE
  /\ UNCHANGED <<where, stream>>

\* Mutant: what is ignored is not acknowledged.
Conclude_Unacknowledged(place) ==
  /\ handler' = "idle"
  /\ IF place = "ignored" THEN UNCHANGED <<where, stream>>
     ELSE Place(Head(stream), place) /\ stream' = Tail(stream)

Conclude(place) ==
  /\ Place(Head(stream), place)
  /\ stream' = Tail(stream)
  /\ handler' = "idle"

Known(s) == cache[s] # "absent"

\* is_enabled, by the copy as it is.
Verdict(copy, s) == IF copy[s] = "on" THEN "accepted" ELSE "ignored"

\* Mutant: the sender registers conversations whatever its settings say.
Registers_Always(s) == s \notin TgSource

Registers(s) == s \notin TgSource /\ settings.register

\* A source that the copy has is judged by it; one that the copy does not have is
\* ignored unless it is to be registered.  Ignored messages are acknowledged.
Accept ==
  LET s == SourceOf[Head(stream)] IN
  /\ handler = "check"
  /\ Known(s) \/ ~Registers(s)
  /\ Conclude(Verdict(cache, s))
  /\ UNCHANGED <<settings, row, receiver, subscribed, cache, load, due, counters, owed>>

\* sync_from_config_rows: a SafeW conversation the copy does not have is enabled, and
\* the copy reloaded.
Register ==
  LET s == SourceOf[Head(stream)] IN
  /\ handler = "check"
  /\ ~Known(s) /\ Registers(s)
  /\ row' = [row EXCEPT ![s] = "on"]
  /\ handler' = "registered"
  /\ UNCHANGED <<settings, receiver, subscribed, where, stream, cache, load, due, counters,
                 owed>>

LoadRegistered ==
  /\ handler = "registered"
  /\ LoadRows(Incoming)
  /\ handler' = "loaded"
  /\ UNCHANGED due

\* Nothing is awaited between the assignment and is_enabled.
Registered ==
  /\ handler = "loaded"
  /\ ApplyCache(Incoming)
  /\ Conclude(Verdict(cache', SourceOf[Head(stream)]))
  /\ UNCHANGED due

\* The sender dies; the event is delivered again, and the copy read at the start.
SenderFails ==
  /\ Fault
  /\ handler' = "idle"
  /\ cache' = row
  /\ load' = [t \in Task |-> NotLoading]
  /\ due' = TRUE
  /\ UNCHANGED <<settings, row, receiver, subscribed, where, stream, owed>>
-----------------------------------------------------------------------------
Init ==
  /\ settings \in Settings
  /\ row \in Rows
  /\ receiver = "starting" /\ subscribed = {}
  /\ where = [m \in Message |-> "unposted"]
  /\ stream = <<>> /\ handler = "idle"
  /\ cache = row /\ due = TRUE
  /\ load = [t \in Task |-> NotLoading]
  /\ edits = 0 /\ faults = 0
  /\ owed = [m \in Message |-> "none"]

Handle ==
  Take \/ Reload \/ Reloaded \/ Accept \/ Register \/ LoadRegistered \/ Registered

Next ==
  \/ \E s \in Source : Edit(s)
  \/ InitialSnapshot \/ Subscribe \/ Monitor \/ ReceiverFails \/ SafeWFails
  \/ \E m \in Message : PostInChannel(m) \/ Drop(m) \/ Notify(m) \/ Publish(m)
  \/ \E t \in Task : OtherLoads(t) \/ OtherApplies(t)
  \/ Handle \/ SenderFails

Spec == Init /\ [][Next]_vars

\* The processes go on by themselves: compose restarts the receiver, the monitor polls,
\* a retried XADD succeeds, a statement returns and a handler goes on.
Fairness ==
  /\ WF_vars(InitialSnapshot) /\ WF_vars(Subscribe) /\ WF_vars(Monitor)
  /\ \A m \in Message : WF_vars(Publish(m))
  /\ \A t \in Task \ {Incoming} : WF_vars(OtherApplies(t))
  /\ WF_vars(Handle)

FairSpec == Spec /\ Fairness
-----------------------------------------------------------------------------
Places == {"unposted", "held", "stream", "missed", "filtered", "lost", "accepted", "ignored"}

\* Types: each message is in one place, the stream holds those that are in it.
TypeOK ==
  /\ settings \in Settings
  /\ row \in Rows /\ cache \in Rows
  /\ receiver \in {"starting", "connecting", "up"}
  /\ subscribed \subseteq TgSource
  /\ where \in [Message -> Places]
  /\ stream \in Seq(Message)
  /\ handler \in {"idle", "reload", "apply", "check", "registered", "loaded"}
  /\ load \in [Task -> {NotLoading} \cup {Read(r) : r \in Rows}]
  /\ due \in BOOLEAN /\ edits \in 0..MaxEdits /\ faults \in 0..MaxFaults
  /\ owed \in [Message -> {"none", "accepted", "ignored", "missed", "filtered"}]

\* A message whose source nobody edits is judged as the registry says: it is accepted when
\* its source is on, or is a conversation the sender may register, and not otherwise,
\* whatever happens to other sources, to the sender or to the reloads of its copy.  A
\* loss takes an edit of the source, a copy or subscription that was behind when the message
\* was posted, a receiver that stops with it in hand for a reason, or an error
\* that the listener swallows.
QuietIntakeIsExact ==
  \A m \in Message : owed[m] # "none" =>
    \/ where[m] = owed[m]
    \/ where[m] \in {"held", "stream"} /\ owed[m] \in {"accepted", "ignored"}

\* The receiver subscribes to the enabled Telegram sources in the end: a change that
\* comes while it reads its snapshot, connects or restarts is not overlooked.
SubscriptionFollows == <>[](receiver = "up" /\ subscribed = Enabled)

\* What a receiver has taken reaches the pipeline or is given up in the end.
TakenIsConcluded ==
  \A m \in Message : where[m] = "held" ~> where[m] \in {"accepted", "ignored", "lost"}
=============================================================================
