------------------------ MODULE MessagePipelineProofs ------------------------
(***************************************************************************)
(* Proofs about MessagePipeline, for any messages, targets and bounds, with *)
(* commands alongside, crashes and exceptions.                             *)
(***************************************************************************)
EXTENDS MessagePipeline, SequenceTheorems, TLAPS

\* What TypeOK leaves open: admin is a record, a job that runs has a message
\* and, when it sends, a target; one that came from the stream is at its head.
CommandIsRecord ==
  admin = [kind |-> admin.kind, todo |-> admin.todo, held |-> admin.held]

JobIsSet ==
  /\ job.at # "idle" => job.msg \in Messages
  /\ job.at = "send" => job.target \in Targets
  /\ job.at = "idle" => job.via = "queue"
  /\ job.via = "stream" => stream # <<>> /\ Head(stream) = job.msg

TypeInv == TypeOK /\ CommandIsRecord /\ JobIsSet

\* The parts of TypeOK about the routing and its copies, and about the ghosts.
RoutingType ==
  /\ bound \subseteq Targets /\ enabled \in BOOLEAN /\ mode \in Modes
  /\ endpoint \in {"active", "off", "deleted"}
  /\ cache \in [enabled : BOOLEAN, mode : Modes, bound : SUBSET Targets]
  /\ load \in [Others -> Reloads]

GhostsType ==
  /\ sent \in [Messages -> [Targets -> Nat]]
  /\ apiRows \subseteq Messages /\ vanished \subseteq Messages /\ done \subseteq Messages
  /\ stale \subseteq Targets /\ off \in BOOLEAN
  /\ raced \subseteq Messages /\ orphaned \subseteq Messages

LEMMA RoutingTypes ==
  ASSUME TypeInv
  PROVE  RoutingType /\ (UNCHANGED <<routing, cache, load>> => RoutingType')
  BY DEF TypeInv, TypeOK, RoutingType, routing

LEMMA GhostTypes ==
  ASSUME TypeInv
  PROVE  GhostsType /\ (UNCHANGED ghosts => GhostsType')
  BY DEF TypeInv, TypeOK, GhostsType, ghosts, delivered, lapsed

-----------------------------------------------------------------------------
(* Rows, jobs and sequences. *)

LEMMA NoJobType == NoJob \in Jobs /\ NoJob.at = "idle" /\ NoJob.via = "queue"
  BY DEF NoJob, Jobs, Modes, NotLoading, Reloads

\* What a reload has read.
LEMMA ReloadTypes ==
  ASSUME RoutingType
  PROVE  /\ NotLoading \in Reloads /\ SourceRead \in Reloads
         /\ \A r \in Reloads : LinksRead(r) \in Reloads
         /\ \A r \in Reloads : Apply(r) =>
               cache' \in [enabled : BOOLEAN, mode : Modes, bound : SUBSET Targets]
         /\ Routing \in [enabled : BOOLEAN, mode : Modes, bound : SUBSET Targets]
<1>1. NotLoading \in Reloads /\ SourceRead \in Reloads
  BY DEF NotLoading, SourceRead, Reloads, Modes, RoutingType
<1>2. ASSUME NEW r \in Reloads
      PROVE  LinksRead(r) \in Reloads
  BY DEF LinksRead, Reloads, RoutingType
<1>3. ASSUME NEW r \in Reloads, Apply(r)
      PROVE  cache' \in [enabled : BOOLEAN, mode : Modes, bound : SUBSET Targets]
  BY <1>3 DEF Apply, Reloads
<1>4. Routing \in [enabled : BOOLEAN, mode : Modes, bound : SUBSET Targets]
  BY DEF Routing, RoutingType
<1> QED BY <1>1, <1>2, <1>3, <1>4

LEMMA NoRecordType == NoRecord \in Record
  BY DEF NoRecord, Record, Statuses

\* The ways in which the code changes a row.
LEMMA RowTypes ==
  ASSUME rec \in [Messages -> Record], NEW m \in Messages,
         NEW status \in Statuses, NEW n \in Nat, NEW b \in BOOLEAN, NEW r \in Nat
  PROVE  /\ [rec EXCEPT ![m].status = status] \in [Messages -> Record]
         /\ [rec EXCEPT ![m].status = status, ![m].footers = n]
               \in [Messages -> Record]
         /\ [rec EXCEPT ![m].status = status, ![m].ids = b] \in [Messages -> Record]
         /\ [rec EXCEPT ![m].retries = r, ![m].footers = n, ![m].status = status]
               \in [Messages -> Record]
  BY DEF Record

LEMMA ReturnType ==
  ASSUME TypeInv, Return
  PROVE  job' \in Jobs /\ stream' \in Seq(Messages) /\ JobIsSet'
<1>1. job' = NoJob
  BY DEF Return
<1>2. stream' \in Seq(Messages)
  <2>1. CASE job.via = "stream"
    BY <2>1, HeadTailProperties DEF Return, TypeInv, TypeOK, JobIsSet
  <2>2. CASE job.via # "stream"
    BY <2>2 DEF Return, TypeInv, TypeOK
  <2> QED BY <2>1, <2>2
<1> QED BY <1>1, <1>2, NoJobType DEF JobIsSet

LEMMA GotoType ==
  ASSUME TypeInv, job.at # "idle", UNCHANGED stream,
         NEW at \in {"materialize", "pipeline", "review", "resolve", "mark", "api",
                     "insert", "routes"},
         Goto(at)
  PROVE  job' \in Jobs /\ stream' \in Seq(Messages) /\ JobIsSet'
  BY DEF Goto, TypeInv, TypeOK, Jobs, JobIsSet

LEMMA TypeInit == Init => TypeInv
<1> SUFFICES ASSUME Init  PROVE TypeInv
  OBVIOUS
<1>1. /\ rec \in [Messages -> Record]
      /\ DOMAIN admin.todo \subseteq Messages /\ DOMAIN admin.held \subseteq Messages
      /\ \A m \in DOMAIN admin.todo : admin.todo[m] \in Record
      /\ \A m \in DOMAIN admin.held : admin.held[m] \in Statuses
      /\ admin.kind = "none" /\ CommandIsRecord
  BY NoRecordType DEF Init, NoCommand, NoRows, CommandIsRecord
<1>2. /\ stream \in Seq(Messages) /\ queue \in Seq(Items)
      /\ Len(queue) <= QueueSize
  BY PipelineAssumption DEF Init
<1>3. job \in Jobs /\ JobIsSet
  BY NoJobType DEF Init, JobIsSet
<1>4. RoutingType
  BY NoJobType DEF Init, RoutingType, Routing, NotLoading, Reloads, Modes
<1>5. GhostsType
  BY DEF Init, GhostsType
<1> QED BY <1>1, <1>2, <1>3, <1>4, <1>5
        DEF Init, TypeInv, TypeOK, RoutingType, GhostsType

-----------------------------------------------------------------------------
(* Type correctness: arrivals. *)

\* The parts of TypeOK and JobIsSet that name no field of admin.
LEMMA SurroundingsType ==
  ASSUME TypeInv, UNCHANGED <<rec, tasks, stream, queue, job, admin>>,
         up' \in {"down", "booting", "up"}, RoutingType', GhostsType',
         pause' \in BOOLEAN, paused' \in BOOLEAN, ignored' \subseteq Messages
  PROVE  TypeInv'
  BY DEF TypeInv, TypeOK, CommandIsRecord, JobIsSet, RoutingType, GhostsType

LEMMA AppendItem ==
  ASSUME TypeInv, Room, NEW m \in Messages, NEW n \in Nat,
         queue' = Append(queue, Item(m, n))
  PROVE  queue' \in Seq(Items) /\ Len(queue') <= QueueSize
<1>1. Item(m, n) \in Items
  BY DEF Item, Items
<1>2. Len(queue) \in Nat /\ queue \in Seq(Items)
  BY LenProperties DEF TypeInv, TypeOK
<1>3. queue' \in Seq(Items) /\ Len(queue') = Len(queue) + 1
  BY <1>1, <1>2, AppendProperties
<1> QED BY <1>2, <1>3, PipelineAssumption DEF Room

\* What an arrival and its taking have to keep.
LEMMA ArrivalType ==
  ASSUME TypeInv, UNCHANGED <<tasks, admin, up, pause>>, RoutingType', GhostsType',
         rec' \in [Messages -> Record], stream' \in Seq(Messages),
         queue' \in Seq(Items), Len(queue') <= QueueSize,
         job' \in Jobs, JobIsSet', paused' \in BOOLEAN, ignored' \subseteq Messages
  PROVE  TypeInv'
  BY DEF TypeInv, TypeOK, CommandIsRecord, RoutingType, GhostsType

LEMMA ArriveType ==
  ASSUME TypeInv, NEW m \in Messages, Arrive(m)
  PROVE  TypeInv'
<1>1. RoutingType' /\ GhostsType'
  BY RoutingTypes, GhostTypes DEF Arrive, gate
<1>2. UNCHANGED <<tasks, job, admin, up, pause, paused, ignored>>
  BY DEF Arrive, gate
<1>3. CASE Durable
  <2>1. stream' = Append(stream, m) /\ UNCHANGED <<rec, queue>>
    BY <1>3 DEF Arrive
  <2>2. stream' \in Seq(Messages)
        /\ (stream # <<>> => stream' # <<>> /\ Head(stream') = Head(stream))
    <3>1. stream \in Seq(Messages)
      BY DEF TypeInv, TypeOK
    <3> QED BY <2>1, <3>1, AppendProperties, HeadTailProperties
  <2>3. JobIsSet'
    BY <1>2, <2>2 DEF TypeInv, JobIsSet
  <2> QED BY <1>1, <1>2, <2>1, <2>2, <2>3, ArrivalType DEF TypeInv, TypeOK
<1>4. CASE ~Durable
  <2>1. Enqueue(m) /\ UNCHANGED stream
    BY <1>4 DEF Arrive
  <2>2. JobIsSet'
    BY <1>2, <2>1 DEF TypeInv, JobIsSet
  <2>3. CASE UNCHANGED <<rec, queue>>
    BY <1>1, <1>2, <2>1, <2>2, <2>3, ArrivalType DEF TypeInv, TypeOK
  <2>4. CASE ~(UNCHANGED <<rec, queue>>)
    <3>1. rec' \in [Messages -> Record]
      <4> DEFINE status == IF rec[m].status = "none" THEN "received"
                           ELSE rec[m].status
      <4>1. status \in Statuses
        BY DEF TypeInv, TypeOK, Record, Statuses
      <4>2. rec' = [rec EXCEPT ![m].footers = 0, ![m].status = status]
        BY <2>1, <2>4 DEF Enqueue
      <4> HIDE DEF status
      <4> QED BY <4>1, <4>2 DEF TypeInv, TypeOK, Record
    <3>2. queue' \in Seq(Items) /\ Len(queue') <= QueueSize
      <4>1. CASE Room
        BY <4>1, <2>1, <2>4, AppendItem DEF Enqueue
      <4>2. CASE ~Room
        BY <4>2, <2>1, <2>4 DEF Enqueue, TypeInv, TypeOK
      <4> QED BY <4>1, <4>2
    <3> QED BY <1>1, <1>2, <2>1, <2>2, <3>1, <3>2, ArrivalType DEF TypeInv, TypeOK
  <2> QED BY <2>3, <2>4
<1> QED BY <1>3, <1>4, PipelineAssumption

LEMMA HandleIncomingType ==
  ASSUME TypeInv, HandleIncoming
  PROVE  TypeInv'
<1>1. Head(stream) \in Messages /\ Tail(stream) \in Seq(Messages)
  BY HeadTailProperties DEF HandleIncoming, TypeInv, TypeOK
<1>2. GhostsType' /\ RoutingType'
  <2>1. UNCHANGED <<routing, load, ghosts>> /\ (cache' = Routing \/ UNCHANGED cache)
    BY DEF HandleIncoming
  <2> QED BY <2>1, GhostTypes, RoutingTypes, ReloadTypes DEF RoutingType, routing
<1>3. UNCHANGED <<rec, tasks, queue, admin, up, pause>> /\ paused' \in BOOLEAN
  BY DEF HandleIncoming, TypeInv, TypeOK
<1>4. CASE Take(Head(stream), 0, "stream") /\ UNCHANGED <<stream, ignored>>
  <2>1. job' \in Jobs /\ JobIsSet'
    BY <1>1, <1>4, NoJobType DEF Take, HandleIncoming, NoJob, Jobs, JobIsSet
  <2> QED BY <1>2, <1>3, <1>4, <2>1, ArrivalType DEF TypeInv, TypeOK
<1>5. CASE ignored' = ignored \cup {Head(stream)} /\ stream' = Tail(stream)
           /\ UNCHANGED job
  <2>1. JobIsSet'
    <3>1. job.at = "idle"
      BY DEF HandleIncoming, MayStart
    <3>2. job.via = "queue"
      BY <3>1 DEF TypeInv, JobIsSet
    <3> QED BY <3>1, <3>2, <1>5 DEF JobIsSet
  <2> QED BY <1>1, <1>2, <1>3, <1>5, <2>1, ArrivalType DEF TypeInv, TypeOK
<1> QED BY <1>4, <1>5 DEF HandleIncoming

LEMMA WorkerTakesType ==
  ASSUME TypeInv, WorkerTakes
  PROVE  TypeInv'
<1>1. Head(queue) \in Items /\ Tail(queue) \in Seq(Items)
      /\ Len(Tail(queue)) <= QueueSize
  BY HeadTailProperties, PipelineAssumption, LenProperties
  DEF WorkerTakes, TypeInv, TypeOK
<1>2. job' \in Jobs /\ JobIsSet'
  BY <1>1, NoJobType DEF WorkerTakes, Take, NoJob, Jobs, Items, JobIsSet
<1>3. RoutingType' /\ GhostsType'
  BY RoutingTypes, GhostTypes DEF WorkerTakes, gate
<1> QED BY <1>1, <1>2, <1>3, ArrivalType DEF WorkerTakes, gate, TypeInv, TypeOK

-----------------------------------------------------------------------------
(* Type correctness: the routing. *)

LEMMA OthersType ==
  ASSUME TypeInv, NEW t \in Others, OtherReads(t) \/ OtherApplies(t)
  PROVE  TypeInv'
<1>1. RoutingType
  BY RoutingTypes
<1>2. load[t] \in Reloads
  BY <1>1 DEF RoutingType
<1>3. UNCHANGED routing /\ load' \in [Others -> Reloads]
  <2>1. \E r \in Reloads : load' = [load EXCEPT ![t] = r]
    BY <1>1, <1>2, ReloadTypes DEF OtherReads, OtherApplies
  <2> QED BY <1>1, <2>1 DEF RoutingType, OtherReads, OtherApplies
<1>4. cache' \in [enabled : BOOLEAN, mode : Modes, bound : SUBSET Targets]
  <2>1. CASE UNCHANGED cache
    BY <1>1, <2>1 DEF RoutingType
  <2>2. CASE Apply(load[t])
    BY <1>1, <1>2, <2>2, ReloadTypes
  <2> QED BY <2>1, <2>2 DEF OtherReads, OtherApplies
<1>5. RoutingType'
  BY <1>1, <1>3, <1>4 DEF RoutingType, routing
<1> QED BY <1>5, GhostTypes, SurroundingsType
        DEF OtherReads, OtherApplies, TypeInv, TypeOK

-----------------------------------------------------------------------------
(* Type correctness: process_one. *)

\* What a step of process_one has to keep.
LEMMA ProcessType ==
  ASSUME TypeInv, UNCHANGED <<queue, admin, up, pause, paused, ignored>>,
         RoutingType', GhostsType',
         rec' \in [Messages -> Record], tasks' \subseteq Messages,
         stream' \in Seq(Messages), job' \in Jobs, JobIsSet'
  PROVE  TypeInv'
  BY DEF TypeInv, TypeOK, CommandIsRecord, RoutingType, GhostsType

\* What holds of the job and its message in every step of process_one.
LEMMA JobFacts ==
  ASSUME TypeInv, job.at # "idle"
  PROVE  /\ job.msg \in Messages /\ job.footers \in Nat /\ job.load \in Reloads
         /\ rec \in [Messages -> Record] /\ tasks \subseteq Messages
         /\ stream \in Seq(Messages)
         /\ sent \in [Messages -> [Targets -> Nat]]
         /\ job \in Jobs /\ JobIsSet
  BY DEF TypeInv, TypeOK, Jobs, JobIsSet

LEMMA ReadsType ==
  ASSUME TypeInv, ReadSource \/ ReadLinks
  PROVE  TypeInv'
<1>1. RoutingType /\ GhostsType'
  BY RoutingTypes, GhostTypes DEF ReadSource, ReadLinks
<1>2. CASE ReadSource
  <2>1. job.at # "idle" /\ job' = [job EXCEPT !.load = SourceRead] /\ UNCHANGED stream
    BY <1>2 DEF ReadSource, Refreshes
  <2>2. job' \in Jobs /\ JobIsSet'
    BY <1>1, <2>1, JobFacts, ReloadTypes DEF Jobs, JobIsSet
  <2>3. RoutingType'
    BY <1>2, RoutingTypes DEF ReadSource, gate
  <2> QED BY <1>1, <1>2, <2>1, <2>2, <2>3, JobFacts, ProcessType DEF ReadSource, gate
<1>3. CASE ReadLinks
  <2>1. job.load \in Reloads /\ job \in Jobs /\ JobIsSet
    BY DEF TypeInv, TypeOK, Jobs
  <2>2. /\ job' = [job EXCEPT !.load = LinksRead(job.load)] /\ UNCHANGED stream
        /\ Apply(LinksRead(job.load)) /\ UNCHANGED <<routing, load>>
    BY <1>3 DEF ReadLinks
  <2>3. LinksRead(job.load) \in Reloads
    BY <1>1, <2>1, ReloadTypes
  <2>4. job' \in Jobs /\ JobIsSet'
    BY <2>1, <2>2, <2>3 DEF Jobs, JobIsSet
  <2>5. RoutingType'
    BY <1>1, <2>2, <2>3, ReloadTypes DEF RoutingType, routing
  <2> QED BY <1>1, <1>3, <2>4, <2>5, ProcessType DEF ReadLinks, TypeInv, TypeOK
<1> QED BY <1>2, <1>3

LEMMA SetStatusType ==
  ASSUME rec \in [Messages -> Record], NEW m \in Messages, NEW status \in Statuses,
         SetStatus(m, status)
  PROVE  rec' \in [Messages -> Record]
  BY DEF SetStatus, Record

LEMMA StoreType ==
  ASSUME rec \in [Messages -> Record], NEW m \in Messages, NEW status \in Statuses,
         NEW n \in Nat, Store(m, status, n)
  PROVE  rec' \in [Messages -> Record]
  BY DEF Store, Record

LEMMA StartType ==
  ASSUME TypeInv, Start
  PROVE  TypeInv'
<1>1. job.at = "start"
  BY DEF Start
<1>2. rec' \in [Messages -> Record]
  <2>1. {"failed", "processing"} \subseteq Statuses
    BY DEF Statuses
  <2> QED BY <1>1, <2>1, JobFacts, StoreType DEF Start
<1>3. stream' \in Seq(Messages) /\ job' \in Jobs /\ JobIsSet'
  <2>1. CASE Return
    BY <2>1, ReturnType
  <2>2. CASE job' = [job EXCEPT !.at = "materialize", !.load = NotLoading]
             /\ UNCHANGED stream
    BY <1>1, <2>2, JobFacts, NoJobType, RoutingTypes, ReloadTypes DEF Jobs, JobIsSet
  <2> QED BY <2>1, <2>2 DEF Start
<1>4. RoutingType' /\ GhostsType'
  BY RoutingTypes, GhostTypes DEF Start, gate
<1> QED BY <1>1, <1>2, <1>3, <1>4, JobFacts, ProcessType DEF Start, gate

LEMMA MaterializeType ==
  ASSUME TypeInv, Materialize
  PROVE  TypeInv'
<1>1. job.at = "materialize"
  BY DEF Materialize
<1>2. rec' \in [Messages -> Record]
  <2>1. "failed" \in Statuses
    BY DEF Statuses
  <2> QED BY <1>1, <2>1, JobFacts, SetStatusType DEF Materialize
<1>3. stream' \in Seq(Messages) /\ job' \in Jobs /\ JobIsSet'
  BY <1>1, ReturnType, GotoType DEF Materialize
<1>4. RoutingType' /\ GhostsType'
  BY RoutingTypes, GhostTypes DEF Materialize, gate
<1> QED BY <1>1, <1>2, <1>3, <1>4, JobFacts, ProcessType DEF Materialize, gate

LEMMA DecideType ==
  ASSUME TypeInv, Decide
  PROVE  TypeInv'
<1> DEFINE n == job.footers + 1
<1>1. job.at = "pipeline" /\ n \in Nat
  BY JobFacts DEF Decide
<1>2. {"filtered", "failed", "pending_review", "pending_publish"} \subseteq Statuses
  BY DEF Statuses
<1>3. rec' \in [Messages -> Record] /\ stream' \in Seq(Messages)
      /\ job' \in Jobs /\ JobIsSet'
  <2>1. ASSUME NEW status \in {"filtered", "failed"},
               SetStatus(job.msg, status), Return
        PROVE  <1>3
    BY <1>1, <1>2, <2>1, JobFacts, SetStatusType, ReturnType
  <2>2. ASSUME NEW k \in Nat, Store(job.msg, "pending_review", k),
               Goto("review"), UNCHANGED stream
        PROVE  <1>3
    BY <1>1, <1>2, <2>2, JobFacts, StoreType, GotoType
  <2>3. ASSUME Store(job.msg, "pending_publish", n), Return
        PROVE  <1>3
    BY <1>1, <1>2, <2>3, JobFacts, StoreType, ReturnType
  <2>4. ASSUME Store(job.msg, "pending_publish", n), UNCHANGED stream,
               job' = [job EXCEPT !.at = "resolve", !.footers = n]
        PROVE  <1>3
    <3>1. job' \in Jobs /\ JobIsSet'
      BY <1>1, <2>4, JobFacts DEF Jobs, JobIsSet
    <3> QED BY <1>1, <1>2, <2>4, <3>1, JobFacts, StoreType
  <2> QED BY <1>1, <2>1, <2>2, <2>3, <2>4, JobFacts DEF Decide
<1>4. RoutingType' /\ GhostsType'
  BY <1>1, JobFacts, RoutingTypes, GhostTypes
  DEF Decide, Race, gate, GhostsType, delivered, lapsed
<1> QED BY <1>1, <1>3, <1>4, JobFacts, ProcessType DEF Decide, gate

LEMMA CreateTaskType ==
  ASSUME TypeInv, CreateTask
  PROVE  TypeInv'
<1>1. job.at # "idle"
  BY DEF CreateTask
<1>2. tasks' \subseteq Messages
  BY <1>1, JobFacts DEF CreateTask
<1>3. RoutingType' /\ GhostsType'
  BY RoutingTypes, GhostTypes DEF CreateTask, gate
<1> QED BY <1>1, <1>2, <1>3, JobFacts, ReturnType, ProcessType DEF CreateTask, gate

LEMMA MarkRetryType ==
  ASSUME TypeInv, job.at # "idle", MarkRetry(job.msg)
  PROVE  /\ rec' \in [Messages -> Record] /\ stream' \in Seq(Messages)
         /\ job' \in Jobs /\ JobIsSet'
<1> DEFINE m == job.msg
           status == IF rec[m].retries + 1 >= MaxRetries THEN "failed" ELSE "retrying"
<1>1. status \in Statuses
  BY DEF Statuses
<1>2. rec' = [rec EXCEPT ![m].retries = rec[m].retries + 1,
                         ![m].footers = job.footers, ![m].status = status]
  BY DEF MarkRetry
<1>3. rec[m].retries + 1 \in Nat
  BY JobFacts DEF Record
<1>4. m \in Messages /\ job.footers \in Nat /\ rec \in [Messages -> Record]
  BY JobFacts
<1> HIDE DEF status, m
<1>5. rec' \in [Messages -> Record]
  BY <1>1, <1>2, <1>3, <1>4 DEF Record
<1> QED BY <1>5, ReturnType DEF MarkRetry

LEMMA LapseType ==
  ASSUME Lapse
  PROVE  stale' \subseteq Targets /\ off' \in BOOLEAN
  BY DEF Lapse

LEMMA ResolveType ==
  ASSUME TypeInv, Resolve
  PROVE  TypeInv'
<1>1. job.at = "resolve"
  BY DEF Resolve
<1>2. "failed" \in Statuses
  BY DEF Statuses
<1>3. rec' \in [Messages -> Record] /\ stream' \in Seq(Messages)
      /\ job' \in Jobs /\ JobIsSet'
  <2>1. CASE MarkRetry(job.msg)
    BY <1>1, <2>1, MarkRetryType
  <2>2. CASE Store(job.msg, "failed", job.footers) /\ Return
    BY <1>1, <1>2, <2>2, JobFacts, StoreType, ReturnType
  <2>3. CASE /\ job' = [job EXCEPT !.at = "mark", !.load = NotLoading,
                                   !.routes = cache.bound, !.api = EndpointActive]
             /\ UNCHANGED <<rec, stream>>
    <3>1. EndpointActive \in BOOLEAN /\ cache.bound \subseteq Targets
          /\ NotLoading \in Reloads
      BY RoutingTypes, ReloadTypes DEF EndpointActive, RoutingType
    <3> QED BY <1>1, <2>3, <3>1, JobFacts DEF Jobs, JobIsSet
  <2> QED BY <2>1, <2>2, <2>3 DEF Resolve
<1>4. GhostsType'
  BY GhostTypes, LapseType DEF Resolve, GhostsType, delivered, lapsed
<1>5. RoutingType'
  BY RoutingTypes DEF Resolve, gate
<1> QED BY <1>1, <1>3, <1>4, <1>5, JobFacts, ProcessType DEF Resolve, gate

LEMMA MarkPublishingType ==
  ASSUME TypeInv, MarkPublishing
  PROVE  TypeInv'
<1>1. job.at = "mark"
  BY DEF MarkPublishing
<1>2. "publishing" \in Statuses
  BY DEF Statuses
<1>3. rec' \in [Messages -> Record]
  BY <1>1, <1>2, JobFacts, SetStatusType DEF MarkPublishing
<1>4. stream' \in Seq(Messages) /\ job' \in Jobs /\ JobIsSet'
  BY <1>1, ReturnType, GotoType DEF MarkPublishing
<1>5. RoutingType' /\ GhostsType'
  BY RoutingTypes, GhostTypes DEF MarkPublishing, gate
<1> QED BY <1>1, <1>3, <1>4, <1>5, JobFacts, ProcessType DEF MarkPublishing, gate

LEMMA EndpointType ==
  ASSUME TypeInv, CheckEndpoint \/ DeliverToApi
  PROVE  TypeInv'
<1>1. job.at \in {"api", "insert"} /\ UNCHANGED <<rec, tasks, stream>>
  BY DEF CheckEndpoint, DeliverToApi
<1>2. GhostsType'
  BY <1>1, GhostTypes, JobFacts
  DEF CheckEndpoint, DeliverToApi, GhostsType, delivered, lapsed
<1>3. \/ job' = [job EXCEPT !.at = "insert"] \/ job' = [job EXCEPT !.at = "routes"]
      \/ job' = [job EXCEPT !.at = "routes", !.success = TRUE]
      \/ job' = [job EXCEPT !.at = "routes", !.raised = TRUE]
  BY DEF CheckEndpoint, DeliverToApi
<1>4. job' \in Jobs /\ JobIsSet'
  BY <1>1, <1>3, JobFacts DEF Jobs, JobIsSet
<1>5. RoutingType'
  BY RoutingTypes DEF CheckEndpoint, DeliverToApi, gate
<1> QED BY <1>1, <1>2, <1>4, <1>5, JobFacts, ProcessType DEF CheckEndpoint, DeliverToApi, gate

\* What CheckRoute makes of the job.
LEMMA CheckRouteJob ==
  ASSUME NEW t \in Targets, CheckRoute(t)
  PROVE  \/ job' = [job EXCEPT !.load = NotLoading, !.routes = {}]
         \/ job' = [job EXCEPT !.load = NotLoading, !.routes = @ \ {t}]
         \/ /\ job' = [job EXCEPT !.load = NotLoading, !.at = "send", !.target = t]
            /\ cache.enabled /\ StillRouted(t)
<1>1. CASE ~cache.enabled
  BY <1>1 DEF CheckRoute
<1>2. CASE cache.enabled /\ ~StillRouted(t)
  BY <1>2 DEF CheckRoute
<1>3. CASE cache.enabled /\ StillRouted(t)
  BY <1>3 DEF CheckRoute
<1> QED BY <1>1, <1>2, <1>3

LEMMA CheckRouteType ==
  ASSUME TypeInv, NEW t \in Targets, CheckRoute(t)
  PROVE  TypeInv'
<1>1. job.at = "routes" /\ UNCHANGED <<rec, tasks, stream>>
  BY DEF CheckRoute
<1>2. RoutingType' /\ GhostsType'
  BY RoutingTypes, GhostTypes DEF CheckRoute, gate
<1>3. job' \in Jobs /\ JobIsSet'
  <2>1. NotLoading \in Reloads
    BY RoutingTypes, ReloadTypes
  <2>2. job \in Jobs /\ JobIsSet
    BY <1>1, JobFacts
  <2>3. \/ job' = [job EXCEPT !.load = NotLoading, !.routes = {}]
        \/ job' = [job EXCEPT !.load = NotLoading, !.routes = @ \ {t}]
        \/ job' = [job EXCEPT !.load = NotLoading, !.at = "send", !.target = t]
    BY CheckRouteJob
  <2>4. job' \in Jobs
    BY <2>1, <2>2, <2>3 DEF Jobs
  <2>5. job'.msg = job.msg /\ job'.via = job.via
        /\ (job'.at = "routes" \/ (job'.at = "send" /\ job'.target = t))
    BY <1>1, <2>2, <2>3 DEF Jobs
  <2> QED BY <1>1, <2>2, <2>4, <2>5 DEF JobIsSet
<1> QED BY <1>1, <1>2, <1>3, JobFacts, ProcessType DEF CheckRoute, gate

LEMMA SendType ==
  ASSUME TypeInv, Send
  PROVE  TypeInv'
<1>1. job.at = "send" /\ job.target \in Targets /\ UNCHANGED stream
  BY JobFacts DEF Send, JobIsSet
<1>2. sent' \in [Messages -> [Targets -> Nat]]
  <2> DEFINE row == [sent[job.msg] EXCEPT ![job.target] = @ + 1]
  <2>1. UNCHANGED sent \/ sent' = [sent EXCEPT ![job.msg] = row]
    BY DEF Send
  <2>2. sent[job.msg] \in [Targets -> Nat]
    BY <1>1, JobFacts
  <2>3. row \in [Targets -> Nat]
    BY <1>1, <2>2
  <2> HIDE DEF row
  <2> QED BY <1>1, <2>1, <2>3, JobFacts
<1>3. RoutingType' /\ GhostsType'
  BY <1>2, RoutingTypes, GhostTypes, LapseType
  DEF Send, gate, GhostsType, delivered
<1>4. job' \in Jobs /\ JobIsSet'
  <2> DEFINE next == [job EXCEPT !.at = "routes", !.routes = @ \ {job.target},
                                 !.target = NoTarget]
  <2>1. next \in Jobs /\ next.at = "routes" /\ next.msg = job.msg
        /\ next.via = job.via
    BY <1>1, JobFacts DEF Jobs
  <2>2. \/ job' = [next EXCEPT !.success = TRUE, !.ids = TRUE]
        \/ job' = [next EXCEPT !.raised = TRUE]
    BY DEF Send
  <2> HIDE DEF next
  <2> QED BY <1>1, <2>1, <2>2, JobFacts DEF Jobs, JobIsSet
<1> QED BY <1>1, <1>2, <1>3, <1>4, JobFacts, ProcessType DEF Send, gate

LEMMA ConcludeType ==
  ASSUME TypeInv, Conclude
  PROVE  TypeInv'
<1>1. job.at = "routes" /\ done \subseteq Messages
  BY DEF Conclude, TypeInv, TypeOK
<1>2. {"published", "failed"} \subseteq Statuses /\ job.ids \in BOOLEAN
  BY JobFacts, <1>1 DEF Statuses, Jobs
<1>3. rec' \in [Messages -> Record] /\ stream' \in Seq(Messages)
      /\ job' \in Jobs /\ JobIsSet' /\ done' \subseteq Messages
  <2>1. CASE /\ rec' = [rec EXCEPT ![job.msg].status = "published",
                                   ![job.msg].ids = job.ids]
             /\ done' = done \cup {job.msg} /\ Return
    <3>1. rec' \in [Messages -> Record]
      BY <1>1, <1>2, <2>1, JobFacts DEF Record
    <3> QED BY <1>1, <2>1, <3>1, JobFacts, ReturnType
  <2>2. CASE Store(job.msg, "failed", job.footers) /\ Return /\ UNCHANGED done
    BY <1>1, <1>2, <2>2, JobFacts, StoreType, ReturnType
  <2>3. CASE MarkRetry(job.msg) /\ UNCHANGED done
    BY <1>1, <2>3, JobFacts, MarkRetryType
  <2> QED BY <2>1, <2>2, <2>3 DEF Conclude
<1>4. RoutingType' /\ GhostsType'
  BY <1>1, <1>3, JobFacts, RoutingTypes, GhostTypes
  DEF Conclude, Race, gate, GhostsType, delivered, lapsed
<1> QED BY <1>1, <1>3, <1>4, JobFacts, ProcessType DEF Conclude, gate

-----------------------------------------------------------------------------
(* Type correctness: commands and surroundings. *)

\* What a step of a command has to keep.
LEMMA CommandType ==
  ASSUME TypeInv, UNCHANGED <<tasks, stream, job, pause, ignored>>,
         RoutingType', GhostsType', rec' \in [Messages -> Record],
         queue' \in Seq(Items), Len(queue') <= QueueSize,
         paused' \in BOOLEAN, up' \in {"down", "booting", "up"},
         admin'.kind \in {"none", "recover", "retry"}, CommandIsRecord',
         DOMAIN admin'.todo \subseteq Messages, DOMAIN admin'.held \subseteq Messages,
         \A m \in DOMAIN admin'.todo : admin'.todo[m] \in Record,
         \A m \in DOMAIN admin'.held : admin'.held[m] \in Statuses
  PROVE  TypeInv'
  BY DEF TypeInv, TypeOK, JobIsSet, RoutingType, GhostsType

LEMMA NoCommandType ==
  /\ NoCommand.kind = "none"
  /\ NoCommand.todo = NoRows /\ NoCommand.held = NoRows
  /\ NoCommand = [kind |-> NoCommand.kind, todo |-> NoCommand.todo,
                  held |-> NoCommand.held]
  /\ DOMAIN NoRows = {}
  BY DEF NoCommand, NoRows

LEMMA SelectType ==
  ASSUME TypeInv, NEW kind \in {"recover", "retry"}, NEW statuses,
         Select(kind, statuses)
  PROVE  /\ admin'.kind = kind /\ CommandIsRecord'
         /\ DOMAIN admin'.todo \subseteq Messages
         /\ \A m \in DOMAIN admin'.todo : admin'.todo[m] = rec[m]
         /\ DOMAIN admin'.held = {}
<1>1. admin' = [kind |-> kind, todo |-> Snapshot(statuses), held |-> NoRows]
  BY DEF Select
<1>2. DOMAIN Snapshot(statuses) \subseteq Messages
      /\ \A m \in DOMAIN Snapshot(statuses) : Snapshot(statuses)[m] = rec[m]
  BY DEF Snapshot
<1> QED BY <1>1, <1>2, NoCommandType DEF CommandIsRecord

LEMMA SelectingType ==
  ASSUME TypeInv, NEW kind \in {"recover", "retry"}, NEW statuses,
         Select(kind, statuses),
         UNCHANGED <<rec, tasks, stream, queue, job, pause, ignored>>,
         RoutingType', GhostsType', paused' \in BOOLEAN, up' \in {"down", "booting", "up"}
  PROVE  TypeInv'
  BY SelectType, CommandType DEF TypeInv, TypeOK

\* The rows that are left, and those that are held, after one record.
LEMMA WithoutType ==
  ASSUME TypeInv, NEW m
  PROVE  /\ DOMAIN Without(admin.todo, m) \subseteq Messages
         /\ \A x \in DOMAIN Without(admin.todo, m) :
               Without(admin.todo, m)[x] \in Record
  BY DEF Without, TypeInv, TypeOK

LEMMA HoldType ==
  ASSUME TypeInv, NEW m \in Messages, NEW status \in Statuses
  PROVE  /\ DOMAIN Hold(m, status) \subseteq Messages
         /\ \A x \in DOMAIN Hold(m, status) : Hold(m, status)[x] \in Statuses
<1>1. DOMAIN Hold(m, status) = DOMAIN admin.held \cup {m}
  BY DEF Hold
<1>2. \A x \in DOMAIN Hold(m, status) :
        Hold(m, status)[x] = IF x = m THEN status ELSE admin.held[x]
  BY DEF Hold
<1> QED BY <1>1, <1>2 DEF TypeInv, TypeOK

LEMMA RecoverOneType ==
  ASSUME TypeInv, NEW m \in Messages, RecoverOne(m)
  PROVE  TypeInv'
<1> DEFINE row == admin.todo[m]
<1>1. m \in DOMAIN admin.todo /\ row.footers \in Nat
  BY DEF RecoverOne, AtRecord, TypeInv, TypeOK, Record
<1>2. {"published", "retrying"} \subseteq Statuses
  BY DEF Statuses
<1>3. queue' \in Seq(Items) /\ Len(queue') <= QueueSize
  <2>1. CASE queue' = Append(queue, Item(m, row.footers)) /\ Room
    BY <1>1, <2>1, AppendItem
  <2>2. CASE UNCHANGED queue
    BY <2>2 DEF TypeInv, TypeOK
  <2> QED BY <2>1, <2>2 DEF RecoverOne
<1>4. \E held \in {admin.held, Hold(m, "published"), Hold(m, "retrying")},
         todo \in {Without(admin.todo, m), NoRows} :
        admin' = [kind |-> admin.kind, todo |-> todo, held |-> held]
  BY DEF RecoverOne, TypeInv, CommandIsRecord
<1>5. /\ admin'.kind = admin.kind /\ CommandIsRecord'
      /\ DOMAIN admin'.todo \subseteq Messages /\ DOMAIN admin'.held \subseteq Messages
      /\ \A x \in DOMAIN admin'.todo : admin'.todo[x] \in Record
      /\ \A x \in DOMAIN admin'.held : admin'.held[x] \in Statuses
  <2>1. PICK held \in {admin.held, Hold(m, "published"), Hold(m, "retrying")},
             todo \in {Without(admin.todo, m), NoRows} :
          admin' = [kind |-> admin.kind, todo |-> todo, held |-> held]
    BY <1>4
  <2>2. /\ DOMAIN todo \subseteq Messages
        /\ \A x \in DOMAIN todo : todo[x] \in Record
    <3>1. CASE todo = Without(admin.todo, m)
      BY <3>1, WithoutType
    <3>2. CASE todo = NoRows
      BY <3>2, NoCommandType
    <3> QED BY <3>1, <3>2
  <2>3. /\ DOMAIN held \subseteq Messages
        /\ \A x \in DOMAIN held : held[x] \in Statuses
    <3>1. CASE held = admin.held
      BY <3>1 DEF TypeInv, TypeOK
    <3>2. ASSUME NEW status \in Statuses, held = Hold(m, status)
          PROVE  <2>3
      BY <3>2, HoldType
    <3> QED BY <1>2, <3>1, <3>2
  <2> QED BY <2>1, <2>2, <2>3 DEF CommandIsRecord
<1>6. RoutingType' /\ GhostsType'
  BY RoutingTypes, GhostTypes DEF RecoverOne, gate
<1> QED BY <1>3, <1>5, <1>6, CommandType DEF RecoverOne, TypeInv, TypeOK, gate

LEMMA RetryOneType ==
  ASSUME TypeInv, NEW m \in Messages, RetryOne(m)
  PROVE  TypeInv'
<1> DEFINE row == admin.todo[m]
<1>1. m \in DOMAIN admin.todo /\ row.footers \in Nat
  BY DEF RetryOne, AtRecord, TypeInv, TypeOK, Record
<1>2. "pending_publish" \in Statuses
  BY DEF Statuses
<1>3. queue' \in Seq(Items) /\ Len(queue') <= QueueSize
  <2>1. CASE queue' = Append(queue, Item(m, row.footers)) /\ Room
    BY <1>1, <2>1, AppendItem
  <2>2. CASE UNCHANGED queue
    BY <2>2 DEF TypeInv, TypeOK
  <2> QED BY <2>1, <2>2 DEF RetryOne
<1>4. \E held \in {admin.held, Hold(m, "pending_publish")},
         todo \in {Without(admin.todo, m), admin.todo} :
        admin' = [kind |-> admin.kind, todo |-> todo, held |-> held]
  BY DEF RetryOne, TypeInv, CommandIsRecord
<1>5. /\ admin'.kind = admin.kind /\ CommandIsRecord'
      /\ DOMAIN admin'.todo \subseteq Messages /\ DOMAIN admin'.held \subseteq Messages
      /\ \A x \in DOMAIN admin'.todo : admin'.todo[x] \in Record
      /\ \A x \in DOMAIN admin'.held : admin'.held[x] \in Statuses
  <2>1. PICK held \in {admin.held, Hold(m, "pending_publish")},
             todo \in {Without(admin.todo, m), admin.todo} :
          admin' = [kind |-> admin.kind, todo |-> todo, held |-> held]
    BY <1>4
  <2>2. /\ DOMAIN todo \subseteq Messages
        /\ \A x \in DOMAIN todo : todo[x] \in Record
    <3>1. CASE todo = Without(admin.todo, m)
      BY <3>1, WithoutType
    <3>2. CASE todo = admin.todo
      BY <3>2 DEF TypeInv, TypeOK
    <3> QED BY <3>1, <3>2
  <2>3. /\ DOMAIN held \subseteq Messages
        /\ \A x \in DOMAIN held : held[x] \in Statuses
    <3>1. CASE held = admin.held
      BY <3>1 DEF TypeInv, TypeOK
    <3>2. ASSUME NEW status \in Statuses, held = Hold(m, status)
          PROVE  <2>3
      BY <3>2, HoldType
    <3> QED BY <1>2, <3>1, <3>2
  <2> QED BY <2>1, <2>2, <2>3 DEF CommandIsRecord
<1>6. RoutingType' /\ GhostsType'
  BY RoutingTypes, GhostTypes DEF RetryOne, gate
<1> QED BY <1>3, <1>5, <1>6, CommandType DEF RetryOne, TypeInv, TypeOK, gate

LEMMA CommitCommandType ==
  ASSUME TypeInv, CommitCommand
  PROVE  TypeInv'
<1>1. rec' \in [Messages -> Record]
  BY DEF CommitCommand, TypeInv, TypeOK, Record
<1>2. admin' = NoCommand
  BY DEF CommitCommand
<1>3. RoutingType' /\ GhostsType'
  BY RoutingTypes, GhostTypes DEF CommitCommand, gate
<1> QED BY <1>1, <1>2, <1>3, NoCommandType, CommandType
        DEF CommitCommand, CommandIsRecord, TypeInv, TypeOK, gate

LEMMA OrphanType ==
  ASSUME TypeInv, Orphan
  PROVE  orphaned' \subseteq Messages
<1>1. job.at = "review" => job.msg \in Messages
  BY DEF TypeInv, JobIsSet
<1> QED BY <1>1 DEF Orphan, TypeInv, TypeOK

LEMMA CrashType ==
  ASSUME TypeInv, Crash
  PROVE  TypeInv'
<1>1. job' = NoJob /\ queue' = <<>> /\ admin' = NoCommand
  BY DEF Crash
<1>2. queue' \in Seq(Items) /\ Len(queue') <= QueueSize
  BY <1>1, PipelineAssumption
<1>3. RoutingType'
  BY RoutingTypes, ReloadTypes DEF Crash, RoutingType, routing
<1>4. GhostsType'
  BY GhostTypes, OrphanType DEF Crash, GhostsType, delivered, lapsed
<1>5. CommandIsRecord' /\ JobIsSet' /\ job' \in Jobs
  BY <1>1, NoJobType, NoCommandType DEF CommandIsRecord, JobIsSet
<1> QED BY <1>1, <1>2, <1>3, <1>4, <1>5, NoCommandType
        DEF Crash, TypeInv, TypeOK, RoutingType, GhostsType

\* The steps that change nothing but the job, the routing or the flags.
LEMMA FlagsType ==
  ASSUME TypeInv, Reroute \/ SetPaused \/ RefreshPaused \/ Raise
  PROVE  TypeInv'
<1>1. CASE Reroute
  <2>1. RoutingType'
    BY <1>1, RoutingTypes DEF Reroute, RoutingType, gate
  <2>2. GhostsType'
    BY <1>1, GhostTypes DEF Reroute, GhostsType, delivered
  <2> QED BY <1>1, <2>1, <2>2, SurroundingsType DEF Reroute, TypeInv, TypeOK, gate
<1>2. CASE SetPaused \/ RefreshPaused
  <2>1. RoutingType' /\ GhostsType'
    BY <1>2, RoutingTypes, GhostTypes DEF SetPaused, RefreshPaused, gate
  <2> QED BY <1>2, <2>1, SurroundingsType
          DEF SetPaused, RefreshPaused, TypeInv, TypeOK, gate
<1>3. CASE Raise
  <2>1. RoutingType'
    BY <1>3, RoutingTypes DEF Raise, gate
  <2>2. GhostsType'
    BY <1>3, GhostTypes, OrphanType DEF Raise, GhostsType, delivered, lapsed
  <2>3. job' \in Jobs /\ JobIsSet'
    BY <1>3, NoJobType DEF Raise, JobIsSet
  <2> QED BY <1>3, <2>1, <2>2, <2>3, ProcessType DEF Raise, TypeInv, TypeOK, gate
<1> QED BY <1>1, <1>2, <1>3

LEMMA TypeStep == TypeInv /\ [Next]_vars => TypeInv'
<1> SUFFICES ASSUME TypeInv, [Next]_vars  PROVE TypeInv'
  OBVIOUS
<1>1. ASSUME NEW m \in Messages, Arrive(m)  PROVE TypeInv'
  BY <1>1, ArriveType
<1>2. CASE HandleIncoming \/ WorkerTakes
  BY <1>2, HandleIncomingType, WorkerTakesType
<1>3. CASE ProcessStep
  BY <1>3, StartType, MaterializeType, DecideType, CreateTaskType, ResolveType,
     MarkPublishingType, EndpointType, CheckRouteType, SendType, ConcludeType, ReadsType
  DEF ProcessStep
<1>4. CASE Recover \/ RetryFailed \/ Boot
  <2>1. RoutingType' /\ GhostsType'
    BY <1>4, RoutingTypes, GhostTypes, ReloadTypes
    DEF Recover, RetryFailed, Boot, gate, RoutingType, routing
  <2>2. pause \in BOOLEAN /\ paused \in BOOLEAN
    BY DEF TypeInv, TypeOK
  <2>3. /\ UNCHANGED <<rec, tasks, stream, queue, job, pause, ignored>>
        /\ paused' \in {pause, paused} /\ up' \in {up, "booting"}
        /\ \E kind \in {"recover", "retry"} : \E statuses : Select(kind, statuses)
    BY <1>4 DEF Recover, RetryFailed, Boot, gate
  <2>4. up' \in {"down", "booting", "up"} /\ paused' \in BOOLEAN
    BY <2>2, <2>3 DEF TypeInv, TypeOK
  <2> QED BY <2>1, <2>3, <2>4, SelectingType
<1>5. CASE CommandStep
  BY <1>5, RecoverOneType, RetryOneType, CommitCommandType DEF CommandStep
<1>6. CASE Reroute \/ SetPaused \/ RefreshPaused \/ Raise
  BY <1>6, FlagsType
<1>7. CASE Crash
  BY <1>7, CrashType
<1>8. CASE UNCHANGED vars
  <2>1. RoutingType' /\ GhostsType'
    BY <1>8, RoutingTypes, GhostTypes DEF vars, gate
  <2> QED BY <1>8, <2>1, SurroundingsType DEF vars, gate, TypeInv, TypeOK
<1>9. ASSUME NEW t \in Others, OtherReads(t) \/ OtherApplies(t)  PROVE TypeInv'
  BY <1>9, OthersType
<1> QED BY <1>1, <1>2, <1>3, <1>4, <1>5, <1>6, <1>7, <1>8, <1>9 DEF Next

\* Whatever the messages, targets, queue size, retries and bounds, the variables
\* hold what the code stores in them and the queue never exceeds its size.
THEOREM TypeCorrect == Spec => []TypeOK
<1>1. TypeInv => TypeOK
  BY DEF TypeInv
<1> QED BY <1>1, TypeInit, TypeStep, PTL DEF Spec

-----------------------------------------------------------------------------
(* Routes are validated with each send. *)

\* Nobody sees a stale target bound any more: neither the registry, nor a reload under
\* way, nor, once process_one has refreshed it, the cache it decides from; and what is
\* about to be sent goes to a target the cache had then.
NobodySees ==
  /\ stale \cap bound = {} /\ (off => ~enabled)
  /\ \A t \in Others : stale \cap load[t].bound = {} /\ (off => ~load[t].enabled)

ReloadSees ==
  /\ job.at \in {"mark", "api", "insert", "send"} => job.load = NotLoading
  /\ job.at = "routes" => stale \cap job.load.bound = {} /\ (off => ~job.load.enabled)

CacheSees ==
  job.at = "routes" /\ Refreshed => stale \cap cache.bound = {} /\ (off => ~cache.enabled)

RouteInv ==
  /\ NobodySees /\ ReloadSees /\ CacheSees
  /\ job.at = "send" => job.target \notin stale /\ ~off

LEMMA NotLoadingSees ==
  NotLoading.at = "idle" /\ NotLoading.bound = {} /\ NotLoading.enabled = FALSE
  BY DEF NotLoading

LEMMA RouteInit == Init => RouteInv
  BY NoJobType DEF Init, RouteInv, NobodySees, ReloadSees, CacheSees

\* What another task puts in place, or process_one itself.
LEMMA AppliedSees ==
  ASSUME TypeInv, NEW r \in Reloads, Apply(r)
  PROVE  cache'.bound = r.bound /\ cache'.enabled = r.enabled
  BY DEF Apply

\* A job that is not under way to its targets, or stays as it is.
LEMMA RouteQuiet ==
  ASSUME RouteInv, NobodySees', UNCHANGED lapsed,
         \/ job'.at \notin {"mark", "api", "insert", "routes", "send"}
         \/ UNCHANGED <<job, cache>>
  PROVE  RouteInv'
  BY DEF RouteInv, ReloadSees, CacheSees, Refreshed, lapsed

LEMMA RouteProcess ==
  ASSUME TypeInv, RouteInv, ProcessStep
  PROVE  RouteInv'
<1>2. job \in Jobs
  BY DEF TypeInv, TypeOK
<1>3. UNCHANGED <<bound, enabled, load>>
  BY DEF ProcessStep, ReadSource, ReadLinks, Start, Materialize, Decide, CreateTask,
         Resolve, MarkPublishing, CheckEndpoint, DeliverToApi, CheckRoute, Send, Conclude,
         routing, gate
<1>4. ASSUME UNCHANGED lapsed  PROVE NobodySees'
  BY <1>3, <1>4 DEF RouteInv, NobodySees, lapsed
<1>5. ASSUME Lapse  PROVE NobodySees'
  <2>1. \A t \in Others : load[t].bound \subseteq UNION {load[x].bound : x \in Others}
    OBVIOUS
  <2> QED BY <1>3, <1>5, <2>1 DEF NobodySees, Lapse
<1>6. CASE Start \/ Materialize \/ Decide \/ CreateTask \/ Conclude
  <2>1. UNCHANGED lapsed
    BY <1>6 DEF Start, Materialize, Decide, CreateTask, Conclude, ghosts
  <2>2. job' = NoJob \/ job'.at \in {"materialize", "pipeline", "review", "resolve"}
    BY <1>2, <1>6 DEF Start, Materialize, Decide, CreateTask, Conclude, Return, Goto,
                      MarkRetry, Jobs
  <2> QED BY <1>4, <2>1, <2>2, NoJobType, RouteQuiet
<1>7. CASE Resolve
  <2>1. CASE job' = NoJob /\ UNCHANGED lapsed
    BY <1>4, <2>1, NoJobType, RouteQuiet
  <2>2. CASE /\ job' = [job EXCEPT !.at = "mark", !.load = NotLoading,
                                   !.routes = cache.bound, !.api = EndpointActive]
             /\ Lapse
    <3>1. job'.at = "mark" /\ job'.load = NotLoading
      BY <1>2, <2>2 DEF Jobs
    <3> QED BY <1>5, <2>2, <3>1 DEF RouteInv, ReloadSees, CacheSees
  <2> QED BY <1>7, <2>1, <2>2 DEF Resolve, Return, MarkRetry
<1>8. CASE MarkPublishing \/ CheckEndpoint \/ DeliverToApi
  <2>1. UNCHANGED lapsed /\ job.at \in {"mark", "api", "insert"}
    BY <1>8 DEF MarkPublishing, CheckEndpoint, DeliverToApi, ghosts
  <2>2. job' = NoJob \/ (job'.at \in {"api", "insert", "routes"} /\ job'.load = job.load)
    BY <1>2, <1>8 DEF MarkPublishing, CheckEndpoint, DeliverToApi, Return, Goto, Jobs
  <2>3. CASE job' = NoJob
    BY <1>4, <2>1, <2>3, NoJobType, RouteQuiet
  <2>4. CASE job'.at \in {"api", "insert", "routes"} /\ job'.load = job.load
    BY <1>4, <2>1, <2>4, NotLoadingSees
    DEF RouteInv, ReloadSees, CacheSees, Refreshed
  <2> QED BY <2>2, <2>3, <2>4
<1>9. ASSUME NEW t \in Targets, CheckRoute(t)  PROVE RouteInv'
  <2>1. job.at = "routes" /\ Refreshed /\ UNCHANGED lapsed
    BY <1>9 DEF CheckRoute, ghosts
  <2>2. CASE job'.at = "routes" /\ job'.load = NotLoading
    BY <1>4, <2>1, <2>2, NotLoadingSees DEF RouteInv, ReloadSees, CacheSees, Refreshed
  <2>3. CASE /\ job'.at = "send" /\ job'.load = NotLoading /\ job'.target = t
             /\ cache.enabled /\ t \in cache.bound
    <3>1. t \notin stale /\ ~off
      BY <2>1, <2>3 DEF RouteInv, CacheSees
    <3> QED BY <1>4, <2>1, <2>3, <3>1 DEF RouteInv, ReloadSees, CacheSees, lapsed
  <2>4. \/ job'.at = "routes" /\ job'.load = NotLoading
        \/ /\ job'.at = "send" /\ job'.load = NotLoading /\ job'.target = t
           /\ cache.enabled /\ t \in cache.bound
    BY <1>2, <1>9, <2>1, CheckRouteJob DEF Jobs, StillRouted
  <2> QED BY <2>2, <2>3, <2>4
<1>10. CASE Send
  <2>1. job.at = "send" /\ Lapse
    BY <1>10 DEF Send
  <2>2. job'.at = "routes" /\ job'.load = job.load
    BY <1>2, <1>10 DEF Send, Jobs
  <2> QED BY <1>5, <2>1, <2>2, NotLoadingSees
          DEF RouteInv, ReloadSees, CacheSees, Refreshed
<1>11. CASE ReadSource
  <2>1. /\ UNCHANGED lapsed /\ job'.at = job.at /\ job'.load = SourceRead
        /\ job.at \in {"start", "resolve", "routes"}
    BY <1>2, <1>11 DEF ReadSource, Refreshes, Jobs, ghosts
  <2>2. SourceRead.bound = {} /\ SourceRead.enabled = enabled /\ SourceRead.at = "source"
    BY DEF SourceRead
  <2>3. CASE job.at # "routes"
    BY <1>4, <2>1, <2>3, RouteQuiet
  <2>4. CASE job.at = "routes"
    BY <1>4, <2>1, <2>2, <2>4
    DEF RouteInv, NobodySees, ReloadSees, CacheSees, Refreshed, lapsed
  <2> QED BY <2>3, <2>4
<1>12. CASE ReadLinks
  <2>1. PICK r \in Reloads : r = LinksRead(job.load)
    BY <1>2, RoutingTypes, ReloadTypes DEF Jobs
  <2>2. r.bound = bound /\ r.enabled = job.load.enabled
    BY <1>2, <2>1 DEF LinksRead, Jobs, Reloads
  <2>3. /\ job' = [job EXCEPT !.load = r] /\ UNCHANGED lapsed /\ Apply(r)
        /\ job.load.at = "source"
    BY <1>12, <2>1 DEF ReadLinks, ghosts
  <2>4. /\ job'.at = job.at /\ job'.load = r
        /\ cache'.bound = bound /\ cache'.enabled = job.load.enabled
    BY <1>2, <2>2, <2>3, AppliedSees DEF Jobs
  <2>5. CASE job.at \notin {"mark", "api", "insert", "routes", "send"}
    BY <1>4, <2>3, <2>4, <2>5, RouteQuiet
  <2>6. CASE job.at = "routes"
    BY <1>4, <2>2, <2>3, <2>4, <2>6
    DEF RouteInv, NobodySees, ReloadSees, CacheSees, lapsed
  <2>7. job.at \notin {"mark", "api", "insert", "send"}
    BY <2>3, NotLoadingSees DEF RouteInv, ReloadSees
  <2> QED BY <2>5, <2>6, <2>7
<1> QED BY <1>6, <1>7, <1>8, <1>9, <1>10, <1>11, <1>12 DEF ProcessStep

LEMMA RouteOthers ==
  ASSUME TypeInv, RouteInv, NEW t \in Others, OtherReads(t) \/ OtherApplies(t)
  PROVE  RouteInv'
<1>1. load \in [Others -> Reloads] /\ load[t] \in Reloads
  BY RoutingTypes DEF RoutingType
<1>2. UNCHANGED <<lapsed, job, bound, enabled>>
  BY DEF OtherReads, OtherApplies, ghosts, routing
<1>3. \/ load' = [load EXCEPT ![t] = NotLoading]
      \/ load' = [load EXCEPT ![t] = SourceRead]
      \/ load' = [load EXCEPT ![t] = LinksRead(load[t])]
  BY DEF OtherReads, OtherApplies
<1>4. /\ SourceRead.bound = {} /\ SourceRead.enabled = enabled
      /\ LinksRead(load[t]).bound = bound /\ LinksRead(load[t]).enabled = load[t].enabled
  BY <1>1 DEF SourceRead, LinksRead, Reloads
<1>5. NobodySees'
  BY <1>1, <1>2, <1>3, <1>4, NotLoadingSees DEF RouteInv, NobodySees, lapsed
<1>6. CASE UNCHANGED cache
  BY <1>2, <1>5, <1>6, RouteQuiet
<1>7. CASE OtherApplies(t)
  <2>1. cache'.bound = load[t].bound /\ cache'.enabled = load[t].enabled
    BY <1>1, <1>7, AppliedSees DEF OtherApplies
  <2>2. CacheSees'
    BY <1>2, <2>1 DEF RouteInv, NobodySees, CacheSees, lapsed
  <2> QED BY <1>2, <1>5, <2>2 DEF RouteInv, ReloadSees, lapsed
<1> QED BY <1>6, <1>7 DEF OtherReads

LEMMA RouteStep == TypeInv /\ RouteInv /\ [Next]_vars => RouteInv'
<1> SUFFICES ASSUME TypeInv, RouteInv, [Next]_vars  PROVE RouteInv'
  OBVIOUS
<1>1. ASSUME UNCHANGED <<lapsed, bound, enabled, load>>  PROVE NobodySees'
  BY <1>1 DEF RouteInv, NobodySees, lapsed
<1>2. ASSUME NEW m \in Messages, Arrive(m)  PROVE RouteInv'
  BY <1>1, <1>2, RouteQuiet DEF Arrive, ghosts, routing, gate
<1>3. CASE HandleIncoming \/ WorkerTakes
  <2>1. job'.at \in {"idle", "start"}
    BY <1>3 DEF HandleIncoming, WorkerTakes, MayStart, Take, NoJob
  <2> QED BY <1>1, <1>3, <2>1, RouteQuiet
          DEF HandleIncoming, WorkerTakes, ghosts, routing, gate
<1>4. CASE ProcessStep
  BY <1>4, RouteProcess
<1>5. ASSUME NEW t \in Others, OtherReads(t) \/ OtherApplies(t)  PROVE RouteInv'
  BY <1>5, RouteOthers
<1>6. CASE Recover \/ RetryFailed \/ CommandStep \/ SetPaused \/ RefreshPaused
  BY <1>1, <1>6, RouteQuiet
  DEF Recover, RetryFailed, CommandStep, RecoverOne, RetryOne, CommitCommand, SetPaused,
      RefreshPaused, ghosts, routing, gate
<1>7. CASE Boot
  <2>1. UNCHANGED <<lapsed, bound, enabled, load, job>>
        /\ cache'.bound = bound /\ cache'.enabled = enabled
    BY <1>7 DEF Boot, Routing, ghosts, routing
  <2> QED BY <1>1, <2>1 DEF RouteInv, NobodySees, ReloadSees, CacheSees, Refreshed, lapsed
<1>8. CASE Reroute
  <2>1. /\ UNCHANGED <<job, cache, load>> /\ stale' = stale \ bound'
        /\ off' = (off /\ ~enabled')
    BY <1>8 DEF Reroute, gate
  <2>2. NobodySees'
    BY <2>1 DEF RouteInv, NobodySees
  <2>3. ReloadSees' /\ CacheSees'
    BY <2>1 DEF RouteInv, ReloadSees, CacheSees, Refreshed
  <2> QED BY <2>1, <2>2, <2>3 DEF RouteInv
<1>9. CASE Raise
  BY <1>1, <1>9, NoJobType, RouteQuiet DEF Raise, routing, gate
<1>10. CASE Crash
  <2>1. NobodySees'
    BY <1>10, NotLoadingSees DEF Crash, RouteInv, NobodySees, lapsed, routing
  <2> QED BY <1>10, <2>1, NoJobType, RouteQuiet DEF Crash
<1>11. CASE UNCHANGED vars
  BY <1>1, <1>11, RouteQuiet DEF vars, ghosts, routing, gate
<1> QED BY <1>2, <1>3, <1>4, <1>5, <1>6, <1>7, <1>8, <1>9, <1>10, <1>11 DEF Next

\* Only Send sends, and only to the target of the last check.
LEMMA SendsWhere ==
  ASSUME TypeInv, [Next]_vars, NEW m \in Messages, NEW t \in Targets, Sends(m, t)
  PROVE  Send /\ m = job.msg /\ t = job.target /\ job.at = "send"
<1>1. ~UNCHANGED sent
  BY DEF Sends, TypeInv, TypeOK
<1>2. Send
  <2>1. CASE Next
    BY <1>1, <2>1
    DEF Next, ProcessStep, CommandStep, Arrive, HandleIncoming, WorkerTakes, Start,
        Materialize, Decide, CreateTask, Resolve, MarkPublishing, CheckEndpoint,
        DeliverToApi, CheckRoute, Conclude, ReadSource, ReadLinks, OtherReads,
        OtherApplies, Recover, RetryFailed, RecoverOne, RetryOne, CommitCommand, Reroute,
        SetPaused, RefreshPaused, Raise, Crash, Boot, ghosts
  <2> QED BY <1>1, <2>1 DEF vars, ghosts
<1>3. sent' = [sent EXCEPT ![job.msg][job.target] = @ + 1]
  BY <1>1, <1>2 DEF Send
<1>4. m = job.msg /\ t = job.target
  BY <1>3 DEF Sends, TypeInv, TypeOK
<1> QED BY <1>2, <1>4 DEF Send

\* A target that was unbound, or whose source was disabled, before the previous send of the
\* publication gets nothing, whatever the administrator changes in between, unless a reload
\* of another task that had read the older rows by then is still to be put in place.
THEOREM RoutesAreValidated == Spec => NoSendToUnbound
<1>1. TypeInv /\ RouteInv /\ [Next]_vars
        => [\A m \in Messages, t \in Targets : Sends(m, t) => t \notin stale /\ ~off]_vars
  BY SendsWhere DEF RouteInv
<1> QED BY <1>1, TypeInit, TypeStep, RouteInit, RouteStep, PTL
        DEF Spec, NoSendToUnbound

-----------------------------------------------------------------------------
(* Published means delivered. *)

Delivered(m) == m \in apiRows \cup vanished \/ \E t \in Targets : sent[m][t] > 0

\* Everything a row can become published from: the success of the job, the
\* target_message_ids of a row and of its copy in a command, an update held.
DeliveredInv ==
  /\ \A m \in Messages :
       rec[m].status = "published" \/ rec[m].ids => Delivered(m)
  /\ job.success \/ job.ids => job.at # "idle" /\ Delivered(job.msg)
  /\ \A m \in DOMAIN admin.todo : admin.todo[m].ids => Delivered(m)
  /\ \A m \in DOMAIN admin.held : admin.held[m] = "published" => Delivered(m)

LEMMA DeliveredInit == Init => DeliveredInv
  BY NoCommandType DEF Init, DeliveredInv, NoRecord, NoJob, NoCommand, NoRows

\* Deliveries are never taken back.
LEMMA DeliveredStays ==
  ASSUME TypeInv, [Next]_vars, NEW m \in Messages, Delivered(m)
  PROVE  Delivered(m)'
<1>1. CASE UNCHANGED <<delivered, sent>>
  BY <1>1 DEF Delivered, delivered
<1>2. CASE DeliverToApi
  BY <1>2 DEF DeliverToApi, Delivered, delivered
<1>3. CASE Send
  <2>1. job.at # "idle" /\ job.msg \in Messages /\ job.target \in Targets
    BY <1>3 DEF Send, TypeInv, JobIsSet
  <2>2. \A t \in Targets : sent'[m][t] = sent[m][t] \/ sent'[m][t] = sent[m][t] + 1
    <3>1. sent \in [Messages -> [Targets -> Nat]]
      BY DEF TypeInv, TypeOK
    <3>2. UNCHANGED sent \/ sent' = [sent EXCEPT ![job.msg][job.target] = @ + 1]
      BY <1>3 DEF Send
    <3> QED BY <2>1, <3>1, <3>2
  <2>3. UNCHANGED <<apiRows, vanished>>
    BY <1>3 DEF Send, delivered
  <2>4. CASE m \in apiRows \cup vanished
    BY <2>3, <2>4 DEF Delivered
  <2>5. ASSUME NEW t \in Targets, sent[m][t] > 0  PROVE Delivered(m)'
    <3>1. sent[m][t] \in Nat
      BY DEF TypeInv, TypeOK
    <3>2. sent'[m][t] > 0
      BY <2>2, <2>5, <3>1
    <3> QED BY <3>2 DEF Delivered
  <2> QED BY <2>4, <2>5 DEF Delivered
<1>4. CASE Next /\ ~DeliverToApi /\ ~Send
  <2>1. UNCHANGED <<delivered, sent>>
    BY <1>4
    DEF Next, ProcessStep, CommandStep, Arrive, HandleIncoming, WorkerTakes, Start,
        Materialize, Decide, CreateTask, Resolve, MarkPublishing, CheckEndpoint,
        CheckRoute, Conclude, ReadSource, ReadLinks, OtherReads, OtherApplies, Recover,
        RetryFailed, RecoverOne, RetryOne, CommitCommand, Reroute, SetPaused,
        RefreshPaused, Raise, Crash, Boot, ghosts
  <2> QED BY <2>1, <1>1
<1> QED BY <1>1, <1>2, <1>3, <1>4 DEF vars, ghosts

\* A change of rows that publishes only what is delivered keeps the first part.
LEMMA DeliveredRows ==
  ASSUME TypeInv, DeliveredInv, [Next]_vars,
         \A m \in Messages :
           \/ rec'[m].status \in {rec[m].status} \cup (Statuses \ {"published"})
                /\ rec'[m].ids = rec[m].ids
           \/ Delivered(m)
  PROVE  \A m \in Messages :
           rec'[m].status = "published" \/ rec'[m].ids => Delivered(m)'
  BY DeliveredStays DEF DeliveredInv

\* The same for the job, and for a command that is left alone.
LEMMA DeliveredRest ==
  ASSUME TypeInv, DeliveredInv, [Next]_vars
  PROVE  /\ job' = NoJob \/ UNCHANGED job
            \/ (job'.msg = job.msg /\ job'.at # "idle" /\ job.at # "idle"
                /\ job'.success = job.success /\ job'.ids = job.ids)
            => (job.success \/ job.ids => job.at # "idle" /\ Delivered(job.msg))'
         /\ UNCHANGED admin
            => /\ \A m \in DOMAIN admin'.todo : admin'.todo[m].ids => Delivered(m)'
               /\ \A m \in DOMAIN admin'.held :
                    admin'.held[m] = "published" => Delivered(m)'
<1>1. UNCHANGED admin
        => /\ \A m \in DOMAIN admin'.todo : admin'.todo[m].ids => Delivered(m)'
           /\ \A m \in DOMAIN admin'.held :
                admin'.held[m] = "published" => Delivered(m)'
  BY DeliveredStays DEF DeliveredInv, TypeInv, TypeOK
<1>2. ASSUME job' = NoJob
      PROVE  (job.success \/ job.ids => job.at # "idle" /\ Delivered(job.msg))'
  BY <1>2 DEF NoJob
<1>3. ASSUME job'.msg = job.msg, job'.at # "idle", job.at # "idle",
             job'.success = job.success, job'.ids = job.ids
      PROVE  (job.success \/ job.ids => job.at # "idle" /\ Delivered(job.msg))'
  <2>1. PICK m \in Messages : m = job.msg
    BY <1>3, JobFacts
  <2>2. job.success \/ job.ids => Delivered(m)
    BY <2>1 DEF DeliveredInv
  <2>3. job.success \/ job.ids => Delivered(m)'
    BY <2>1, <2>2, DeliveredStays
  <2> QED BY <1>3, <2>1, <2>3 DEF Delivered
<1>4. ASSUME UNCHANGED job
      PROVE  (job.success \/ job.ids => job.at # "idle" /\ Delivered(job.msg))'
  <2>1. CASE job.at = "idle"
    BY <1>4, <2>1 DEF DeliveredInv
  <2>2. CASE job.at # "idle"
    BY <1>3, <1>4, <2>2
  <2> QED BY <2>1, <2>2
<1> QED BY <1>1, <1>2, <1>3, <1>4

LEMMA DeliveredStep == TypeInv /\ DeliveredInv /\ [Next]_vars => DeliveredInv'
<1> SUFFICES ASSUME TypeInv, DeliveredInv, [Next]_vars  PROVE DeliveredInv'
  OBVIOUS
<1> DEFINE
      RowsKept == \A m \in Messages :
        \/ /\ rec'[m].status \in {rec[m].status} \cup (Statuses \ {"published"})
           /\ rec'[m].ids = rec[m].ids
        \/ Delivered(m)
      JobKept == \/ job' = NoJob \/ UNCHANGED job
                 \/ /\ job'.msg = job.msg /\ job'.at # "idle" /\ job.at # "idle"
                    /\ job'.success = job.success /\ job'.ids = job.ids
      RowsSafe == \A m \in Messages :
                    rec[m].status = "published" \/ rec[m].ids => Delivered(m)
      JobSafe == job.success \/ job.ids => job.at # "idle" /\ Delivered(job.msg)
      CommandSafe ==
        /\ \A m \in DOMAIN admin.todo : admin.todo[m].ids => Delivered(m)
        /\ \A m \in DOMAIN admin.held : admin.held[m] = "published" => Delivered(m)
<1>1. RowsKept => RowsSafe'
  BY DeliveredRows
<1>2. JobKept => JobSafe'
  BY DeliveredRest
<1>3. UNCHANGED admin => CommandSafe'
  BY DeliveredRest
<1>4. RowsSafe' /\ JobSafe' /\ CommandSafe' => DeliveredInv'
  BY DEF DeliveredInv
<1>5. UNCHANGED rec => RowsKept
  OBVIOUS
<1>6. ASSUME NEW m \in Messages, NEW status \in Statuses \ {"published"},
             NEW n, SetStatus(m, status) \/ Store(m, status, n)
      PROVE  RowsKept
  <2>1. rec \in [Messages -> Record]
    BY DEF TypeInv, TypeOK
  <2>2. CASE rec' = [rec EXCEPT ![m].status = status]
    BY <2>1, <2>2 DEF Record
  <2>3. CASE rec' = [rec EXCEPT ![m].status = status, ![m].footers = n]
    BY <2>1, <2>3 DEF Record
  <2> QED BY <1>6, <2>2, <2>3 DEF SetStatus, Store
<1> HIDE DEF RowsKept, JobKept, RowsSafe, JobSafe, CommandSafe
<1>7. ASSUME MarkRetry(job.msg), job.at # "idle"  PROVE RowsKept /\ JobKept
  <2>1. job' = NoJob
    BY <1>7 DEF MarkRetry, Return
  <2>2. {"failed", "retrying"} \subseteq Statuses \ {"published"}
    BY DEF Statuses
  <2> QED BY <1>7, <2>1, <2>2, JobFacts DEF MarkRetry, Record, RowsKept, JobKept
<1>8. Return => JobKept
  BY DEF Return, JobKept
<1>9. job.at # "idle" /\ (Goto("pipeline") \/ Goto("review") \/ Goto("api"))
        => JobKept
  BY JobFacts DEF Goto, JobKept, Jobs
<1>10. {"none", "received", "processing", "filtered", "failed", "pending_review",
        "pending_publish", "publishing", "retrying"} = Statuses \ {"published"}
  BY DEF Statuses
<1>11. ASSUME NEW m \in Messages, Arrive(m)  PROVE DeliveredInv'
  <2>1. RowsKept
    <3>1. CASE UNCHANGED rec
      BY <1>5, <3>1
    <3>2. CASE Enqueue(m) /\ ~UNCHANGED rec
      <4> DEFINE status == IF rec[m].status = "none" THEN "received"
                           ELSE rec[m].status
      <4>1. status \in {rec[m].status} \cup (Statuses \ {"published"})
        BY <1>10
      <4>2. rec' = [rec EXCEPT ![m].footers = 0, ![m].status = status]
        BY <3>2 DEF Enqueue
      <4>3. rec \in [Messages -> Record]
        BY DEF TypeInv, TypeOK
      <4> HIDE DEF status
      <4> QED BY <4>1, <4>2, <4>3 DEF RowsKept, Record
    <3> QED BY <1>11, <3>1, <3>2 DEF Arrive
  <2> QED BY <1>1, <1>2, <1>3, <1>4, <1>11, <2>1 DEF Arrive, JobKept
<1>12. CASE HandleIncoming \/ WorkerTakes
  <2>1. UNCHANGED <<rec, admin>>
    BY <1>12 DEF HandleIncoming, WorkerTakes
  <2>2. JobSafe'
    <3>1. UNCHANGED job \/ (~job'.success /\ ~job'.ids)
      BY <1>12 DEF HandleIncoming, WorkerTakes, Take, NoJob
    <3>2. CASE UNCHANGED job
      BY <1>2, <3>2 DEF JobKept
    <3> QED BY <3>1, <3>2 DEF JobSafe
  <2> QED BY <1>1, <1>3, <1>4, <1>5, <2>1, <2>2
<1>13. CASE Start
  <2>1. job.at = "start" /\ UNCHANGED admin
    BY <1>13 DEF Start
  <2>2. RowsKept
    BY <1>5, <1>6, <1>10, <1>13, <2>1, JobFacts DEF Start
  <2>3. JobKept
    <3>1. Return \/ job' = [job EXCEPT !.at = "materialize", !.load = NotLoading]
      BY <1>13 DEF Start
    <3> QED BY <1>8, <2>1, <3>1, JobFacts DEF JobKept, Jobs
  <2> QED BY <1>1, <1>2, <1>3, <1>4, <2>1, <2>2, <2>3
<1>14. CASE Materialize \/ CreateTask \/ MarkPublishing
  <2>1. job.at # "idle" /\ UNCHANGED admin
    BY <1>14 DEF Materialize, CreateTask, MarkPublishing
  <2>2. RowsKept
    BY <1>5, <1>6, <1>10, <1>14, <2>1, JobFacts
    DEF Materialize, CreateTask, MarkPublishing
  <2>3. JobKept
    BY <1>8, <1>9, <1>14, <2>1 DEF Materialize, CreateTask, MarkPublishing
  <2> QED BY <1>1, <1>2, <1>3, <1>4, <2>1, <2>2, <2>3
<1>15. CASE Decide
  <2>1. job.at = "pipeline" /\ UNCHANGED admin
    BY <1>15 DEF Decide
  <2>2. RowsKept
    BY <1>6, <1>10, <1>15, <2>1, JobFacts DEF Decide
  <2>3. JobKept
    <3>1. \/ Return \/ Goto("review")
          \/ job' = [job EXCEPT !.at = "resolve", !.footers = job.footers + 1]
      BY <1>15 DEF Decide
    <3> QED BY <1>8, <1>9, <2>1, <3>1, JobFacts DEF JobKept, Jobs
  <2> QED BY <1>1, <1>2, <1>3, <1>4, <2>1, <2>2, <2>3
<1>16. CASE Resolve
  <2>1. job.at = "resolve" /\ UNCHANGED admin
    BY <1>16 DEF Resolve
  <2>2. RowsKept
    BY <1>5, <1>6, <1>7, <1>10, <1>16, <2>1, JobFacts DEF Resolve
  <2>3. JobKept
    <3>1. \/ MarkRetry(job.msg) \/ Return
          \/ job' = [job EXCEPT !.at = "mark", !.load = NotLoading,
                                !.routes = cache.bound, !.api = EndpointActive]
      BY <1>16 DEF Resolve
    <3> QED BY <1>7, <1>8, <2>1, <3>1, JobFacts DEF JobKept, Jobs
  <2> QED BY <1>1, <1>2, <1>3, <1>4, <2>1, <2>2, <2>3
<1>17. CASE DeliverToApi
  <2>1. job.at = "insert" /\ UNCHANGED <<rec, admin>>
    BY <1>17 DEF DeliverToApi
  <2>2. JobSafe'
    <3>1. CASE /\ apiRows' = apiRows \cup {job.msg} \/ vanished' = vanished \cup {job.msg}
               /\ job' = [job EXCEPT !.at = "routes", !.success = TRUE]
      BY <2>1, <3>1, JobFacts DEF JobSafe, Delivered, Jobs
    <3>2. CASE job' = [job EXCEPT !.at = "routes", !.raised = TRUE]
      BY <1>2, <2>1, <3>2, JobFacts DEF JobKept, Jobs
    <3> QED BY <1>17, <3>1, <3>2 DEF DeliverToApi
  <2> QED BY <1>1, <1>3, <1>4, <1>5, <2>1, <2>2
<1>18. ASSUME NEW t \in Targets, CheckRoute(t)  PROVE DeliveredInv'
  <2>1. job.at = "routes" /\ UNCHANGED <<rec, admin>>
    BY <1>18 DEF CheckRoute
  <2>2. JobKept
    BY <1>18, <2>1, CheckRouteJob, JobFacts DEF JobKept, Jobs
  <2> QED BY <1>1, <1>2, <1>3, <1>4, <1>5, <2>1, <2>2
<1>19. CASE Send
  <2>1. job.at = "send" /\ job.target \in Targets /\ UNCHANGED <<rec, admin>>
    BY <1>19, JobFacts DEF Send, JobIsSet
  <2> DEFINE next == [job EXCEPT !.at = "routes", !.routes = @ \ {job.target},
                                 !.target = NoTarget]
  <2>2. next \in Jobs
        /\ next.at = "routes" /\ next.msg = job.msg
        /\ next.success = job.success /\ next.ids = job.ids
    BY <2>1, JobFacts DEF Jobs
  <2>3. \/ /\ sent' = [sent EXCEPT ![job.msg][job.target] = @ + 1]
           /\ job' = [next EXCEPT !.success = TRUE, !.ids = TRUE]
        \/ job' = [next EXCEPT !.raised = TRUE]
    BY <1>19 DEF Send
  <2> HIDE DEF next
  <2>4. CASE job' = [next EXCEPT !.raised = TRUE]
    <3>1. JobKept
      BY <2>1, <2>2, <2>4 DEF JobKept, Jobs
    <3> QED BY <1>1, <1>2, <1>3, <1>4, <1>5, <2>1, <3>1
  <2>5. CASE /\ sent' = [sent EXCEPT ![job.msg][job.target] = @ + 1]
             /\ job' = [next EXCEPT !.success = TRUE, !.ids = TRUE]
    <3>1. job.msg \in Messages /\ sent \in [Messages -> [Targets -> Nat]]
      BY <2>1, JobFacts
    <3>2. sent'[job.msg][job.target] > 0
      BY <2>1, <2>5, <3>1
    <3>3. job'.msg = job.msg /\ job'.at # "idle"
      BY <2>2, <2>5 DEF Jobs
    <3>4. JobSafe'
      BY <2>1, <3>2, <3>3 DEF JobSafe, Delivered
    <3> QED BY <1>1, <1>3, <1>4, <1>5, <2>1, <3>4
  <2> QED BY <2>3, <2>4, <2>5
<1>20. CASE Conclude
  <2>1. job.at = "routes" /\ UNCHANGED admin
    BY <1>20 DEF Conclude
  <2>2. CASE MarkRetry(job.msg)
    BY <1>1, <1>2, <1>3, <1>4, <1>7, <2>1, <2>2
  <2>3. CASE Store(job.msg, "failed", job.footers) /\ Return
    BY <1>1, <1>2, <1>3, <1>4, <1>6, <1>8, <1>10, <2>1, <2>3, JobFacts
  <2>4. CASE /\ Reached /\ Return
             /\ rec' = [rec EXCEPT ![job.msg].status = "published",
                                   ![job.msg].ids = job.ids]
    <3>1. Delivered(job.msg)
      BY <2>4 DEF Reached, DeliveredInv
    <3>2. RowsKept
      BY <2>1, <2>4, <3>1, JobFacts DEF RowsKept, Record
    <3> QED BY <1>1, <1>2, <1>3, <1>4, <1>8, <2>1, <2>4, <3>2
  <2> QED BY <1>20, <2>2, <2>3, <2>4 DEF Conclude
<1>21. CASE Recover \/ RetryFailed \/ Boot
  <2>1. UNCHANGED <<rec, delivered, sent, job>>
    BY <1>21 DEF Recover, RetryFailed, Boot, ghosts
  <2>2. \A m \in DOMAIN admin'.todo : m \in Messages /\ admin'.todo[m] = rec[m]
    BY <1>21, SelectType DEF Recover, RetryFailed, Boot
  <2>3. DOMAIN admin'.held = {}
    BY <1>21, SelectType DEF Recover, RetryFailed, Boot
  <2>4. CommandSafe'
    BY <2>1, <2>2, <2>3 DEF CommandSafe, Delivered, delivered, DeliveredInv
  <2> QED BY <1>1, <1>2, <1>4, <1>5, <2>1, <2>4 DEF JobKept
<1>22. ASSUME NEW m \in Messages, RecoverOne(m) \/ RetryOne(m)
       PROVE  DeliveredInv'
  <2>1. UNCHANGED <<rec, delivered, sent, job>>
    BY <1>22 DEF RecoverOne, RetryOne, ghosts
  <2>2. m \in DOMAIN admin.todo
    BY <1>22 DEF RecoverOne, RetryOne, AtRecord
  <2>3. PICK status \in Statuses :
          \E held \in {admin.held, Hold(m, status)},
             todo \in {Without(admin.todo, m), admin.todo, NoRows} :
            /\ admin' = [kind |-> admin.kind, todo |-> todo, held |-> held]
            /\ status = "published" => admin.todo[m].ids
    <3>1. {"published", "retrying", "pending_publish"} \subseteq Statuses
      BY DEF Statuses
    <3>2. CASE RecoverOne(m) /\ admin.todo[m].ids
      <4>1. admin' = [kind |-> admin.kind, todo |-> Without(admin.todo, m),
                      held |-> Hold(m, "published")]
        BY <3>2 DEF RecoverOne, TypeInv, CommandIsRecord
      <4> QED BY <3>1, <3>2, <4>1
    <3>3. CASE RecoverOne(m) /\ ~admin.todo[m].ids
      <4>1. \E held \in {admin.held, Hold(m, "retrying")},
               todo \in {Without(admin.todo, m), NoRows} :
              admin' = [kind |-> admin.kind, todo |-> todo, held |-> held]
        BY <3>3 DEF RecoverOne, TypeInv, CommandIsRecord
      <4> QED BY <3>1, <4>1
    <3>4. CASE RetryOne(m)
      <4>1. \E held \in {admin.held, Hold(m, "pending_publish")},
               todo \in {Without(admin.todo, m), admin.todo} :
              admin' = [kind |-> admin.kind, todo |-> todo, held |-> held]
        BY <3>4 DEF RetryOne, TypeInv, CommandIsRecord
      <4> QED BY <3>1, <4>1
    <3> QED BY <1>22, <3>2, <3>3, <3>4
  <2>4. PICK held \in {admin.held, Hold(m, status)},
             todo \in {Without(admin.todo, m), admin.todo, NoRows} :
          /\ admin' = [kind |-> admin.kind, todo |-> todo, held |-> held]
          /\ status = "published" => admin.todo[m].ids
    BY <2>3
  <2>5. \A x \in DOMAIN todo : x \in DOMAIN admin.todo /\ todo[x] = admin.todo[x]
    BY DEF Without, NoRows
  <2>6. \A x \in DOMAIN held : held[x] = "published" => Delivered(x)
    <3>1. CASE held = admin.held
      BY <3>1 DEF DeliveredInv
    <3>2. CASE held = Hold(m, status)
      <4>1. status = "published" => Delivered(m)
        BY <2>2, <2>4 DEF DeliveredInv
      <4>2. \A x \in DOMAIN held :
              \/ x = m /\ held[x] = status
              \/ x \in DOMAIN admin.held /\ held[x] = admin.held[x]
        <5>1. DOMAIN held = DOMAIN admin.held \cup {m}
          BY <3>2 DEF Hold
        <5>2. \A x \in DOMAIN held :
                held[x] = IF x = m THEN status ELSE admin.held[x]
          BY <3>2 DEF Hold
        <5> QED BY <5>1, <5>2
      <4> QED BY <4>1, <4>2 DEF DeliveredInv
    <3> QED BY <3>1, <3>2
  <2>7. CommandSafe'
    BY <2>1, <2>4, <2>5, <2>6 DEF CommandSafe, DeliveredInv, Delivered, delivered
  <2> QED BY <1>1, <1>2, <1>4, <1>5, <2>1, <2>7 DEF JobKept
<1>23. CASE CommitCommand
  <2>1. RowsKept
    BY <1>23 DEF CommitCommand, RowsKept, TypeInv, TypeOK, Record, DeliveredInv
  <2>2. CommandSafe'
    BY <1>23, NoCommandType DEF CommitCommand, CommandSafe
  <2>3. UNCHANGED job
    BY <1>23 DEF CommitCommand
  <2> QED BY <1>1, <1>2, <1>4, <2>1, <2>2, <2>3 DEF JobKept
<1>24. CASE Reroute \/ SetPaused \/ RefreshPaused \/ Raise
  <2>1. UNCHANGED <<rec, admin>> /\ JobKept
    BY <1>24 DEF Reroute, SetPaused, RefreshPaused, Raise, JobKept
  <2> QED BY <1>1, <1>2, <1>3, <1>4, <1>5, <2>1
<1>25. CASE Crash
  <2>1. UNCHANGED rec /\ JobKept /\ admin' = NoCommand
    BY <1>25 DEF Crash, JobKept
  <2>2. CommandSafe'
    BY <2>1, NoCommandType DEF CommandSafe
  <2> QED BY <1>1, <1>2, <1>4, <1>5, <2>1, <2>2
<1>26. CASE UNCHANGED vars
  <2>1. UNCHANGED <<rec, admin>> /\ JobKept
    BY <1>26 DEF vars, JobKept
  <2> QED BY <1>1, <1>2, <1>3, <1>4, <1>5, <2>1
<1>27. CASE ReadSource \/ ReadLinks \/ CheckEndpoint
  <2>1. UNCHANGED <<rec, admin>> /\ job.at # "idle" /\ job \in Jobs
    BY <1>27 DEF ReadSource, ReadLinks, Refreshes, CheckEndpoint, TypeInv, TypeOK
  <2>2. \/ \E r : job' = [job EXCEPT !.load = r]
        \/ \E at \in {"insert", "routes"} : job' = [job EXCEPT !.at = at]
        \/ job' = [job EXCEPT !.at = "routes", !.raised = TRUE]
    BY <1>27 DEF ReadSource, ReadLinks, CheckEndpoint
  <2>3. JobKept
    BY <2>1, <2>2 DEF JobKept, Jobs
  <2> QED BY <1>1, <1>2, <1>3, <1>4, <1>5, <2>1, <2>3
<1>28. ASSUME NEW t \in Others, OtherReads(t) \/ OtherApplies(t)  PROVE DeliveredInv'
  <2>1. UNCHANGED <<rec, admin>> /\ JobKept
    BY <1>28 DEF OtherReads, OtherApplies, JobKept
  <2> QED BY <1>1, <1>2, <1>3, <1>4, <1>5, <2>1
<1> QED BY <1>11, <1>12, <1>13, <1>14, <1>15, <1>16, <1>17, <1>18, <1>19, <1>20,
           <1>21, <1>22, <1>23, <1>24, <1>25, <1>26, <1>27, <1>28
        DEF Next, ProcessStep, CommandStep

\* A record that says published was delivered to a target or an endpoint, or to an
\* endpoint that was deleted just then: also when a command with an old copy of the row
\* wrote that status.
THEOREM PublishedIsDelivered == Spec => []PublishedWasDelivered
<1>1. DeliveredInv => PublishedWasDelivered
  BY DEF DeliveredInv, PublishedWasDelivered, Delivered
<1> QED BY <1>1, TypeInit, TypeStep, DeliveredInit, DeliveredStep, PTL DEF Spec

-----------------------------------------------------------------------------
(* Nothing is forgotten. *)

\* The record of a message that was taken from the stream exists.
Tracked ==
  \A m \in Messages :
    count.arrivals[m] > 0 =>
      InStream(m) \/ m \in ignored \/ rec[m].status # "none"

\* A record in pending_review has a task, or process_one is about to create it, unless
\* a fault came in between.
ReviewInv ==
  /\ \A m \in Messages :
       rec[m].status = "pending_review" =>
         m \in tasks \/ (job.at = "review" /\ job.msg = m) \/ m \in orphaned
  /\ \A m \in DOMAIN admin.held : admin.held[m] # "pending_review"

\* A record exists for every message with a task, for the one process_one is past
\* its first session with; no update that a command holds undoes a record.
KnownInv ==
  /\ \A m \in tasks : rec[m].status # "none"
  /\ job.at \notin {"idle", "start"} => rec[job.msg].status # "none"
  /\ \A m \in DOMAIN admin.held : admin.held[m] # "none"

CountInv ==
  count \in [arrivals : [Messages -> Nat], changes : Nat, commands : Nat, faults : Nat]

ForgetInv == KnownInv /\ CountInv /\ Tracked /\ ReviewInv

LEMMA ForgetInit == Init => ForgetInv
  BY NoCommandType, NoJobType
  DEF Init, ForgetInv, KnownInv, CountInv, Tracked, ReviewInv, NoRecord

LEMMA CountStep == CountInv /\ [Next]_vars => CountInv'
<1> SUFFICES ASSUME CountInv, [Next]_vars  PROVE CountInv'
  OBVIOUS
<1>1. CASE UNCHANGED count
  BY <1>1 DEF CountInv
<1>2. ASSUME NEW m \in Messages, Arrive(m)  PROVE CountInv'
  <2> DEFINE more == [count.arrivals EXCEPT ![m] = count.arrivals[m] + 1]
  <2>1. count' = [count EXCEPT !.arrivals = more]
    BY <1>2 DEF Arrive
  <2>2. more \in [Messages -> Nat]
    BY DEF CountInv
  <2> HIDE DEF more
  <2> QED BY <2>1, <2>2 DEF CountInv
<1>3. CASE Recover \/ RetryFailed \/ Change \/ Fail
  BY <1>3 DEF Recover, RetryFailed, Change, Fail, CountInv
<1> QED BY <1>1, <1>2, <1>3
        DEF Next, ProcessStep, CommandStep, HandleIncoming, WorkerTakes, Start,
            Materialize, Decide, CreateTask, Resolve, MarkPublishing, CheckEndpoint,
            DeliverToApi, ReadSource, ReadLinks, OtherReads, OtherApplies, CheckRoute,
            Send, Conclude, RecoverOne, RetryOne, CommitCommand, Reroute, SetPaused,
            RefreshPaused, Raise, Crash, Boot, vars

\* A record that exists goes on existing; what a job stores is not "none".
LEMMA RecordStays ==
  ASSUME TypeInv, KnownInv, [Next]_vars, NEW m \in Messages
  PROVE  rec[m].status # "none" => rec'[m].status # "none"
<1> DEFINE Stays == rec[m].status # "none" => rec'[m].status # "none"
<1>1. CASE UNCHANGED rec
  BY <1>1
<1>2. rec \in [Messages -> Record]
  BY DEF TypeInv, TypeOK
<1>3. ASSUME NEW x \in Messages, NEW status, status # "none", NEW n,
             SetStatus(x, status) \/ Store(x, status, n)
      PROVE  Stays
  BY <1>2, <1>3 DEF SetStatus, Store, Record
<1>4. MarkRetry(job.msg) => Stays
  BY <1>2 DEF MarkRetry, Record
<1>5. ASSUME NEW x \in Messages, Arrive(x)  PROVE Stays
  <2>1. CASE rec' = [rec EXCEPT ![x].footers = 0,
                       ![x].status = IF @ = "none" THEN "received" ELSE @]
    BY <1>2, <2>1 DEF Record
  <2> QED BY <1>1, <1>5, <2>1 DEF Arrive, Enqueue
<1>6. CASE Start \/ Materialize \/ MarkPublishing
  BY <1>1, <1>3, <1>6, JobFacts DEF Start, Materialize, MarkPublishing
<1>7. CASE Decide
  BY <1>3, <1>7, JobFacts DEF Decide
<1>8. CASE Resolve
  BY <1>1, <1>3, <1>4, <1>8, JobFacts DEF Resolve
<1>9. CASE Conclude
  <2>1. CASE rec' = [rec EXCEPT ![job.msg].status = "published",
                               ![job.msg].ids = job.ids]
    BY <1>2, <2>1 DEF Record
  <2> QED BY <1>3, <1>4, <1>9, <2>1, JobFacts DEF Conclude
<1>10. CASE CommitCommand
  BY <1>2, <1>10 DEF CommitCommand, KnownInv, Record
<1> QED BY <1>1, <1>5, <1>6, <1>7, <1>8, <1>9, <1>10
        DEF Next, ProcessStep, CommandStep, HandleIncoming, WorkerTakes, CreateTask,
            CheckEndpoint, DeliverToApi, ReadSource, ReadLinks, OtherReads, OtherApplies,
            CheckRoute, Send, Recover, RetryFailed, RecoverOne, RetryOne, Reroute,
            SetPaused, RefreshPaused, Raise, Crash, Boot, vars

LEMMA KnownStep == TypeInv /\ KnownInv /\ [Next]_vars => KnownInv'
<1> SUFFICES ASSUME TypeInv, KnownInv, [Next]_vars  PROVE KnownInv'
  OBVIOUS
<1>1. \A m \in tasks' : rec'[m].status # "none"
  <2>1. \A m \in tasks : m \in Messages /\ rec'[m].status # "none"
    BY RecordStays DEF KnownInv, TypeInv, TypeOK
  <2>2. CASE UNCHANGED tasks
    BY <2>1, <2>2
  <2>3. CASE CreateTask
    <3>1. job.at = "review" /\ UNCHANGED rec /\ tasks' = tasks \cup {job.msg}
      BY <2>3 DEF CreateTask
    <3> QED BY <2>1, <3>1 DEF KnownInv
  <2> QED BY <2>2, <2>3
          DEF Next, ProcessStep, CommandStep, Arrive, HandleIncoming, WorkerTakes, Start,
              Materialize, Decide, Resolve, MarkPublishing, CheckEndpoint, DeliverToApi,
              ReadSource, ReadLinks, OtherReads, OtherApplies, CheckRoute, Send, Conclude,
              Recover, RetryFailed, RecoverOne, RetryOne, CommitCommand, Reroute,
              SetPaused, RefreshPaused, Raise, Crash, Boot, vars
<1>2. job'.at \notin {"idle", "start"} => rec'[job'.msg].status # "none"
  <2>1. job.at \notin {"idle", "start"} => rec'[job.msg].status # "none"
    BY RecordStays, JobFacts DEF KnownInv
  <2>2. CASE job' = NoJob \/ job'.at = "start"
    BY <2>2, NoJobType
  <2>3. CASE job.at \notin {"idle", "start"} /\ job'.msg = job.msg
    BY <2>1, <2>3
  <2>4. CASE UNCHANGED job
    BY <2>1, <2>4
  <2>5. CASE Start
    <3>1. job.at = "start" /\ job.msg \in Messages /\ rec \in [Messages -> Record]
      BY <2>5, JobFacts DEF Start
    <3>2. CASE Store(job.msg, "processing", job.footers)
               /\ job' = [job EXCEPT !.at = "materialize", !.load = NotLoading]
      <4>1. rec'[job.msg].status = "processing"
        BY <3>1, <3>2 DEF Store, Record
      <4>2. job'.msg = job.msg
        BY <3>1, <3>2, JobFacts DEF Jobs
      <4> QED BY <4>1, <4>2
    <3> QED BY <2>2, <2>5, <3>2 DEF Start, Return
  <2>6. ASSUME Materialize \/ Decide \/ CreateTask \/ Resolve \/ MarkPublishing
               \/ CheckEndpoint \/ DeliverToApi
               \/ (\E t \in Targets : CheckRoute(t)) \/ Send
               \/ Conclude
        PROVE  job' = NoJob \/ (job.at \notin {"idle", "start"} /\ job'.msg = job.msg)
    <3>1. job.at \notin {"idle", "start"}
      BY <2>6 DEF Materialize, Decide, CreateTask, Resolve, MarkPublishing, CheckEndpoint,
                  DeliverToApi, CheckRoute, Send, Conclude
    <3>2. job \in Jobs
      BY <3>1, JobFacts
    <3>3. CASE Materialize \/ CreateTask \/ MarkPublishing \/ Conclude
      BY <3>1, <3>2, <3>3
      DEF Materialize, CreateTask, MarkPublishing, Conclude, Return, MarkRetry, Goto,
          Jobs
    <3>4. CASE Decide \/ Resolve \/ CheckEndpoint \/ DeliverToApi
      BY <3>1, <3>2, <3>4 DEF Decide, Resolve, CheckEndpoint, DeliverToApi, Return,
                              MarkRetry, Goto, Jobs
    <3>5. ASSUME NEW t \in Targets, CheckRoute(t)
          PROVE  job.at \notin {"idle", "start"} /\ job'.msg = job.msg
      BY <3>1, <3>2, <3>5, CheckRouteJob DEF Jobs
    <3>6. CASE Send
      BY <3>1, <3>2, <3>6 DEF Send, Jobs
    <3> QED BY <2>6, <3>3, <3>4, <3>5, <3>6
  <2>7. CASE HandleIncoming \/ WorkerTakes
    BY <2>2, <2>4, <2>7 DEF HandleIncoming, WorkerTakes, Take, NoJob
  <2>8. CASE ReadSource \/ ReadLinks
    <3>1. job'.at = job.at /\ job'.msg = job.msg
      BY <2>8 DEF ReadSource, ReadLinks, TypeInv, TypeOK, Jobs
    <3> QED BY <2>1, <3>1
  <2>9. CASE Raise \/ Crash
    BY <2>2, <2>9 DEF Raise, Crash
  <2> QED BY <2>2, <2>3, <2>4, <2>5, <2>6, <2>7, <2>8, <2>9
          DEF Next, ProcessStep, CommandStep, Arrive, OtherReads, OtherApplies, Recover,
              RetryFailed, RecoverOne, RetryOne,
              CommitCommand, Reroute, SetPaused, RefreshPaused, Boot, vars
<1> DEFINE HeldKnown == \A m \in DOMAIN admin.held : admin.held[m] # "none"
<1>3. HeldKnown'
  <2>1. CASE admin' = NoCommand
    BY <2>1, NoCommandType
  <2>2. CASE UNCHANGED admin
    BY <2>2 DEF KnownInv
  <2>3. CASE Recover \/ RetryFailed \/ Boot
    BY <2>3, SelectType DEF Recover, RetryFailed, Boot
  <2>4. ASSUME NEW m \in Messages, RecoverOne(m) \/ RetryOne(m)
        PROVE  HeldKnown'
    <3>1. CASE admin'.held = admin.held
      BY <3>1 DEF KnownInv
    <3>2. ASSUME NEW status, status # "none", admin'.held = Hold(m, status)
          PROVE  HeldKnown'
      <4>1. DOMAIN admin'.held = DOMAIN admin.held \cup {m}
        BY <3>2 DEF Hold
      <4>2. \A x \in DOMAIN admin'.held :
              admin'.held[x] = IF x = m THEN status ELSE admin.held[x]
        BY <3>2 DEF Hold
      <4> QED BY <3>2, <4>1, <4>2 DEF KnownInv
    <3>3. \/ admin'.held = admin.held
          \/ admin'.held = Hold(m, "published")
          \/ admin'.held = Hold(m, "retrying")
          \/ admin'.held = Hold(m, "pending_publish")
      BY <2>4 DEF RecoverOne, RetryOne, TypeInv, CommandIsRecord
    <3> QED BY <3>1, <3>2, <3>3
  <2> QED BY <2>1, <2>2, <2>3, <2>4
          DEF Next, ProcessStep, CommandStep, Arrive, HandleIncoming, WorkerTakes, Start,
              Materialize, Decide, CreateTask, Resolve, MarkPublishing, CheckEndpoint,
              DeliverToApi, ReadSource, ReadLinks, OtherReads, OtherApplies, CheckRoute,
              Send, Conclude, CommitCommand, Reroute, SetPaused, RefreshPaused, Raise,
              Crash, vars
<1> QED BY <1>1, <1>2, <1>3 DEF KnownInv

\* Where a message goes that leaves the stream, and one that arrives.
LEMMA StreamStep ==
  ASSUME TypeInv, ForgetInv, [Next]_vars, NEW m \in Messages
  PROVE  /\ InStream(m) => InStream(m)' \/ m \in ignored' \/ rec'[m].status # "none"
         /\ m \in ignored => m \in ignored'
         /\ count'.arrivals[m] > 0 =>
              count.arrivals[m] > 0 \/ InStream(m)' \/ rec'[m].status # "none"
<1> DEFINE Kept == InStream(m) => InStream(m)' \/ m \in ignored' \/ rec'[m].status # "none"
<1>1. stream \in Seq(Messages) /\ rec \in [Messages -> Record]
  BY DEF TypeInv, TypeOK
<1>2. UNCHANGED stream => Kept
  BY DEF InStream
<1>3. ASSUME stream # <<>>, stream' = Tail(stream)
      PROVE  InStream(m) => InStream(m)' \/ m = Head(stream)
  <2>1. Len(stream) \in Nat /\ Len(stream) > 0
        /\ Len(Tail(stream)) = Len(stream) - 1
        /\ \A i \in 1 .. Len(Tail(stream)) : Tail(stream)[i] = stream[i + 1]
        /\ Head(stream) = stream[1]
    BY <1>1, <1>3, HeadTailProperties, LenProperties
  <2>2. ASSUME NEW i \in DOMAIN stream, stream[i] = m, i # 1
        PROVE  InStream(m)'
    <3>1. i - 1 \in 1 .. Len(Tail(stream)) /\ (i - 1) + 1 = i
      BY <1>1, <2>1, <2>2, LenProperties
    <3>2. Tail(stream)[i - 1] = m
      BY <2>1, <2>2, <3>1
    <3>3. DOMAIN Tail(stream) = 1 .. Len(Tail(stream))
      BY <1>1, <1>3, HeadTailProperties, LenProperties
    <3> QED BY <1>3, <3>1, <3>2, <3>3 DEF InStream
  <2> QED BY <2>1, <2>2 DEF InStream
<1>4. ASSUME Return, job.at # "idle",
             job.via = "stream" => rec'[job.msg].status # "none"
      PROVE  Kept
  <2>1. CASE job.via = "stream"
    <3>1. stream # <<>> /\ Head(stream) = job.msg /\ stream' = Tail(stream)
      BY <1>4, <2>1 DEF Return, TypeInv, JobIsSet
    <3> QED BY <1>3, <1>4, <2>1, <3>1
  <2>2. CASE job.via # "stream"
    BY <1>2, <1>4, <2>2 DEF Return
  <2> QED BY <2>1, <2>2
<1>5. job.at \notin {"idle", "start"} => rec'[job.msg].status # "none"
  BY RecordStays, JobFacts DEF ForgetInv, KnownInv
<1>6. ASSUME NEW x \in Messages, Arrive(x)
      PROVE  /\ Kept
             /\ count'.arrivals[m] > 0 =>
                  count.arrivals[m] > 0 \/ InStream(m)' \/ rec'[m].status # "none"
  <2>1. m # x => count'.arrivals[m] = count.arrivals[m]
    BY <1>6 DEF Arrive, ForgetInv, CountInv
  <2>2. CASE Durable
    <3>1. stream' = Append(stream, x)
      BY <1>6, <2>2 DEF Arrive
    <3>2. /\ Len(stream) \in Nat /\ DOMAIN stream = 1 .. Len(stream)
          /\ DOMAIN stream' = 1 .. Len(stream) + 1
          /\ \A i \in 1 .. Len(stream) : stream'[i] = stream[i]
          /\ stream'[Len(stream) + 1] = x
      BY <1>1, <3>1, AppendProperties, LenProperties
    <3>3. Kept /\ (m = x => InStream(m)')
      BY <3>2 DEF InStream
    <3> QED BY <2>1, <3>3
  <2>3. CASE ~Durable
    <3>1. UNCHANGED stream /\ Enqueue(x)
      BY <1>6, <2>3 DEF Arrive
    <3>2. rec'[x].status # "none"
      <4>1. CASE Owned(x) \/ rec[x].status \in Underway
        BY <3>1, <4>1 DEF Enqueue, Owned, Underway, ForgetInv, KnownInv
      <4>2. CASE rec' = [rec EXCEPT ![x].footers = 0,
                           ![x].status = IF @ = "none" THEN "received" ELSE @]
        BY <1>1, <4>2 DEF Record
      <4> QED BY <3>1, <4>1, <4>2 DEF Enqueue
    <3> QED BY <1>2, <2>1, <3>1, <3>2
  <2> QED BY <2>2, <2>3, PipelineAssumption
<1>7. ASSUME HandleIncoming  PROVE Kept
  <2>1. CASE UNCHANGED stream
    BY <1>2, <2>1
  <2>2. CASE /\ stream # <<>> /\ stream' = Tail(stream)
             /\ ignored' = ignored \cup {Head(stream)}
    BY <1>3, <2>2
  <2> QED BY <1>7, <2>1, <2>2 DEF HandleIncoming
<1>8. ASSUME Start  PROVE Kept
  <2>1. job.at = "start" /\ job.msg \in Messages
    BY <1>8, JobFacts DEF Start
  <2>2. CASE Finished(job.msg) /\ Return /\ UNCHANGED rec
    <3>1. rec[job.msg].status # "none"
      BY <2>2 DEF Finished, ForgetInv, KnownInv
    <3> QED BY <1>4, <2>1, <2>2, <3>1
  <2>3. CASE Store(job.msg, "failed", job.footers) /\ Return
    <3>1. rec'[job.msg].status # "none"
      BY <1>1, <2>1, <2>3 DEF Store, Record
    <3> QED BY <1>4, <2>1, <2>3, <3>1
  <2> QED BY <1>2, <1>8, <2>2, <2>3 DEF Start
<1>9. ASSUME ProcessStep, ~Start, ~UNCHANGED stream  PROVE Kept
  <2>1. job.at \notin {"idle", "start"} /\ Return
    BY <1>9 DEF ProcessStep, Materialize, Decide, CreateTask, Resolve, MarkRetry,
                MarkPublishing, CheckEndpoint, DeliverToApi, ReadSource, ReadLinks,
                CheckRoute, Send, Conclude
  <2> QED BY <1>4, <1>5, <2>1
<1>10. Kept
  BY <1>2, <1>6, <1>7, <1>8, <1>9
  DEF Next, CommandStep, WorkerTakes, OtherReads, OtherApplies, Recover, RetryFailed,
      RecoverOne, RetryOne, CommitCommand, Reroute, SetPaused, RefreshPaused, Raise, Crash,
      Boot, vars
<1>11. ignored \subseteq ignored'
  BY DEF Next, ProcessStep, CommandStep, Arrive, HandleIncoming, WorkerTakes, Start,
         Materialize, Decide, CreateTask, Resolve, MarkPublishing, CheckEndpoint,
         DeliverToApi, ReadSource, ReadLinks, OtherReads, OtherApplies, CheckRoute, Send,
         Conclude, Recover, RetryFailed, RecoverOne, RetryOne, CommitCommand, Reroute,
         SetPaused, RefreshPaused, Raise, Crash, Boot, gate, vars
<1>12. CASE UNCHANGED count
  BY <1>10, <1>11, <1>12
<1>13. CASE Recover \/ RetryFailed \/ Change \/ Fail
  <2>1. count'.arrivals = count.arrivals
    BY <1>13 DEF Recover, RetryFailed, Change, Fail, ForgetInv, CountInv
  <2> QED BY <1>10, <1>11, <2>1
<1> QED BY <1>6, <1>10, <1>11, <1>12, <1>13
        DEF Next, ProcessStep, CommandStep, HandleIncoming, WorkerTakes, Start,
            Materialize, Decide, CreateTask, Resolve, MarkPublishing, CheckEndpoint,
            DeliverToApi, ReadSource, ReadLinks, OtherReads, OtherApplies, CheckRoute,
            Send, Conclude, RecoverOne, RetryOne, CommitCommand, Reroute, SetPaused,
            RefreshPaused, Raise, Crash, Boot, vars

LEMMA ReviewStep == TypeInv /\ ReviewInv /\ [Next]_vars => ReviewInv'
<1> SUFFICES ASSUME TypeInv, ReviewInv, [Next]_vars  PROVE ReviewInv'
  OBVIOUS
<1> DEFINE
      Awaits(m) == m \in tasks \/ (job.at = "review" /\ job.msg = m) \/ m \in orphaned
<1>1. rec \in [Messages -> Record] /\ job \in Jobs
  BY DEF TypeInv, TypeOK
<1>2. \A m \in DOMAIN admin'.held : admin'.held[m] # "pending_review"
  <2>1. CASE UNCHANGED admin
    BY <2>1 DEF ReviewInv
  <2>2. CASE admin' = NoCommand \/ Recover \/ RetryFailed \/ Boot
    BY <2>2, NoCommandType, SelectType DEF Recover, RetryFailed, Boot
  <2>3. ASSUME NEW m \in Messages, RecoverOne(m) \/ RetryOne(m)
        PROVE  \A x \in DOMAIN admin'.held : admin'.held[x] # "pending_review"
    <3>1. PICK a : a = admin /\ a = [kind |-> a.kind, todo |-> a.todo, held |-> a.held]
      BY DEF TypeInv, CommandIsRecord
    <3>2. \/ admin'.held = a.held
          \/ \E s \in {"published", "retrying", "pending_publish"} :
               admin'.held = Hold(m, s)
      BY <2>3, <3>1 DEF RecoverOne, RetryOne
    <3>3. \A s : \A x \in DOMAIN Hold(m, s) :
            Hold(m, s)[x] = s \/ (x \in DOMAIN a.held /\ Hold(m, s)[x] = a.held[x])
      BY <3>1 DEF Hold
    <3> QED BY <3>1, <3>2, <3>3 DEF ReviewInv
  <2> QED BY <2>1, <2>2, <2>3
          DEF Next, ProcessStep, CommandStep, Arrive, HandleIncoming, WorkerTakes, Start,
              Materialize, Decide, CreateTask, Resolve, MarkPublishing, CheckEndpoint,
              DeliverToApi, ReadSource, ReadLinks, OtherReads, OtherApplies, CheckRoute,
              Send, Conclude, CommitCommand, Reroute, SetPaused, RefreshPaused, Raise,
              Crash, vars
<1>3. ASSUME NEW m \in Messages, Awaits(m)  PROVE Awaits(m)'
  <2>1. CASE m \in tasks \/ m \in orphaned
    <3>1. tasks \subseteq tasks' /\ orphaned \subseteq orphaned'
      BY DEF Next, ProcessStep, CommandStep, Arrive, HandleIncoming, WorkerTakes, Start,
             Materialize, Decide, CreateTask, Resolve, MarkPublishing, CheckEndpoint,
             DeliverToApi, ReadSource, ReadLinks, OtherReads, OtherApplies, CheckRoute,
             Send, Conclude, Recover, RetryFailed, RecoverOne, RetryOne, CommitCommand,
             Reroute, SetPaused, RefreshPaused, Raise, Crash, Boot, Orphan, vars, ghosts
    <3> QED BY <2>1, <3>1
  <2>2. CASE job.at = "review" /\ job.msg = m
    <3>1. CASE UNCHANGED job
      BY <2>2, <3>1
    <3>2. CASE CreateTask
      BY <2>2, <3>2 DEF CreateTask
    <3>3. CASE Raise \/ Crash
      BY <2>2, <3>3 DEF Raise, Crash, Orphan
    <3> QED BY <2>2, <3>1, <3>2, <3>3
            DEF Next, ProcessStep, CommandStep, Arrive, HandleIncoming, WorkerTakes,
                MayStart, Start, Materialize, Decide, Resolve, MarkPublishing,
                CheckEndpoint, DeliverToApi, ReadSource, ReadLinks, Refreshes, OtherReads,
                OtherApplies, CheckRoute, Send, Conclude, Recover, RetryFailed,
                RecoverOne, RetryOne, CommitCommand, Reroute, SetPaused, RefreshPaused,
                Boot, vars
  <2> QED BY <1>3, <2>1, <2>2
<1>4. ASSUME NEW m \in Messages, rec'[m].status = "pending_review",
             rec[m].status # "pending_review"
      PROVE  Awaits(m)'
  <2>1. ASSUME NEW x \in Messages, NEW status, status # "pending_review", NEW n,
               SetStatus(x, status) \/ Store(x, status, n)
        PROVE  FALSE
    BY <1>1, <1>4, <2>1 DEF SetStatus, Store, Record
  <2>2. MarkRetry(job.msg) => FALSE
    BY <1>1, <1>4 DEF MarkRetry, Record
  <2>3. UNCHANGED rec => FALSE
    BY <1>4
  <2>4. ASSUME NEW x \in Messages, Arrive(x)  PROVE FALSE
    <3>1. rec' = [rec EXCEPT ![x].footers = 0,
                    ![x].status = IF @ = "none" THEN "received" ELSE @] => FALSE
      BY <1>1, <1>4 DEF Record
    <3> QED BY <2>3, <2>4, <3>1 DEF Arrive, Enqueue
  <2>5. Start \/ Materialize \/ MarkPublishing => FALSE
    BY <2>1, <2>3, JobFacts DEF Start, Materialize, MarkPublishing
  <2>6. CASE Decide
    <3>1. job.msg \in Messages
      BY <2>6, JobFacts DEF Decide
    <3>2. CASE Goto("review") /\ \E n : Store(job.msg, "pending_review", n)
      <4>1. m = job.msg
        BY <1>1, <1>4, <3>1, <3>2 DEF Store, Record
      <4>2. job'.at = "review" /\ job'.msg = m
        BY <1>1, <3>2, <4>1 DEF Goto, Jobs
      <4> QED BY <4>2
    <3>3. CASE \/ \E s \in {"filtered", "failed"} : SetStatus(job.msg, s)
               \/ Store(job.msg, "pending_publish", job.footers + 1)
      BY <2>1, <3>1, <3>3
    <3> QED BY <2>6, <3>2, <3>3 DEF Decide
  <2>7. Resolve => FALSE
    BY <2>1, <2>2, <2>3, JobFacts DEF Resolve
  <2>8. Conclude => FALSE
    <3>1. rec' = [rec EXCEPT ![job.msg].status = "published", ![job.msg].ids = job.ids]
            => FALSE
      BY <1>1, <1>4 DEF Record
    <3> QED BY <2>1, <2>2, <3>1, JobFacts DEF Conclude
  <2>9. CommitCommand => FALSE
    BY <1>1, <1>4 DEF CommitCommand, ReviewInv, Record
  <2> QED BY <2>3, <2>4, <2>5, <2>6, <2>7, <2>8, <2>9
          DEF Next, ProcessStep, CommandStep, HandleIncoming, WorkerTakes, CreateTask,
              CheckEndpoint, DeliverToApi, ReadSource, ReadLinks, OtherReads,
              OtherApplies, CheckRoute, Send, Recover, RetryFailed, RecoverOne, RetryOne,
              Reroute, SetPaused, RefreshPaused, Raise, Crash, Boot, vars
<1>5. \A m \in Messages : rec[m].status = "pending_review" => Awaits(m)
  BY DEF ReviewInv
<1> HIDE DEF Awaits
<1>6. \A m \in Messages : rec'[m].status = "pending_review" => Awaits(m)'
  BY <1>3, <1>4, <1>5
<1> QED BY <1>2, <1>6 DEF ReviewInv, Awaits

LEMMA ForgetStep == TypeInv /\ ForgetInv /\ [Next]_vars => ForgetInv'
<1> SUFFICES ASSUME TypeInv, ForgetInv, [Next]_vars  PROVE ForgetInv'
  OBVIOUS
<1>1. KnownInv' /\ CountInv' /\ ReviewInv'
  BY KnownStep, CountStep, ReviewStep DEF ForgetInv
<1>2. ASSUME NEW m \in Messages, count'.arrivals[m] > 0
      PROVE  InStream(m)' \/ m \in ignored' \/ rec'[m].status # "none"
  <2>1. rec[m].status # "none" => rec'[m].status # "none"
    BY RecordStays DEF ForgetInv
  <2>2. /\ InStream(m) => InStream(m)' \/ m \in ignored' \/ rec'[m].status # "none"
        /\ m \in ignored => m \in ignored'
        /\ count'.arrivals[m] > 0 =>
             count.arrivals[m] > 0 \/ InStream(m)' \/ rec'[m].status # "none"
    BY StreamStep
  <2>3. count.arrivals[m] > 0 =>
          InStream(m) \/ m \in ignored \/ rec[m].status # "none"
    BY DEF ForgetInv, Tracked
  <2> QED BY <1>2, <2>1, <2>2, <2>3
<1>3. Tracked'
  BY <1>2 DEF Tracked, InStream
<1> QED BY <1>1, <1>3 DEF ForgetInv

\* A message that has arrived is in the stream, in a status that recovery or a retry
\* selects, at an end, with a reviewer, or was turned away for a source that looked
\* disabled, whatever crashes, fails or is recovered: unless a fault came between
\* pending_review and the review task.
THEOREM NothingIsForgotten == Spec => []NothingForgotten
<1>1. TypeInv /\ ForgetInv => NothingForgotten
  <2> SUFFICES ASSUME TypeInv, ForgetInv, NEW m \in Messages, count.arrivals[m] > 0,
                      rec[m].status # "none"
               PROVE  \/ rec[m].status \in Findable \cup Ended \/ InReview(m)
                      \/ rec[m].status = "pending_review" /\ m \in orphaned
    BY DEF ForgetInv, Tracked, NothingForgotten
  <2>1. rec[m].status \in Statuses
    BY DEF TypeInv, TypeOK, Record
  <2>2. rec[m].status \in Findable \cup Ended \cup {"pending_review"}
    BY <2>1 DEF Statuses, Findable, Recoverable, Ended
  <2> QED BY <2>2 DEF ForgetInv, ReviewInv, InReview
<1> QED BY <1>1, TypeInit, TypeStep, ForgetInit, ForgetStep, PTL DEF Spec
-----------------------------------------------------------------------------
(* What is settled stays settled. *)

InFlight == job.at \notin {"idle", "start"}

Decided(m) == ApiSource /\ (m \in tasks \/ rec[m].status = "filtered")

\* The command that runs has not written over the row of m, and is not to.
Untouched(m) == m \notin DOMAIN admin.held /\ ~ToOverwrite(m)

\* Once settled without a command about to write over it, a row is as it was settled.
SettledRow(m) ==
  /\ m \in done => rec[m].status = "published" /\ Untouched(m)
  /\ ApiSource /\ m \in tasks => rec[m].status = "pending_review" /\ Untouched(m)
  /\ ApiSource /\ rec[m].status = "filtered" => Untouched(m)

\* target_message_ids are those of a publication; a command that finds them in a row to
\* recover or to retry has a message that was put back after it.
SettledCopies ==
  /\ \A m \in Messages : rec[m].ids => m \in done
  /\ \A m \in DOMAIN admin.todo : admin.todo[m].ids => m \in raced
  /\ \A m \in DOMAIN admin.held :
       admin.held[m] \in {"published", "retrying", "pending_publish"}

\* A message under way is not settled; one on its way to a reviewer is about to be.
SettledJob ==
  /\ InFlight /\ job.msg \notin raced => job.msg \notin done /\ ~Decided(job.msg)
  /\ ApiSource /\ job.at = "review" /\ job.msg \notin raced =>
       rec[job.msg].status = "pending_review" /\ Untouched(job.msg)

SettledInv ==
  (\A m \in Messages \ raced : SettledRow(m)) /\ SettledCopies /\ SettledJob

Decisions ==
  \A m \in Messages \ raced : Decided(m) => rec'[m].status = rec[m].status

LEMMA SettledInit == Init => SettledInv
  BY NoJobType, NoCommandType
  DEF Init, SettledInv, SettledRow, SettledCopies, SettledJob, InFlight, Untouched,
      ToOverwrite, NoRecord

\* Steps that at most put a new message on record.
LEMMA SettledQuiet ==
  ASSUME TypeInv, SettledInv, UNCHANGED <<tasks, done, raced, admin>>,
         job'.at = job.at, job'.msg = job.msg,
         \A m \in Messages :
           /\ rec'[m].ids = rec[m].ids
           /\ \/ rec'[m].status = rec[m].status
              \/ rec[m].status = "none" /\ rec'[m].status = "received"
  PROVE  SettledInv' /\ Decisions
<1>1. \A m : Untouched(m)' <=> Untouched(m)
  BY DEF Untouched, ToOverwrite
<1>2. \A m \in Messages \ raced : SettledRow(m)'
  BY <1>1 DEF SettledInv, SettledRow
<1>3. SettledCopies'
  BY DEF SettledInv, SettledCopies
<1>4. SettledJob'
  <2>1. job.at # "idle" => job.msg \in Messages
    BY DEF TypeInv, JobIsSet
  <2> QED BY <1>1, <2>1 DEF SettledInv, SettledJob, InFlight, Decided
<1>5. Decisions
  BY DEF SettledInv, SettledRow, Decisions, Decided
<1> QED BY <1>2, <1>3, <1>4, <1>5 DEF SettledInv

\* Steps of commands before their commit, and those that change nothing else: what is at
\* rest stays untouched.
LEMMA SettledCommand ==
  ASSUME TypeInv, SettledInv, UNCHANGED <<rec, tasks, done, raced>>,
         job' = job \/ job'.at = "idle",
         \A m \in Messages \ raced :
           /\ rec[m].status \in {"published", "filtered", "pending_review"}
           /\ Untouched(m)
           => Untouched(m)',
         SettledCopies'
  PROVE  SettledInv' /\ Decisions
<1>1. \A m \in Messages \ raced : SettledRow(m)'
  BY DEF SettledInv, SettledRow
<1>2. SettledJob'
  <2>1. job.at # "idle" => job.msg \in Messages
    BY DEF TypeInv, JobIsSet
  <2> QED BY <2>1 DEF SettledInv, SettledJob, InFlight, Decided
<1> QED BY <1>1, <1>2 DEF SettledInv, Decisions

\* Steps of the job that end it, or go on with a message that is not settled.
LEMMA SettledProcess ==
  ASSUME TypeInv, SettledInv, job.at # "idle", UNCHANGED <<admin, tasks, done>>,
         raced' = raced \/ raced' = raced \cup {job.msg},
         \A m \in Messages \ {job.msg} : rec'[m] = rec[m],
         rec'[job.msg].ids = rec[job.msg].ids,
         job.at = "start" => UNCHANGED rec \/ ~Finished(job.msg),
         \/ UNCHANGED rec
         \/ ApiSource /\ rec'[job.msg].status = "filtered" =>
              job.msg \in raced' \/ Untouched(job.msg),
         \/ job'.at = "idle"
         \/ /\ job'.at \notin {"idle", "start"} /\ job'.msg = job.msg
            /\ job.at = "start" => ~Finished(job.msg)
            /\ UNCHANGED rec \/ ~(ApiSource /\ rec'[job.msg].status = "filtered")
            /\ ApiSource /\ job'.at = "review" =>
                 /\ rec'[job.msg].status = "pending_review"
                 /\ job.msg \in raced' \/ Untouched(job.msg)
  PROVE  SettledInv' /\ Decisions
<1>1. job.msg \in Messages
  BY DEF TypeInv, JobIsSet
<1>2. \A m : Untouched(m)' <=> Untouched(m)
  BY DEF Untouched, ToOverwrite
<1>3. \/ job.msg \in raced
      \/ UNCHANGED rec /\ job.at = "start"
      \/ job.msg \notin done /\ ~Decided(job.msg)
  <2>1. CASE job.at = "start"
    BY <1>1, <2>1 DEF SettledInv, SettledRow, Finished, Decided
  <2>2. CASE job.at # "start"
    BY <2>2 DEF SettledInv, SettledJob, InFlight
  <2> QED BY <2>1, <2>2
<1>4. \A m \in Messages \ raced' : SettledRow(m)'
  <2> TAKE m \in Messages \ raced'
  <2>1. m \notin raced /\ SettledRow(m)
    BY DEF SettledInv
  <2>2. CASE m # job.msg
    BY <1>2, <2>1, <2>2 DEF SettledRow
  <2>3. CASE m = job.msg
    <3>1. CASE UNCHANGED rec
      BY <1>2, <2>1, <3>1 DEF SettledRow
    <3>2. CASE ~UNCHANGED rec
      BY <1>2, <1>3, <2>1, <2>3, <3>2 DEF SettledRow, Decided
    <3> QED BY <3>1, <3>2
  <2> QED BY <2>2, <2>3
<1>5. SettledCopies'
  BY <1>1 DEF SettledInv, SettledCopies
<1>6. SettledJob'
  <2>1. CASE job'.at = "idle"
    BY <2>1 DEF SettledJob, InFlight
  <2>2. CASE job'.at # "idle"
    <3>1. job.msg \in raced \/ (job.msg \notin done /\ ~Decided(job.msg))
      <4>1. CASE job.at = "start"
        BY <1>1, <2>2, <4>1 DEF SettledInv, SettledRow, Finished, Decided
      <4>2. CASE job.at # "start"
        BY <4>2 DEF SettledInv, SettledJob, InFlight
      <4> QED BY <4>1, <4>2
    <3>2. job.msg \notin raced' => ~Decided(job.msg)'
      BY <2>2, <3>1 DEF Decided
    <3> QED BY <1>2, <2>2, <3>1, <3>2 DEF SettledJob, InFlight
  <2> QED BY <2>1, <2>2
<1>7. Decisions
  BY <1>1, <1>3 DEF Decisions
<1> QED BY <1>4, <1>5, <1>6, <1>7 DEF SettledInv

\* The steps of process_one; two of them settle a message.
LEMMA ProcessSettled ==
  ASSUME TypeInv, SettledInv, ProcessStep
  PROVE  SettledInv' /\ Decisions
<1> job.at # "idle" /\ job.msg \in Messages /\ job \in Jobs /\ rec \in [Messages -> Record]
  <2>1. job.at # "idle"
    BY DEF ProcessStep, Start, Materialize, Decide, CreateTask, Resolve, MarkPublishing,
           CheckEndpoint, DeliverToApi, CheckRoute, Send, Conclude, ReadSource, ReadLinks,
           Refreshes
  <2> QED BY <2>1 DEF TypeInv, TypeOK, JobIsSet
<1>0. Return => job'.at = "idle"
  BY NoJobType DEF Return
<1>1. ASSUME NEW at, Goto(at)  PROVE job'.at = at /\ job'.msg = job.msg
  BY <1>1 DEF Goto, Jobs
<1>2. \A s, n : Store(job.msg, s, n) =>
        /\ rec'[job.msg].status = s /\ rec'[job.msg].ids = rec[job.msg].ids
        /\ \A m \in Messages \ {job.msg} : rec'[m] = rec[m]
  BY DEF Store, Record
<1>3. \A s : SetStatus(job.msg, s) =>
        /\ rec'[job.msg].status = s /\ rec'[job.msg].ids = rec[job.msg].ids
        /\ \A m \in Messages \ {job.msg} : rec'[m] = rec[m]
  BY DEF SetStatus, Record
<1>4. MarkRetry(job.msg) =>
        /\ job'.at = "idle" /\ rec'[job.msg].ids = rec[job.msg].ids
        /\ rec'[job.msg].status \in {"failed", "retrying"}
        /\ \A m \in Messages \ {job.msg} : rec'[m] = rec[m]
  BY <1>0 DEF MarkRetry, Record
<1>5. CASE Start
  <2>1. job.at = "start" /\ UNCHANGED <<admin, tasks, done, raced>>
    BY <1>5 DEF Start, ghosts
  <2>2. CASE Finished(job.msg)
    <3>1. Return /\ UNCHANGED rec
      BY <1>5, <2>2 DEF Start
    <3> QED BY <1>0, <2>1, <3>1, SettledProcess
  <2>3. CASE ~Finished(job.msg)
    <3>1. \/ Store(job.msg, "failed", job.footers) /\ Return
          \/ /\ Store(job.msg, "processing", job.footers)
             /\ job' = [job EXCEPT !.at = "materialize", !.load = NotLoading]
      BY <1>5, <2>3 DEF Start
    <3>2. job' = [job EXCEPT !.at = "materialize", !.load = NotLoading] =>
            job'.at = "materialize" /\ job'.msg = job.msg
      BY DEF Jobs
    <3> QED BY <1>0, <1>2, <2>1, <2>3, <3>1, <3>2, SettledProcess
  <2> QED BY <2>2, <2>3
<1>6. CASE Materialize
  <2>1. job.at = "materialize" /\ UNCHANGED <<admin, tasks, done, raced>>
        /\ \/ Goto("pipeline") /\ UNCHANGED rec
           \/ SetStatus(job.msg, "failed") /\ Return
    BY <1>6 DEF Materialize, ghosts
  <2> QED BY <1>0, <1>1, <1>3, <2>1, SettledProcess
<1>7. CASE Decide
  <2>1. job.at = "pipeline" /\ UNCHANGED <<admin, tasks, done>> /\ Race(job.msg)
        /\ Unlocked(job.msg)
    BY <1>7 DEF Decide
  <2>2. \/ \E s \in {"filtered", "failed"} : SetStatus(job.msg, s) /\ Return
        \/ \E n : Store(job.msg, "pending_review", n) /\ Goto("review")
        \/ /\ Store(job.msg, "pending_publish", job.footers + 1)
           /\ Return \/ job' = [job EXCEPT !.at = "resolve", !.footers = job.footers + 1]
    BY <1>7 DEF Decide
  <2>3. job' = [job EXCEPT !.at = "resolve", !.footers = job.footers + 1] =>
          job'.at = "resolve" /\ job'.msg = job.msg
    BY DEF Jobs
  <2>4. /\ raced' = raced \/ raced' = raced \cup {job.msg}
        /\ ApiSource /\ rec'[job.msg].status \in {"filtered", "pending_review"} =>
             job.msg \in raced' \/ Untouched(job.msg)
    BY <2>1 DEF Race, Settled, Untouched, Unlocked
  <2> QED BY <1>0, <1>1, <1>2, <1>3, <2>1, <2>2, <2>3, <2>4, SettledProcess
<1>8. CASE CreateTask
  <2>1. /\ job.at = "review" /\ tasks' = tasks \cup {job.msg} /\ job'.at = "idle"
        /\ UNCHANGED <<rec, admin, done, raced>>
    BY <1>0, <1>8 DEF CreateTask, ghosts
  <2>2. \A m : Untouched(m)' <=> Untouched(m)
    BY <2>1 DEF Untouched, ToOverwrite
  <2>3. ApiSource /\ job.msg \notin raced =>
          rec[job.msg].status = "pending_review" /\ Untouched(job.msg)
    BY <2>1 DEF SettledInv, SettledJob
  <2>4. \A m \in Messages \ raced : SettledRow(m)'
    BY <2>1, <2>2, <2>3 DEF SettledInv, SettledRow
  <2> QED BY <2>1, <2>4 DEF SettledInv, SettledCopies, SettledJob, InFlight, Decisions
<1>9. CASE Resolve
  <2>1. job.at = "resolve" /\ UNCHANGED <<admin, tasks, done, raced>>
        /\ \/ MarkRetry(job.msg)
           \/ Store(job.msg, "failed", job.footers) /\ Return
           \/ /\ job' = [job EXCEPT !.at = "mark", !.load = NotLoading,
                                    !.routes = cache.bound, !.api = EndpointActive]
              /\ UNCHANGED rec
    BY <1>9 DEF Resolve
  <2>2. job' = [job EXCEPT !.at = "mark", !.load = NotLoading,
                           !.routes = cache.bound, !.api = EndpointActive] =>
          job'.at = "mark" /\ job'.msg = job.msg
    BY DEF Jobs
  <2> QED BY <1>0, <1>2, <1>4, <2>1, <2>2, SettledProcess
<1>10. CASE MarkPublishing
  <2>1. job.at = "mark" /\ UNCHANGED <<admin, tasks, done, raced>>
        /\ \/ Return /\ UNCHANGED rec
           \/ SetStatus(job.msg, "publishing") /\ Goto("api")
    BY <1>10 DEF MarkPublishing, ghosts
  <2> QED BY <1>0, <1>1, <1>3, <2>1, SettledProcess
<1>11. CASE CheckEndpoint \/ DeliverToApi \/ (\E t \in Targets : CheckRoute(t)) \/ Send
  <2>1. /\ job.at \in {"api", "insert", "routes", "send"}
        /\ UNCHANGED <<rec, admin, tasks, done, raced>>
        /\ job'.at \in {"insert", "routes", "send"} /\ job'.msg = job.msg
    <3>1. CASE CheckEndpoint \/ DeliverToApi
      BY <3>1 DEF CheckEndpoint, DeliverToApi, Jobs, ghosts
    <3>2. CASE \E t \in Targets : CheckRoute(t)
      <4>1. PICK t \in Targets : CheckRoute(t)
        BY <3>2
      <4>2. job.at = "routes" /\ UNCHANGED <<rec, admin, tasks, done, raced>>
        BY <4>1 DEF CheckRoute, ghosts
      <4> QED BY <4>1, <4>2, CheckRouteJob DEF Jobs
    <3>3. CASE Send
      BY <3>3 DEF Send, Jobs
    <3> QED BY <1>11, <3>1, <3>2, <3>3
  <2> QED BY <2>1, SettledProcess
<1>12. CASE Conclude
  <2>1. job.at = "routes" /\ UNCHANGED <<admin, tasks>> /\ Race(job.msg)
    BY <1>12 DEF Conclude
  <2>2. CASE /\ rec' = [rec EXCEPT ![job.msg].status = "published", ![job.msg].ids = job.ids]
             /\ done' = done \cup {job.msg} /\ Return /\ Unlocked(job.msg)
    <3>1. /\ rec'[job.msg].status = "published"
          /\ \A m \in Messages \ {job.msg} : rec'[m] = rec[m]
      BY <2>2 DEF Record
    <3>2. job.msg \in raced \/ (job.msg \notin done /\ ~Decided(job.msg))
      BY <2>1 DEF SettledInv, SettledJob, InFlight
    <3>3. /\ raced' = raced \/ raced' = raced \cup {job.msg}
          /\ job.msg \in raced' \/ Untouched(job.msg)
      BY <2>1, <2>2, <3>1 DEF Race, Settled, Untouched, Unlocked
    <3>4. \A m : Untouched(m)' <=> Untouched(m)
      BY <2>1 DEF Untouched, ToOverwrite
    <3>5. \A m \in Messages \ raced' : SettledRow(m)'
      <4> TAKE m \in Messages \ raced'
      <4>1. m \notin raced /\ SettledRow(m)
        BY <3>3 DEF SettledInv
      <4>2. CASE m # job.msg
        BY <2>1, <2>2, <3>1, <3>4, <4>1, <4>2 DEF SettledRow
      <4>3. CASE m = job.msg
        BY <2>1, <3>1, <3>2, <3>3, <3>4, <4>1, <4>3 DEF SettledRow, Decided
      <4> QED BY <4>2, <4>3
    <3>6. SettledCopies'
      BY <2>1, <2>2, <3>1, <3>3 DEF SettledInv, SettledCopies
    <3>7. Decisions
      BY <3>1, <3>2 DEF Decisions
    <3> QED BY <1>0, <2>2, <3>5, <3>6, <3>7 DEF SettledInv, SettledJob, InFlight
  <2>3. CASE /\ UNCHANGED done
             /\ MarkRetry(job.msg) \/ (Store(job.msg, "failed", job.footers) /\ Return)
    <3>1. raced' = raced \/ raced' = raced \cup {job.msg}
      BY <2>1 DEF Race
    <3> QED BY <1>0, <1>2, <1>4, <2>1, <2>3, <3>1, SettledProcess
  <2> QED BY <1>12, <2>2, <2>3 DEF Conclude
<1>13. CASE ReadSource \/ ReadLinks
  <2>1. /\ UNCHANGED <<rec, tasks, done, raced, admin>>
        /\ job'.at = job.at /\ job'.msg = job.msg
    BY <1>13 DEF ReadSource, ReadLinks, Jobs, ghosts
  <2>2. \A m \in Messages : rec'[m].ids = rec[m].ids /\ rec'[m].status = rec[m].status
    BY <2>1
  <2> QED BY <2>1, <2>2, SettledQuiet
<1> QED BY <1>5, <1>6, <1>7, <1>8, <1>9, <1>10, <1>11, <1>12, <1>13 DEF ProcessStep

\* A command selects no row at rest: what it finds with target_message_ids was put back.
LEMMA SelectSettled ==
  ASSUME TypeInv, SettledInv, UNCHANGED <<rec, tasks, done, raced>>,
         job' = job \/ job'.at = "idle",
         NEW kind, NEW statuses, Select(kind, statuses),
         statuses \cap {"published", "filtered", "pending_review"} = {}
  PROVE  SettledInv' /\ Decisions
<1>1. /\ admin'.todo = Snapshot(statuses) /\ admin'.held = NoRows /\ DOMAIN NoRows = {}
  BY NoCommandType DEF Select
<1>2. /\ DOMAIN admin'.todo = {x \in Messages : rec[x].status \in statuses}
      /\ \A x \in DOMAIN admin'.todo : admin'.todo[x] = rec[x]
  BY <1>1 DEF Snapshot
<1>3. \A m \in Messages \ raced :
        rec[m].status \in {"published", "filtered", "pending_review"} => Untouched(m)'
  BY <1>1, <1>2 DEF Untouched, ToOverwrite
<1>4. \A m \in DOMAIN admin'.todo : admin'.todo[m].ids => m \in raced
  BY <1>2 DEF SettledInv, SettledCopies, SettledRow
<1>5. SettledCopies'
  BY <1>1, <1>4 DEF SettledInv, SettledCopies
<1> QED BY <1>3, <1>5, SettledCommand

\* What one record of a command does to its copies.
LEMMA OneRecord ==
  ASSUME TypeInv, SettledInv, NEW m \in Messages, RecoverOne(m) \/ RetryOne(m)
  PROVE  /\ admin'.kind = admin.kind
         /\ DOMAIN admin'.todo \subseteq DOMAIN admin.todo
         /\ \A x \in DOMAIN admin'.todo : admin'.todo[x] = admin.todo[x]
         /\ \/ admin'.held = admin.held
            \/ /\ \E s \in {"published", "retrying", "pending_publish"} :
                    admin'.held = Hold(m, s)
               /\ m \in raced \/ ToOverwrite(m)
<1>1. PICK a : a = admin /\ a = [kind |-> a.kind, todo |-> a.todo, held |-> a.held]
  BY DEF TypeInv, CommandIsRecord
<1>2. /\ DOMAIN Without(a.todo, m) \subseteq DOMAIN a.todo /\ DOMAIN NoRows = {}
      /\ \A x \in DOMAIN Without(a.todo, m) : Without(a.todo, m)[x] = a.todo[x]
  BY NoCommandType DEF Without
<1>3. m \in DOMAIN a.todo
  BY <1>1 DEF RecoverOne, RetryOne, AtRecord
<1>4. CASE RecoverOne(m)
  <2>1. CASE admin' = [admin EXCEPT !.held = Hold(m, "published"),
                                    !.todo = Without(@, m)]
             /\ a.todo[m].ids
    <3>1. admin' = [kind |-> a.kind, todo |-> Without(a.todo, m),
                    held |-> Hold(m, "published")]
      BY <1>1, <2>1
    <3>2. m \in raced
      BY <1>1, <1>3, <2>1 DEF SettledInv, SettledCopies
    <3> QED BY <1>1, <1>2, <3>1, <3>2
  <2>2. CASE admin' = [admin EXCEPT
                !.held = IF admin.todo[m].status = "publishing"
                         THEN Hold(m, "retrying") ELSE @,
                !.todo = IF Room THEN Without(@, m) ELSE NoRows]
    <3>1. admin' = [kind |-> a.kind,
                    todo |-> IF Room THEN Without(a.todo, m) ELSE NoRows,
                    held |-> IF admin.todo[m].status = "publishing"
                             THEN Hold(m, "retrying") ELSE a.held]
      BY <1>1, <2>2
    <3>2. /\ admin'.kind = a.kind
          /\ admin'.todo = Without(a.todo, m) \/ admin'.todo = NoRows
      BY <3>1
    <3>3. \/ admin'.held = a.held
          \/ admin'.held = Hold(m, "retrying") /\ ToOverwrite(m)
      BY <1>1, <1>3, <3>1 DEF ToOverwrite
    <3> QED BY <1>1, <1>2, <3>2, <3>3
  <2> QED BY <1>1, <1>4, <2>1, <2>2 DEF RecoverOne
<1>5. CASE RetryOne(m)
  <2>1. ToOverwrite(m)
    BY <1>1, <1>3, <1>5 DEF RetryOne, ToOverwrite
  <2>2. \/ admin' = [admin EXCEPT !.todo = Without(@, m)]
        \/ admin' = [admin EXCEPT !.held = Hold(m, "pending_publish")]
    BY <1>5 DEF RetryOne
  <2>3. \/ admin' = [kind |-> a.kind, todo |-> Without(a.todo, m), held |-> a.held]
        \/ admin' = [kind |-> a.kind, todo |-> a.todo, held |-> Hold(m, "pending_publish")]
    BY <1>1, <2>2
  <2> QED BY <1>1, <1>2, <2>1, <2>3
<1> QED BY <1>4, <1>5

LEMMA OneRecordSettled ==
  ASSUME TypeInv, SettledInv, NEW m \in Messages, RecoverOne(m) \/ RetryOne(m)
  PROVE  SettledInv' /\ Decisions
<1>1. UNCHANGED <<rec, tasks, done, raced, job>>
  BY DEF RecoverOne, RetryOne, ghosts
<1>2. /\ \A s : DOMAIN Hold(m, s) = DOMAIN admin.held \cup {m}
      /\ \A s : \A x \in DOMAIN Hold(m, s) :
           Hold(m, s)[x] = IF x = m THEN s ELSE admin.held[x]
  BY DEF Hold
<1>3. \A x \in Messages \ raced : Untouched(x) => Untouched(x)'
  BY <1>2, OneRecord DEF Untouched, ToOverwrite
<1>4. SettledCopies'
  BY <1>1, <1>2, OneRecord DEF SettledInv, SettledCopies
<1> QED BY <1>1, <1>3, <1>4, SettledCommand

LEMMA SettledStep ==
  ASSUME TypeInv, SettledInv, [Next]_vars
  PROVE  SettledInv' /\ Decisions
<1>1. ASSUME NEW m \in Messages, Arrive(m)  PROVE SettledInv' /\ Decisions
  <2>1. UNCHANGED <<tasks, done, raced, job, admin>> /\ rec \in [Messages -> Record]
    BY <1>1 DEF Arrive, ghosts, TypeInv, TypeOK
  <2>2. \A x \in Messages :
          /\ rec'[x].ids = rec[x].ids
          /\ \/ rec'[x].status = rec[x].status
             \/ rec[x].status = "none" /\ rec'[x].status = "received"
    <3>1. CASE Durable \/ Owned(m) \/ rec[m].status \in Underway
      <4>1. UNCHANGED rec
        BY <1>1, <3>1 DEF Arrive, Enqueue
      <4> QED BY <4>1
    <3>2. CASE ~(Durable \/ Owned(m) \/ rec[m].status \in Underway)
      <4>1. rec' = [rec EXCEPT ![m].footers = 0,
                               ![m].status = IF @ = "none" THEN "received" ELSE @]
        BY <1>1, <3>2 DEF Arrive, Enqueue
      <4>2. /\ \A x \in Messages \ {m} : rec'[x] = rec[x]
            /\ rec'[m].ids = rec[m].ids
            /\ rec'[m].status = IF rec[m].status = "none" THEN "received"
                                                        ELSE rec[m].status
        BY <2>1, <4>1 DEF Record
      <4> QED BY <4>2
    <3> QED BY <3>1, <3>2
  <2> QED BY <2>1, <2>2, SettledQuiet
<1>2. CASE HandleIncoming \/ WorkerTakes
  <2>1. /\ job.at = "idle" /\ UNCHANGED <<rec, tasks, done, raced, admin>>
        /\ job' = job \/ job'.at = "start"
    BY <1>2 DEF HandleIncoming, WorkerTakes, MayStart, Take, NoJob, ghosts
  <2>2. \A m : Untouched(m)' <=> Untouched(m)
    BY <2>1 DEF Untouched, ToOverwrite
  <2> QED BY <2>1, <2>2
          DEF SettledInv, SettledRow, SettledCopies, SettledJob, InFlight, Decisions
<1>3. CASE ProcessStep
  BY <1>3, ProcessSettled
<1>4. CASE Recover \/ RetryFailed \/ Boot
  <2>1. /\ Recoverable \cap {"published", "filtered", "pending_review"} = {}
        /\ {"failed", "retrying"} \cap {"published", "filtered", "pending_review"} = {}
    BY DEF Recoverable
  <2>2. /\ UNCHANGED <<rec, tasks, done, raced, job>>
        /\ Select("recover", Recoverable) \/ Select("retry", {"failed", "retrying"})
    BY <1>4 DEF Recover, RetryFailed, Boot, ghosts
  <2> QED BY <2>1, <2>2, SelectSettled
<1>5. ASSUME NEW m \in Messages, RecoverOne(m) \/ RetryOne(m)
      PROVE  SettledInv' /\ Decisions
  BY <1>5, OneRecordSettled
<1>6. CASE CommitCommand
  <2>1. /\ UNCHANGED <<tasks, done, raced, job>> /\ admin' = NoCommand
        /\ rec' = [m \in Messages |-> IF m \in DOMAIN admin.held
                                      THEN [rec[m] EXCEPT !.status = admin.held[m]] ELSE rec[m]]
        /\ rec \in [Messages -> Record]
    BY <1>6 DEF CommitCommand, ghosts, TypeInv, TypeOK
  <2>2. \A m \in Messages :
          /\ rec'[m].ids = rec[m].ids
          /\ m \notin DOMAIN admin.held => rec'[m] = rec[m]
          /\ m \in DOMAIN admin.held =>
               rec'[m].status \in {"published", "retrying", "pending_publish"}
    BY <2>1 DEF Record, SettledInv, SettledCopies
  <2>3. \A m : Untouched(m)'
    BY <2>1, NoCommandType DEF Untouched, ToOverwrite
  <2>4. \A m \in Messages \ raced : SettledRow(m)'
    BY <2>1, <2>2, <2>3 DEF SettledInv, SettledRow, Untouched
  <2>5. SettledCopies'
    BY <2>1, <2>2, NoCommandType DEF SettledInv, SettledCopies
  <2>6. SettledJob'
    <3>1. job.at # "idle" => job.msg \in Messages
      BY DEF TypeInv, JobIsSet
    <3> QED BY <2>1, <2>2, <2>3, <3>1
            DEF SettledInv, SettledJob, InFlight, Decided, Untouched
  <2>7. Decisions
    BY <2>2 DEF SettledInv, SettledRow, Decisions, Decided, Untouched
  <2> QED BY <2>1, <2>4, <2>5, <2>6, <2>7 DEF SettledInv
<1>7. CASE \/ Reroute \/ SetPaused \/ RefreshPaused \/ UNCHANGED vars
           \/ \E t \in Others : OtherReads(t) \/ OtherApplies(t)
  <2>1. UNCHANGED <<rec, tasks, done, raced, job, admin>>
    BY <1>7 DEF Reroute, SetPaused, RefreshPaused, OtherReads, OtherApplies, vars, ghosts
  <2>2. \A m \in Messages : rec'[m].ids = rec[m].ids /\ rec'[m].status = rec[m].status
    BY <2>1
  <2> QED BY <2>1, <2>2, SettledQuiet
<1>8. CASE Raise \/ Crash
  <2>1. /\ UNCHANGED <<rec, tasks, done, raced>> /\ job'.at = "idle"
        /\ admin' = admin \/ admin' = NoCommand
    BY <1>8, NoJobType DEF Raise, Crash, ghosts
  <2>2. \A m : Untouched(m) => Untouched(m)'
    BY <2>1, NoCommandType DEF Untouched, ToOverwrite
  <2>3. SettledCopies'
    BY <2>1, NoCommandType DEF SettledInv, SettledCopies
  <2> QED BY <2>1, <2>2, <2>3, SettledCommand
<1> QED BY <1>1, <1>2, <1>3, <1>4, <1>5, <1>6, <1>7, <1>8 DEF Next, CommandStep

\* A message whose record was published is sent to nobody again: recover_pending and
\* retry_failed do not select it, and process_one leaves it alone whatever queue or stream
\* brings it back.  The one exception is a command that had selected the row before, and
\* was still to write its status when process_one published it.
THEOREM PublishedStaysSent == Spec => NoResend
<1>1. Init => TypeInv /\ SettledInv
  BY TypeInit, SettledInit
<1>2. TypeInv /\ SettledInv /\ [Next]_vars => (TypeInv /\ SettledInv)'
  BY TypeStep, SettledStep
<1>3. TypeInv /\ SettledInv /\ [Next]_vars
        => [\A m \in Messages, t \in Targets : Sends(m, t) => m \notin done \ raced]_vars
  BY SendsWhere DEF SettledInv, SettledJob, InFlight
<1> QED BY <1>1, <1>2, <1>3, PTL DEF Spec, NoResend

\* For an ingest registration no redelivery, recovery or retry changes the status of a
\* record that a review task or a filter has decided on (process_one, enqueue, retry_failed),
\* with the same exception.
THEOREM DecisionsOfApiStand == Spec => ApiDecisionsStand
<1>1. Init => TypeInv /\ SettledInv
  BY TypeInit, SettledInit
<1>2. TypeInv /\ SettledInv /\ [Next]_vars => (TypeInv /\ SettledInv)'
  BY TypeStep, SettledStep
<1>3. TypeInv /\ SettledInv /\ [Next]_vars
        => [\A m \in Messages \ raced :
              ApiSource /\ (m \in tasks \/ rec[m].status = "filtered") =>
                rec'[m].status = rec[m].status]_vars
  BY SettledStep DEF Decisions, Decided
<1> QED BY <1>1, <1>2, <1>3, PTL DEF Spec, ApiDecisionsStand
=============================================================================
