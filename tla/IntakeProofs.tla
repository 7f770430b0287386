------------------------------ MODULE IntakeProofs ------------------------------
(***************************************************************************)
(* Proofs about the two ways into the incoming stream: IngestReceipts, for *)
(* any number of requests and contents under one key and any number of     *)
(* failures; and SourceIntake, here the instance Intake, for any sources,  *)
(* messages and reloading tasks.                                           *)
(***************************************************************************)
EXTENDS IngestReceipts, Sequences, SequenceTheorems, TLAPS

CONSTANTS Source, TgSource, Message, SourceOf, Task, Incoming, MaxEdits

VARIABLES row, receiver, subscribed, where, stream, handler, cache, load, due, edits,
          settings, owed

\* The two specifications are never used together; the name faults serves both.
Intake == INSTANCE SourceIntake

-----------------------------------------------------------------------------
(* The inductive invariant. *)

\* Who enqueues, or looks why the worker refused, holds a lease that is good.
LeaseInv ==
  \A r \in Requests :
    at[r] \in {"enqueue", "inspect"} => receipt.lease = r /\ ~receipt.expired

\* Places behind the comparison of the contents.
Compared == {"look", "claim", "enqueue", "inspect", "conclude", "release"}

\* Who has come past the comparison, or was told accepted, submits the content of
\* the receipt.
ContentInv ==
  \A r \in Requests :
    at[r] \in Compared \/ answer[r] = "accepted" =>
      receipt.status # "none" /\ content[r] = receipt.content

\* Whatever says that the message was taken is true.
TakenInv ==
  /\ receipt.status = "queued" => enqueued > 0
  /\ \A r \in Requests : at[r] = "conclude" \/ answer[r] = "accepted" => enqueued > 0
  /\ record \in Worked \/ task => enqueued > 0

\* No request that holds a good lease is about to conclude.
Unclaimed ==
  \A r \in Requests : at[r] = "conclude" => receipt.lease # r \/ receipt.expired

\* Each repetition has its failure; so has the first time, while the receipt is not
\* queued and nobody is about to make it so.
RepeatInv ==
  durable => /\ enqueued <= 1 + faults
             /\ receipt.status # "queued" /\ Unclaimed => enqueued <= faults

Invariants == TypeOK /\ LeaseInv /\ ContentInv /\ TakenInv /\ RepeatInv

-----------------------------------------------------------------------------
(* Types. *)

LEMMA InitType == Init => TypeOK
<1> SUFFICES ASSUME Init PROVE TypeOK
  OBVIOUS
<1>1. receipt \in Receipts
  BY DEF Init, NoReceipt, Receipts
<1>2. at \in [Requests -> Places] /\ answer \in [Requests -> Answers]
  BY DEF Init, Places, Answers
<1> QED BY <1>1, <1>2 DEF Init, TypeOK, NoReceipt

LEMMA HandleType ==
  ASSUME TypeOK, NEW r \in Requests, Handle(r)
  PROVE  TypeOK'
<1> USE IngestAssumption DEF TypeOK, Goto, Answer, Receipts, Places, Answers, Worked, rest
<1>1. CASE Lookup(r)
  BY <1>1 DEF Lookup, Compare
<1>2. CASE Insert(r)
  BY <1>2 DEF Insert, Compare, NoReceipt
<1>3. CASE Look(r)
  BY <1>3 DEF Look
<1>4. CASE Claim(r)
  BY <1>4 DEF Claim, Claimable
<1>5. CASE Publish(r)
  BY <1>5 DEF Publish
<1>6. CASE EnqueueLocally(r)
  BY <1>6 DEF EnqueueLocally
<1>7. CASE Inspect(r)
  BY <1>7 DEF Inspect
<1>8. CASE Conclude(r)
  BY <1>8 DEF Conclude
<1>9. CASE Release(r)
  BY <1>9 DEF Release
<1> QED BY <1>1, <1>2, <1>3, <1>4, <1>5, <1>6, <1>7, <1>8, <1>9 DEF Handle

LEMMA NextType == TypeOK /\ [Next]_vars => TypeOK'
<1> SUFFICES ASSUME TypeOK, [Next]_vars PROVE TypeOK'
  OBVIOUS
<1> USE IngestAssumption DEF TypeOK, Goto, Answer, Receipts, Places, Answers, Worked,
        rest, Fault
<1>1. ASSUME NEW r \in Requests, Submit(r) PROVE TypeOK'
  BY <1>1 DEF Submit
<1>2. ASSUME NEW r \in Requests, Handle(r) PROVE TypeOK'
  BY <1>2, HandleType
<1>3. ASSUME NEW r \in Requests, EnqueueFails(r) PROVE TypeOK'
  BY <1>3 DEF EnqueueFails, Leftover
<1>4. ASSUME NEW r \in Requests, ConcludeFails(r) \/ Die(r) PROVE TypeOK'
  BY <1>4 DEF ConcludeFails, Die
<1>5. CASE Expire
  <2>1. /\ receipt.lease # NoRequest
        /\ receipt' = [receipt EXCEPT !.expired = TRUE]
        /\ UNCHANGED <<at, answer, enqueued, content, durable, record, task>>
    BY <1>5 DEF Expire
  <2>2. faults' \in Nat
    BY <1>5 DEF Expire
  <2> QED BY <2>1, <2>2
<1>6. CASE Work
  BY <1>6 DEF Work
<1>7. CASE Recover
  BY <1>7 DEF Recover
<1>8. CASE UNCHANGED vars
  BY <1>8 DEF vars
<1> QED BY <1>1, <1>2, <1>3, <1>4, <1>5, <1>6, <1>7, <1>8 DEF Next

-----------------------------------------------------------------------------
(* The steps of a request.  Each preserves the invariants. *)

LEMMA HandleInv ==
  ASSUME Invariants, NEW r \in Requests, Handle(r)
  PROVE  LeaseInv' /\ ContentInv' /\ TakenInv' /\ RepeatInv'
<1> USE IngestAssumption DEF Invariants, TypeOK, Receipts, Goto, Answer, rest
<1>1. CASE Lookup(r)
  <2>1. LeaseInv'
    BY <1>1 DEF LeaseInv, Lookup, Compare
  <2>2. ContentInv'
    BY <1>1 DEF ContentInv, Compared, Lookup, Compare
  <2>3. TakenInv'
    BY <1>1 DEF TakenInv, LeaseInv, Lookup, Compare
  <2>4. RepeatInv'
    BY <1>1 DEF RepeatInv, Unclaimed, LeaseInv, Lookup, Compare
  <2> QED BY <2>1, <2>2, <2>3, <2>4
<1>2. CASE Insert(r)
  <2>1. LeaseInv'
    BY <1>2 DEF LeaseInv, Insert, Compare, NoReceipt
  <2>2. ContentInv'
    BY <1>2 DEF ContentInv, Compared, Insert, Compare, NoReceipt
  <2>3. TakenInv'
    BY <1>2 DEF TakenInv, LeaseInv, Insert, Compare, NoReceipt
  <2>4. RepeatInv'
    BY <1>2 DEF RepeatInv, Unclaimed, LeaseInv, Insert, Compare, NoReceipt
  <2> QED BY <2>1, <2>2, <2>3, <2>4
<1>3. CASE Look(r)
  <2>1. LeaseInv'
    BY <1>3 DEF LeaseInv, Look
  <2>2. ContentInv'
    BY <1>3 DEF ContentInv, Compared, Look
  <2>3. TakenInv'
    BY <1>3 DEF TakenInv, LeaseInv, Look
  <2>4. RepeatInv'
    BY <1>3 DEF RepeatInv, Unclaimed, LeaseInv, Look
  <2> QED BY <2>1, <2>2, <2>3, <2>4
<1>4. CASE Claim(r)
  <2>1. LeaseInv'
    BY <1>4 DEF LeaseInv, Claim, Claimable
  <2>2. ContentInv'
    BY <1>4 DEF ContentInv, Compared, Claim, Claimable
  <2>3. TakenInv'
    BY <1>4 DEF TakenInv, LeaseInv, Claim, Claimable
  <2>4. RepeatInv'
    BY <1>4 DEF RepeatInv, Unclaimed, LeaseInv, Claim, Claimable
  <2> QED BY <2>1, <2>2, <2>3, <2>4
<1>5. CASE Publish(r)
  <2>1. LeaseInv'
    BY <1>5 DEF LeaseInv, Publish
  <2>2. ContentInv'
    BY <1>5 DEF ContentInv, Compared, Publish
  <2>3. TakenInv'
    BY <1>5 DEF TakenInv, LeaseInv, Publish
  <2>4. RepeatInv'
    BY <1>5 DEF RepeatInv, Unclaimed, LeaseInv, Publish
  <2> QED BY <2>1, <2>2, <2>3, <2>4
<1>6. CASE EnqueueLocally(r)
  <2>1. LeaseInv'
    BY <1>6 DEF LeaseInv, EnqueueLocally, Worked
  <2>2. ContentInv'
    BY <1>6 DEF ContentInv, Compared, EnqueueLocally, Worked
  <2>3. TakenInv'
    BY <1>6 DEF TakenInv, LeaseInv, EnqueueLocally, Worked
  <2>4. RepeatInv'
    BY <1>6 DEF RepeatInv, Unclaimed, LeaseInv, EnqueueLocally, Worked
  <2> QED BY <2>1, <2>2, <2>3, <2>4
<1>7. CASE Inspect(r)
  <2>1. LeaseInv'
    BY <1>7 DEF LeaseInv, Inspect, HasReachedWorker, Underway, Worked
  <2>2. ContentInv'
    BY <1>7 DEF ContentInv, Compared, Inspect, HasReachedWorker, Underway, Worked
  <2>3. TakenInv'
    BY <1>7 DEF TakenInv, LeaseInv, Inspect, HasReachedWorker, Underway, Worked
  <2>4. RepeatInv'
    BY <1>7 DEF RepeatInv, Unclaimed, LeaseInv, Inspect, HasReachedWorker, Underway, Worked
  <2> QED BY <2>1, <2>2, <2>3, <2>4
<1>8. CASE Conclude(r)
  <2>1. LeaseInv'
    BY <1>8 DEF LeaseInv, Conclude, Holds
  <2>2. ContentInv'
    BY <1>8 DEF ContentInv, Compared, Conclude, Holds
  <2>3. TakenInv'
    BY <1>8 DEF TakenInv, LeaseInv, Conclude, Holds
  <2>4. RepeatInv'
    BY <1>8 DEF RepeatInv, Unclaimed, LeaseInv, Conclude, Holds
  <2> QED BY <2>1, <2>2, <2>3, <2>4
<1>9. CASE Release(r)
  <2>1. LeaseInv'
    BY <1>9 DEF LeaseInv, Release, Holds
  <2>2. ContentInv'
    BY <1>9 DEF ContentInv, Compared, Release, Holds
  <2>3. TakenInv'
    BY <1>9 DEF TakenInv, LeaseInv, Release, Holds
  <2>4. RepeatInv'
    BY <1>9 DEF RepeatInv, Unclaimed, LeaseInv, Release, Holds
  <2> QED BY <2>1, <2>2, <2>3, <2>4
<1> QED BY <1>1, <1>2, <1>3, <1>4, <1>5, <1>6, <1>7, <1>8, <1>9 DEF Handle

LEMMA FailInv ==
  ASSUME Invariants, NEW r \in Requests,
         Submit(r) \/ EnqueueFails(r) \/ ConcludeFails(r) \/ Die(r)
  PROVE  LeaseInv' /\ ContentInv' /\ TakenInv' /\ RepeatInv'
<1> USE IngestAssumption DEF Invariants, TypeOK, Receipts, Goto, Answer, rest, Fault
<1>1. CASE Submit(r)
  BY <1>1 DEF Submit, LeaseInv, ContentInv, Compared, TakenInv, RepeatInv, Unclaimed
<1>2. CASE EnqueueFails(r)
  <2>1. LeaseInv' /\ ContentInv'
    BY <1>2 DEF EnqueueFails, Leftover, LeaseInv, ContentInv, Compared
  <2>2. TakenInv'
    BY <1>2 DEF EnqueueFails, Leftover, TakenInv, Worked
  <2>3. RepeatInv'
    BY <1>2 DEF EnqueueFails, Leftover, LeaseInv, RepeatInv, Unclaimed
  <2> QED BY <2>1, <2>2, <2>3
<1>3. CASE ConcludeFails(r)
  BY <1>3 DEF ConcludeFails, LeaseInv, ContentInv, Compared, TakenInv, RepeatInv
<1>4. CASE Die(r)
  BY <1>4 DEF Die, LeaseInv, ContentInv, Compared, TakenInv, RepeatInv
<1> QED BY <1>1, <1>2, <1>3, <1>4

LEMMA ExpireInv ==
  ASSUME Invariants, Expire
  PROVE  LeaseInv' /\ ContentInv' /\ TakenInv' /\ RepeatInv'
<1> USE IngestAssumption DEF Invariants, TypeOK, Receipts, rest, Fault
<1>1. /\ receipt.lease \in Requests
      /\ receipt' = [receipt EXCEPT !.expired = TRUE]
      /\ UNCHANGED <<at, answer, enqueued, content, durable, record, task>>
      /\ at[receipt.lease] \notin {"enqueue", "inspect"}
      /\ \/ at[receipt.lease] # "conclude" /\ faults' \in {faults, faults + 1}
         \/ faults' = faults + 1
  BY DEF Expire
<1>2. LeaseInv' /\ ContentInv' /\ TakenInv'
  BY <1>1 DEF LeaseInv, ContentInv, TakenInv
<1>3. RepeatInv'
  BY <1>1 DEF RepeatInv, Unclaimed
<1> QED BY <1>2, <1>3

LEMMA InvariantsInductive ==
  /\ Init => Invariants
  /\ Invariants /\ [Next]_vars => Invariants'
<1>1. Init => Invariants
  BY InitType, IngestAssumption
     DEF Init, Invariants, TypeOK, NoReceipt, LeaseInv, ContentInv, Compared, TakenInv,
         Worked, RepeatInv, Unclaimed
<1>2. ASSUME Invariants, [Next]_vars PROVE Invariants'
  <2>1. TypeOK'
    BY <1>2, NextType DEF Invariants
  <2>2. ASSUME NEW r \in Requests, Handle(r) PROVE Invariants'
    BY <1>2, <2>1, <2>2, HandleInv DEF Invariants
  <2>3. ASSUME NEW r \in Requests,
               Submit(r) \/ EnqueueFails(r) \/ ConcludeFails(r) \/ Die(r)
        PROVE  Invariants'
    BY <1>2, <2>1, <2>3, FailInv DEF Invariants
  <2>4. CASE Expire
    BY <1>2, <2>1, <2>4, ExpireInv DEF Invariants
  <2>5. CASE Work
    BY <1>2, <2>1, <2>5
       DEF Work, Invariants, LeaseInv, ContentInv, TakenInv, RepeatInv, Unclaimed
  <2>6. CASE Recover
    BY <1>2, <2>1, <2>6
       DEF Recover, rest, Invariants, LeaseInv, ContentInv, TakenInv, RepeatInv, Unclaimed
  <2>7. CASE UNCHANGED vars
    BY <1>2, <2>1, <2>7
       DEF vars, rest, Invariants, LeaseInv, ContentInv, TakenInv, RepeatInv, Unclaimed
  <2> QED BY <1>2, <2>2, <2>3, <2>4, <2>5, <2>6, <2>7 DEF Next
<1> QED BY <1>1, <1>2

LEMMA InvariantsHold == Spec => []Invariants
BY InvariantsInductive, PTL DEF Spec

-----------------------------------------------------------------------------
(* The theorems. *)

\* The row, the requests and the record have the values the code gives them, and
\* only a pending receipt has a lease.
THEOREM TypeCorrect == Spec => []TypeOK
<1>1. Invariants => TypeOK
  BY DEF Invariants
<1> QED BY <1>1, InvariantsHold, PTL

\* Two web workers never enqueue the same message at the same time: both would hold
\* the lease of the receipt.
THEOREM OneEnqueuesHolds == Spec => []OneEnqueues
<1>1. Invariants => OneEnqueues
  BY DEF Invariants, LeaseInv, OneEnqueues
<1> QED BY <1>1, InvariantsHold, PTL

\* A client that is told "accepted", or finds a queued receipt, has its message in
\* the stream or with the worker.
THEOREM AcceptedIsEnqueued == Spec => []AcceptedWasEnqueued
<1>1. Invariants => AcceptedWasEnqueued
  BY DEF Invariants, TakenInv, AcceptedWasEnqueued
<1> QED BY <1>1, InvariantsHold, PTL

\* An idempotency key accepts one content only.
THEOREM KeysHaveOneContent == Spec => []OneContent
<1>1. Invariants => OneContent
  BY DEF Invariants, ContentInv, OneContent
<1> QED BY <1>1, InvariantsHold, PTL

\* The message is in the stream at most once, and once more for each failure.
THEOREM RepeatsCostFaults == Spec => []RepeatsAreFaults
<1>1. Invariants => RepeatsAreFaults
  BY DEF Invariants, RepeatInv, RepeatsAreFaults
<1> QED BY <1>1, InvariantsHold, PTL
-----------------------------------------------------------------------------
(* SourceIntake: types. *)

\* A queue, its ends, and what lies behind its head.
LEMMA QueueFacts ==
  ASSUME NEW S, NEW s \in Seq(S)
  PROVE  /\ DOMAIN s = 1..Len(s) /\ Len(s) \in Nat
         /\ \A i \in DOMAIN s : s[i] \in S
         /\ \A e \in S : /\ Append(s, e) \in Seq(S)
                         /\ DOMAIN Append(s, e) = 1..(Len(s) + 1)
                         /\ \A i \in DOMAIN s : Append(s, e)[i] = s[i]
                         /\ Append(s, e)[Len(s) + 1] = e
         /\ s # <<>> => /\ 1 \in DOMAIN s /\ Head(s) = s[1]
                        /\ Tail(s) \in Seq(S)
                        /\ \A i \in DOMAIN Tail(s) :
                             i \in Nat /\ i + 1 \in DOMAIN s /\ Tail(s)[i] = s[i + 1]
<1>1. DOMAIN s = 1..Len(s) /\ Len(s) \in Nat /\ \A i \in DOMAIN s : s[i] \in S
  OBVIOUS
<1>2. ASSUME NEW e \in S
      PROVE  /\ Append(s, e) \in Seq(S) /\ DOMAIN Append(s, e) = 1..(Len(s) + 1)
             /\ \A i \in DOMAIN s : Append(s, e)[i] = s[i]
             /\ Append(s, e)[Len(s) + 1] = e
  OBVIOUS
<1>3. ASSUME s # <<>>
      PROVE  /\ 1 \in DOMAIN s /\ Head(s) = s[1] /\ Tail(s) \in Seq(S)
             /\ \A i \in DOMAIN Tail(s) :
                  i \in Nat /\ i + 1 \in DOMAIN s /\ Tail(s)[i] = s[i + 1]
  <2>1. Len(s) # 0 /\ Head(s) = s[1]
    BY <1>3, EmptySeq
  <2>2. Tail(s) \in Seq(S) /\ Len(Tail(s)) = Len(s) - 1
    BY <1>3, HeadTailProperties
  <2>3. \A i \in 1..(Len(s) - 1) : Tail(s)[i] = s[i + 1]
    BY <1>3, HeadTailProperties
  <2>4. DOMAIN Tail(s) = 1..(Len(s) - 1)
    BY <2>2
  <2> QED BY <1>1, <2>1, <2>2, <2>3, <2>4
<1> QED BY <1>1, <1>2, <1>3

LEMMA IntakeInit == Intake!IntakeAssumption /\ Intake!Init => Intake!TypeOK
<1> SUFFICES ASSUME Intake!IntakeAssumption, Intake!Init  PROVE Intake!TypeOK
  OBVIOUS
<1>1. where \in [Message -> Intake!Places] /\ stream \in Seq(Message)
  BY DEF Intake!Init, Intake!Places
<1>2. load \in [Task -> {Intake!NotLoading} \cup {Intake!Read(r) : r \in Intake!Rows}]
  BY DEF Intake!Init
<1>3. edits \in 0..MaxEdits /\ faults \in 0..MaxFaults
  BY DEF Intake!Init, Intake!IntakeAssumption
<1> QED BY <1>1, <1>2, <1>3 DEF Intake!Init, Intake!TypeOK

\* A reload that has read something has read a registry.
LEMMA LoadFacts ==
  ASSUME Intake!TypeOK, NEW t \in Task, load[t].at = "read"
  PROVE  load[t].rows \in Intake!Rows
<1>1. Intake!NotLoading.at # "read"
  BY DEF Intake!NotLoading
<1>2. PICK r \in Intake!Rows : load[t] = Intake!Read(r)
  BY <1>1 DEF Intake!TypeOK
<1> QED BY <1>2 DEF Intake!Read

\* What can be owed of a message.
Owed == {"none", "accepted", "ignored", "missed", "filtered"}

LEMMA ExcuseType ==
  ASSUME owed \in [Message -> Owed], NEW messages, Intake!Excuse(messages)
  PROVE  /\ owed' \in [Message -> Owed]
         /\ \A m \in Message : owed'[m] = IF m \in messages THEN "none" ELSE owed[m]
  BY DEF Intake!Excuse, Owed

\* A message is posted: its place, and what is owed of it.
LEMMA PostedFacts ==
  ASSUME Intake!IntakeAssumption, Intake!TypeOK, NEW m \in Message,
         NEW place \in Intake!Places, Intake!Posted(m, place)
  PROVE  /\ where' \in [Message -> Intake!Places] /\ owed' \in [Message -> Owed]
         /\ where[m] = "unposted" /\ where'[m] = place
         /\ owed'[m] = IF Intake!Settled(SourceOf[m]) THEN Intake!Judged(SourceOf[m])
                       ELSE owed[m]
         /\ \A x \in Message \ {m} : where'[x] = where[x] /\ owed'[x] = owed[x]
<1>1. where \in [Message -> Intake!Places] /\ owed \in [Message -> Owed]
  BY DEF Intake!TypeOK, Owed
<1>2. SourceOf[m] \in Source
  BY DEF Intake!IntakeAssumption
<1>3. Intake!Judged(SourceOf[m]) \in Owed
  BY <1>2 DEF Intake!Judged, Owed
<1> QED BY <1>1, <1>3 DEF Intake!Posted, Intake!Place

LEMMA IntakeTypeStep ==
  ASSUME Intake!IntakeAssumption, Intake!TypeOK, handler # "idle" => stream # <<>>,
         [Intake!Next]_Intake!vars
  PROVE  Intake!TypeOK'
<1> DEFINE Loads == [Task -> {Intake!NotLoading} \cup {Intake!Read(r) : r \in Intake!Rows}]
<1>0. /\ row \in Intake!Rows /\ cache \in Intake!Rows /\ load \in Loads
      /\ where \in [Message -> Intake!Places] /\ stream \in Seq(Message)
      /\ MaxEdits \in Nat /\ MaxFaults \in Nat /\ edits \in 0..MaxEdits
      /\ faults \in 0..MaxFaults /\ owed \in [Message -> Owed]
  BY DEF Intake!TypeOK, Intake!IntakeAssumption, Owed
<1>1. Intake!Fault => faults' \in 0..MaxFaults /\ edits' = edits
  BY <1>0 DEF Intake!Fault
<1>2. ASSUME NEW s \in Source, Intake!Edit(s)  PROVE Intake!TypeOK'
  <2>1. row' \in Intake!Rows /\ edits' \in 0..MaxEdits
    BY <1>0, <1>2 DEF Intake!Edit, Intake!Rows
  <2>2. owed' \in [Message -> Owed]
    BY <1>0, <1>2, ExcuseType DEF Intake!Edit
  <2> QED BY <1>2, <2>1, <2>2 DEF Intake!Edit, Intake!TypeOK, Owed
<1>3. CASE Intake!InitialSnapshot \/ Intake!Subscribe
  BY <1>3 DEF Intake!InitialSnapshot, Intake!Subscribe, Intake!TypeOK, Intake!counters,
              Intake!Enabled
<1>4. CASE Intake!Monitor \/ Intake!ReceiverFails
  <2>1. Intake!Exit => where' \in [Message -> Intake!Places]
    BY <1>0 DEF Intake!Exit, Intake!Places
  <2>2. owed' \in [Message -> Owed]
    BY <1>0, <1>4, ExcuseType DEF Intake!Monitor, Intake!ReceiverFails
  <2>3. CASE Intake!Monitor
    BY <2>1, <2>2, <2>3 DEF Intake!Monitor, Intake!Exit, Intake!TypeOK, Intake!counters, Owed
  <2>4. CASE Intake!ReceiverFails
    BY <1>1, <2>1, <2>2, <2>4 DEF Intake!ReceiverFails, Intake!Exit, Intake!TypeOK, Owed
  <2> QED BY <1>4, <2>3, <2>4
<1>5. ASSUME Intake!SafeWFails \/ \E m \in Message : Intake!Drop(m)
      PROVE  Intake!TypeOK'
  <2>1. where' \in [Message -> Intake!Places]
    BY <1>0, <1>5 DEF Intake!SafeWFails, Intake!Drop, Intake!Place, Intake!Places
  <2>2. owed' \in [Message -> Owed]
    BY <1>0, <1>5, ExcuseType DEF Intake!SafeWFails, Intake!Drop
  <2> QED BY <1>1, <1>5, <2>1, <2>2 DEF Intake!SafeWFails, Intake!Drop, Intake!TypeOK, Owed
<1>6. ASSUME NEW m \in Message, Intake!PostInChannel(m) \/ Intake!Notify(m)
      PROVE  Intake!TypeOK'
  <2>1. {"held", "missed", "filtered"} \subseteq Intake!Places
    BY DEF Intake!Places
  <2>2. where' \in [Message -> Intake!Places] /\ owed' \in [Message -> Owed]
    BY <1>6, <2>1, PostedFacts DEF Intake!PostInChannel, Intake!Notify
  <2>3. UNCHANGED <<settings, row, receiver, subscribed, stream, handler, cache, load, due,
                    edits, faults>>
    BY <1>6 DEF Intake!PostInChannel, Intake!Notify, Intake!counters
  <2> QED BY <2>2, <2>3 DEF Intake!TypeOK, Owed
<1>7. ASSUME NEW m \in Message, Intake!Publish(m)  PROVE Intake!TypeOK'
  <2>1. where' \in [Message -> Intake!Places] /\ stream' \in Seq(Message)
    BY <1>0, <1>7, QueueFacts DEF Intake!Publish, Intake!Place, Intake!Places
  <2> QED BY <1>7, <2>1 DEF Intake!Publish, Intake!TypeOK, Intake!counters
<1>8. ASSUME NEW t \in Task  PROVE Intake!LoadRows(t) => load' \in Loads
  BY <1>0 DEF Intake!LoadRows
<1>9. ASSUME NEW t \in Task
      PROVE  Intake!ApplyCache(t) => load' \in Loads /\ cache' \in Intake!Rows
  BY <1>0, LoadFacts DEF Intake!ApplyCache
<1>10. ASSUME NEW t \in Task, Intake!OtherLoads(t) \/ Intake!OtherApplies(t)
       PROVE  Intake!TypeOK'
  <2>1. CASE Intake!OtherLoads(t)
    BY <1>8, <2>1 DEF Intake!OtherLoads, Intake!LoadRows, Intake!TypeOK, Intake!counters
  <2>2. CASE Intake!OtherApplies(t)
    BY <1>9, <2>2 DEF Intake!OtherApplies, Intake!ApplyCache, Intake!TypeOK,
                      Intake!counters
  <2> QED BY <1>10, <2>1, <2>2
<1>11. CASE Intake!Take
  BY <1>11 DEF Intake!Take, Intake!TypeOK, Intake!counters
<1>12. Incoming \in Task
  BY DEF Intake!IntakeAssumption
<1>13. CASE Intake!Reload \/ Intake!LoadRegistered
  BY <1>8, <1>12, <1>13 DEF Intake!Reload, Intake!LoadRegistered, Intake!LoadRows,
                            Intake!TypeOK, Intake!counters
<1>14. CASE Intake!Reloaded
  BY <1>9, <1>12, <1>14 DEF Intake!Reloaded, Intake!ApplyCache, Intake!TypeOK,
                            Intake!counters
<1>15. ASSUME Intake!Accept \/ Intake!Registered
       PROVE  /\ where' \in [Message -> Intake!Places] /\ stream' \in Seq(Message)
              /\ handler' = "idle"
  <2>1. stream # <<>> /\ Tail(stream) \in Seq(Message)
    BY <1>0, <1>15, QueueFacts DEF Intake!Accept, Intake!Registered
  <2>2. PICK place \in {"accepted", "ignored"} : Intake!Conclude(place)
    BY <1>15 DEF Intake!Accept, Intake!Registered, Intake!Verdict
  <2>3. where' \in [Message -> Intake!Places]
    BY <1>0, <2>2 DEF Intake!Conclude, Intake!Place, Intake!Places
  <2> QED BY <2>1, <2>2, <2>3 DEF Intake!Conclude
<1>16. CASE Intake!Accept
  BY <1>15, <1>16 DEF Intake!Accept, Intake!TypeOK, Intake!counters
<1>17. CASE Intake!Registered
  BY <1>9, <1>12, <1>15, <1>17 DEF Intake!Registered, Intake!ApplyCache, Intake!TypeOK,
                                   Intake!counters
<1>18. CASE Intake!Register
  <2>1. row' \in Intake!Rows
    BY <1>0, <1>18 DEF Intake!Register, Intake!Rows
  <2> QED BY <1>18, <2>1 DEF Intake!Register, Intake!TypeOK, Intake!counters
<1>19. CASE Intake!SenderFails
  BY <1>1, <1>19 DEF Intake!SenderFails, Intake!TypeOK
<1>20. CASE UNCHANGED Intake!vars
  BY <1>20 DEF Intake!vars, Intake!counters, Intake!TypeOK
<1> QED BY <1>2, <1>3, <1>4, <1>5, <1>6, <1>7, <1>10, <1>11, <1>13, <1>14, <1>16, <1>17,
           <1>18, <1>19, <1>20 DEF Intake!Next, Intake!Handle

-----------------------------------------------------------------------------
(* SourceIntake: a source that nobody edits is judged as the registry says. *)

\* What was read of source s, before the sender registered it at most.
NotOld(was, s) ==
  \/ was = row[s]
  \/ s \notin TgSource /\ settings.register /\ was = "absent" /\ row[s] = "on"

\* All copies of the row of s are so.
Fresh(s) ==
  /\ NotOld(cache[s], s)
  /\ \A t \in Task : load[t].at = "read" => NotOld(load[t].rows[s], s)

\* The stream holds each of its messages once; the handler has its head.
StreamInv ==
  /\ \A i \in DOMAIN stream : where[stream[i]] = "stream"
  /\ \A i, j \in DOMAIN stream : stream[i] = stream[j] => i = j
  /\ handler # "idle" => stream # <<>>

\* The row of a message on its way is one for which what is owed is the verdict.
Right(m) ==
  LET s == SourceOf[m] IN
  \/ owed[m] = "accepted" /\ row[s] = "on"
  \/ s \notin TgSource /\ settings.register /\ owed[m] = "accepted" /\ row[s] = "absent"
  \/ owed[m] = "ignored" /\ row[s] = "off"
  \/ ~settings.register /\ owed[m] = "ignored" /\ row[s] = "absent"

OnItsWay(m) == where[m] \in {"held", "stream"}

OwedAt(m) ==
  owed[m] # "none" => \/ where[m] = owed[m] /\ ~OnItsWay(m)
                      \/ OnItsWay(m) /\ Right(m) /\ Fresh(SourceOf[m])

OwedInv == \A m \in Message : OwedAt(m)

\* The conversation just registered is on, and in the reload that follows.
RegisteredInv ==
  handler \in {"registered", "loaded"} /\ owed[Head(stream)] # "none" =>
    /\ row[SourceOf[Head(stream)]] = "on"
    /\ handler = "loaded" => load[Incoming].rows[SourceOf[Head(stream)]] = "on"

IntakeInv == Intake!TypeOK /\ StreamInv /\ OwedInv /\ RegisteredInv

\* The head of the stream.
LEMMA HeadFacts ==
  ASSUME Intake!IntakeAssumption, Intake!TypeOK, StreamInv, stream # <<>>
  PROVE  /\ Head(stream) \in Message /\ where[Head(stream)] = "stream"
         /\ SourceOf[Head(stream)] \in Source
<1>1. stream \in Seq(Message)
  BY DEF Intake!TypeOK
<1>2. 1 \in DOMAIN stream /\ Head(stream) = stream[1] /\ stream[1] \in Message
  BY <1>1, QueueFacts
<1> QED BY <1>2 DEF StreamInv, Intake!IntakeAssumption

LEMMA StreamStep ==
  ASSUME Intake!TypeOK, StreamInv, [Intake!Next]_Intake!vars
  PROVE  StreamInv'
<1>0. stream \in Seq(Message) /\ where \in [Message -> Intake!Places]
  BY DEF Intake!TypeOK
<1>1. ASSUME UNCHANGED stream, handler' # "idle" => stream # <<>>,
             \A m \in Message : where[m] = "stream" => where'[m] = "stream"
      PROVE  StreamInv'
  BY <1>0, <1>1, QueueFacts DEF StreamInv
<1>2. ASSUME NEW m \in Message, Intake!Publish(m)  PROVE StreamInv'
  <2>1. /\ where[m] = "held" /\ where' = [where EXCEPT ![m] = "stream"]
        /\ stream' = Append(stream, m)
    BY <1>2 DEF Intake!Publish, Intake!Place
  <2>2. \A i \in DOMAIN stream : stream[i] \in Message /\ stream[i] # m
    BY <1>0, <2>1, QueueFacts DEF StreamInv
  <2>3. /\ DOMAIN stream' = DOMAIN stream \cup {Len(stream) + 1}
        /\ Len(stream) + 1 \notin DOMAIN stream
        /\ stream'[Len(stream) + 1] = m /\ stream' # <<>>
        /\ \A i \in DOMAIN stream : stream'[i] = stream[i]
    BY <1>0, <2>1, QueueFacts
  <2>4. where'[m] = "stream" /\ \A x \in Message \ {m} : where'[x] = where[x]
    BY <1>0, <2>1
  <2> QED BY <2>2, <2>3, <2>4 DEF StreamInv
<1>3. CASE Intake!Accept \/ Intake!Registered
  <2>1. /\ stream # <<>> /\ stream' = Tail(stream) /\ handler' = "idle"
        /\ \E place : where' = [where EXCEPT ![Head(stream)] = place]
    BY <1>3 DEF Intake!Accept, Intake!Registered, Intake!Conclude, Intake!Place, StreamInv
  <2>2. /\ 1 \in DOMAIN stream /\ Head(stream) = stream[1]
        /\ \A i \in DOMAIN stream' :
             i \in Nat /\ i + 1 \in DOMAIN stream /\ stream'[i] = stream[i + 1]
    BY <1>0, <2>1, QueueFacts
  <2>3. \A i \in DOMAIN stream' : i + 1 # 1 /\ stream[i + 1] # stream[1]
    <3>1. DOMAIN stream' \subseteq 1..Len(stream')
      BY <1>0, <2>1, QueueFacts
    <3> QED BY <2>2, <3>1 DEF StreamInv
  <2>4. \A i \in DOMAIN stream' : where'[stream'[i]] = "stream"
    <3>1. \A x \in Message \ {Head(stream)} : where'[x] = where[x]
      BY <1>0, <2>1
    <3>2. \A i \in DOMAIN stream : stream[i] \in Message
      BY <1>0, QueueFacts
    <3> QED BY <2>2, <2>3, <3>1, <3>2 DEF StreamInv
  <2>5. \A i, j \in DOMAIN stream' : stream'[i] = stream'[j] => i = j
    BY <2>2 DEF StreamInv
  <2> QED BY <2>1, <2>4, <2>5 DEF StreamInv
<1>4. CASE Intake!Register
  BY <1>1, <1>4 DEF Intake!Register, StreamInv
<1>5. CASE Intake!Take \/ Intake!Reload \/ Intake!Reloaded \/ Intake!LoadRegistered
  BY <1>1, <1>5 DEF Intake!Take, Intake!Reload, Intake!Reloaded, Intake!LoadRegistered,
                    Intake!LoadRows, Intake!ApplyCache, StreamInv
<1>6. CASE Intake!SenderFails \/ Intake!InitialSnapshot \/ Intake!Subscribe
           \/ (\E s \in Source : Intake!Edit(s)) \/ UNCHANGED Intake!vars
  BY <1>1, <1>6 DEF Intake!SenderFails, Intake!InitialSnapshot,
                    Intake!Subscribe, Intake!Edit, Intake!vars, StreamInv
<1>7. CASE \E t \in Task : Intake!OtherLoads(t) \/ Intake!OtherApplies(t)
  BY <1>1, <1>7 DEF Intake!OtherLoads, Intake!OtherApplies, Intake!LoadRows,
                    Intake!ApplyCache, StreamInv
<1>8. CASE Intake!Monitor \/ Intake!ReceiverFails \/ Intake!SafeWFails
           \/ \E m \in Message : Intake!Drop(m)
  <2>1. UNCHANGED <<stream, handler>>
        /\ \A m \in Message : where[m] = "stream" => where'[m] = "stream"
    BY <1>0, <1>8 DEF Intake!Monitor, Intake!ReceiverFails, Intake!SafeWFails, Intake!Exit,
                Intake!Drop, Intake!Place, Intake!HeldByTelegram, Intake!HeldBySafeW
  <2> QED BY <1>1, <2>1 DEF StreamInv
<1>9. ASSUME NEW m \in Message, Intake!PostInChannel(m) \/ Intake!Notify(m)
      PROVE  StreamInv'
  <2>1. /\ UNCHANGED <<stream, handler>> /\ where[m] = "unposted"
        /\ \E place : where' = [where EXCEPT ![m] = place]
    BY <1>9 DEF Intake!PostInChannel, Intake!Notify, Intake!Posted, Intake!Place
  <2>2. \A x \in Message : where[x] = "stream" => where'[x] = "stream"
    BY <1>0, <2>1
  <2> QED BY <1>1, <2>1, <2>2 DEF StreamInv
<1> QED BY <1>2, <1>3, <1>4, <1>5, <1>6, <1>7, <1>8, <1>9 DEF Intake!Next, Intake!Handle

\* A message of which as much is owed as before, or nothing any more.
LEMMA OwedKept ==
  ASSUME NEW m \in Message, OwedAt(m), UNCHANGED settings,
         \/ owed'[m] = "none"
         \/ /\ owed'[m] = owed[m]
            /\ where'[m] = where[m] \/ (where[m] = "held" /\ where'[m] = "stream")
            /\ OnItsWay(m) => /\ row'[SourceOf[m]] = row[SourceOf[m]]
                              /\ Fresh(SourceOf[m]) => Fresh(SourceOf[m])'
  PROVE  OwedAt(m)'
<1>1. OnItsWay(m) /\ Right(m) /\ owed'[m] = owed[m] /\ row'[SourceOf[m]] = row[SourceOf[m]]
        => Right(m)'
  BY DEF Right
<1> QED BY <1>1 DEF OwedAt, OnItsWay

\* A message is posted.
LEMMA PostedOwed ==
  ASSUME Intake!IntakeAssumption, Intake!TypeOK, OwedInv, NEW m \in Message,
         Intake!PostInChannel(m) \/ Intake!Notify(m)
  PROVE  OwedInv'
<1> DEFINE s == SourceOf[m]
<1>0. /\ s \in Source /\ row \in Intake!Rows /\ owed \in [Message -> Owed]
      /\ settings.admitted \subseteq Source \ TgSource
  BY DEF Intake!TypeOK, Intake!IntakeAssumption, Intake!Settings, Owed
<1>1. UNCHANGED <<settings, row, cache, load>>
  BY DEF Intake!PostInChannel, Intake!Notify
<1>2. PICK place \in {"held", "missed", "filtered"} :
        /\ Intake!Posted(m, place)
        /\ s \in TgSource =>
             place = IF receiver = "up" /\ s \in subscribed THEN "held" ELSE "missed"
        /\ s \notin TgSource =>
             place = IF s \in settings.admitted THEN "held" ELSE "filtered"
  BY DEF Intake!PostInChannel, Intake!Notify, Intake!Admitted
<1>3. place \in Intake!Places
  BY DEF Intake!Places
<1>4. /\ where[m] = "unposted" /\ where'[m] = place
      /\ owed'[m] = IF Intake!Settled(s) THEN Intake!Judged(s) ELSE owed[m]
      /\ \A x \in Message \ {m} : where'[x] = where[x] /\ owed'[x] = owed[x]
  BY <1>2, <1>3, PostedFacts
<1>5. \A x \in Message : Fresh(SourceOf[x]) => Fresh(SourceOf[x])'
  BY <1>1 DEF Fresh, NotOld
<1>6. \A x \in Message \ {m} : OwedAt(x)'
  BY <1>1, <1>4, <1>5, OwedKept DEF OwedInv
<1>7. CASE ~Intake!Settled(s)
  <2>1. owed[m] = "none"
    BY <1>0, <1>4 DEF OwedInv, OwedAt, OnItsWay, Owed
  <2>2. OwedAt(m)'
    BY <1>4, <1>7, <2>1 DEF OwedAt
  <2> QED BY <1>6, <2>2 DEF OwedInv
<1>8. CASE Intake!Settled(s)
  <2>1. Fresh(s)'
    BY <1>1, <1>8 DEF Intake!Settled, Fresh, NotOld, Intake!NotLoading
  <2>2. row[s] \in {"absent", "off", "on"}
    BY <1>0 DEF Intake!Rows
  <2>3. ASSUME s \in TgSource  PROVE OwedAt(m)'
    <3>1. place = IF row[s] = "on" THEN "held" ELSE "missed"
      BY <1>2, <1>8, <2>3 DEF Intake!Settled
    <3>2. owed'[m] = IF row[s] = "on" THEN "accepted" ELSE "missed"
      BY <1>0, <1>4, <1>8, <2>3 DEF Intake!Judged
    <3>3. row[s] = "on" => Right(m)'
      BY <1>1, <3>2 DEF Right
    <3> QED BY <1>4, <2>1, <3>1, <3>2, <3>3 DEF OwedAt, OnItsWay
  <2>4. ASSUME s \notin TgSource, s \notin settings.admitted  PROVE OwedAt(m)'
    <3>1. owed'[m] = "filtered"
      BY <1>4, <1>8, <2>4 DEF Intake!Judged
    <3> QED BY <1>2, <1>4, <2>4, <3>1 DEF OwedAt, OnItsWay
  <2>5. ASSUME s \notin TgSource, s \in settings.admitted  PROVE OwedAt(m)'
    <3>1. owed'[m] = IF row[s] = "on" \/ (row[s] = "absent" /\ settings.register)
                     THEN "accepted" ELSE "ignored"
      BY <1>4, <1>8, <2>5 DEF Intake!Judged
    <3>2. Right(m)'
      BY <1>1, <2>2, <2>5, <3>1 DEF Right
    <3> QED BY <1>2, <1>4, <2>1, <2>5, <3>2 DEF OwedAt, OnItsWay
  <2>6. OwedAt(m)'
    BY <2>3, <2>4, <2>5
  <2> QED BY <1>6, <2>6 DEF OwedInv
<1> QED BY <1>7, <1>8

\* The head of the stream gets what is owed of it.
LEMMA VerdictOwed ==
  ASSUME Intake!IntakeAssumption, Intake!TypeOK, StreamInv, OwedInv, RegisteredInv,
         Intake!Accept \/ Intake!Registered
  PROVE  OwedInv'
<1> PICK h : h = Head(stream)
  OBVIOUS
<1> DEFINE s == SourceOf[h]
<1>0. /\ where \in [Message -> Intake!Places] /\ DOMAIN load = Task /\ Incoming \in Task
      /\ cache \in Intake!Rows
  BY DEF Intake!TypeOK, Intake!IntakeAssumption
<1>1. handler # "idle"
  BY DEF Intake!Accept, Intake!Registered
<1>2. h \in Message /\ where[h] = "stream" /\ s \in Source
  BY <1>1, HeadFacts DEF StreamInv
<1>3. /\ UNCHANGED <<settings, row, owed>>
      /\ where' = [where EXCEPT ![h] = Intake!Verdict(cache', s)]
  BY DEF Intake!Accept, Intake!Registered, Intake!ApplyCache, Intake!Conclude, Intake!Place
<1>4. where'[h] = Intake!Verdict(cache', s) /\ \A x \in Message \ {h} : where'[x] = where[x]
  BY <1>0, <1>2, <1>3
<1>5. \A x \in Message : Fresh(SourceOf[x]) => Fresh(SourceOf[x])'
  <2>1. CASE Intake!Accept
    BY <1>3, <2>1 DEF Intake!Accept, Fresh, NotOld
  <2>2. CASE Intake!Registered
    <3>1. /\ load[Incoming].at = "read" /\ cache' = load[Incoming].rows
          /\ load'[Incoming].at # "read"
          /\ \A u \in Task \ {Incoming} : load'[u] = load[u]
      BY <1>0, <2>2 DEF Intake!Registered, Intake!ApplyCache, Intake!NotLoading
    <3> QED BY <1>0, <1>3, <3>1 DEF Fresh, NotOld
  <2> QED BY <2>1, <2>2
<1>6. \A x \in Message \ {h} : OwedAt(x)'
  BY <1>3, <1>4, <1>5, OwedKept DEF OwedInv
<1>7. ASSUME owed[h] # "none"  PROVE where'[h] = owed[h] /\ where'[h] \notin {"held", "stream"}
  <2>1. Right(h) /\ Fresh(s)
    BY <1>2, <1>7 DEF OwedInv, OwedAt, OnItsWay
  <2>2. CASE Intake!Accept
    <3>1. cache' = cache /\ (cache[s] # "absent" \/ s \in TgSource \/ ~settings.register)
      BY <2>2 DEF Intake!Accept, Intake!Known, Intake!Registers
    <3>2. NotOld(cache[s], s)
      BY <2>1 DEF Fresh
    <3> QED BY <1>4, <2>1, <3>1, <3>2 DEF NotOld, Right, Intake!Verdict
  <2>3. CASE Intake!Registered
    <3>1. cache'[s] = "on" /\ row[s] = "on"
      BY <1>7, <2>3 DEF Intake!Registered, Intake!ApplyCache, RegisteredInv
    <3> QED BY <1>4, <2>1, <3>1 DEF Right, Intake!Verdict
  <2> QED BY <2>2, <2>3
<1>8. OwedAt(h)'
  BY <1>3, <1>7 DEF OwedAt, OnItsWay
<1> QED BY <1>6, <1>8 DEF OwedInv

\* A SafeW conversation is registered, perhaps again.
LEMMA RegisterOwed ==
  ASSUME Intake!IntakeAssumption, Intake!TypeOK, StreamInv, OwedInv, Intake!Register
  PROVE  OwedInv' /\ RegisteredInv'
<1>s. PICK s : s = SourceOf[Head(stream)]
  OBVIOUS
<1>0. row \in Intake!Rows /\ \A m \in Message : SourceOf[m] \in Source
  BY DEF Intake!TypeOK, Intake!IntakeAssumption
<1>1. s \in Source
  BY <1>s, HeadFacts DEF Intake!Register, StreamInv
<1>2. /\ UNCHANGED <<settings, where, stream, cache, load, owed>>
      /\ row' = [row EXCEPT ![s] = "on"] /\ handler' = "registered"
      /\ s \notin TgSource /\ settings.register /\ cache[s] = "absent"
  BY <1>s DEF Intake!Register, Intake!Known, Intake!Registers
<1>3. row'[s] = "on" /\ \A x \in Source \ {s} : row'[x] = row[x]
  BY <1>0, <1>1, <1>2 DEF Intake!Rows
<1>4. ASSUME NEW m \in Message, SourceOf[m] # s  PROVE OwedAt(m)'
  <2>1. row'[SourceOf[m]] = row[SourceOf[m]]
    BY <1>0, <1>3, <1>4
  <2>2. Fresh(SourceOf[m]) => Fresh(SourceOf[m])'
    BY <1>2, <2>1 DEF Fresh, NotOld
  <2> QED BY <1>2, <2>1, <2>2, OwedKept DEF OwedInv
<1>5. ASSUME NEW m \in Message, SourceOf[m] = s, OnItsWay(m), owed[m] # "none"
      PROVE  Right(m)' /\ Fresh(s)'
  <2>1. Right(m) /\ Fresh(s)
    BY <1>5 DEF OwedInv, OwedAt
  <2>2. row[s] \in {"absent", "on"}
    BY <1>2, <2>1 DEF Fresh, NotOld
  <2>3. owed[m] = "accepted"
    BY <1>2, <1>5, <2>1, <2>2 DEF Right
  <2>4. Right(m)'
    BY <1>2, <1>3, <1>5, <2>3 DEF Right
  <2>5. ASSUME NEW was, NotOld(was, s)
        PROVE  NotOld(was, s)'
    BY <1>2, <1>3, <2>2, <2>5 DEF NotOld
  <2>6. Fresh(s)'
    BY <1>2, <2>1, <2>5 DEF Fresh
  <2> QED BY <2>4, <2>6
<1>6. ASSUME NEW m \in Message, SourceOf[m] = s  PROVE OwedAt(m)'
  <2>1. OwedAt(m) /\ where'[m] = where[m] /\ owed'[m] = owed[m]
    BY <1>2 DEF OwedInv
  <2>2. OnItsWay(m) /\ owed[m] # "none" => Right(m)' /\ Fresh(SourceOf[m])'
    BY <1>5, <1>6, <1>2
  <2> QED BY <2>1, <2>2 DEF OwedAt, OnItsWay
<1>7. RegisteredInv'
  BY <1>s, <1>2, <1>3 DEF RegisteredInv
<1> QED BY <1>4, <1>6, <1>7 DEF OwedInv

\* An operator edits a source: nothing is owed of its messages any more.
LEMMA EditOwed ==
  ASSUME Intake!IntakeAssumption, Intake!TypeOK, StreamInv, OwedInv, RegisteredInv,
         NEW s \in Source, Intake!Edit(s)
  PROVE  OwedInv' /\ RegisteredInv'
<1>0. row \in Intake!Rows /\ \A m \in Message : SourceOf[m] \in Source
  BY DEF Intake!TypeOK, Intake!IntakeAssumption
<1>1. /\ UNCHANGED <<settings, where, stream, handler, cache, load>>
      /\ \A x \in Source \ {s} : row'[x] = row[x]
  BY <1>0 DEF Intake!Edit, Intake!Rows
<1>2. \A m \in Message : owed'[m] = IF SourceOf[m] = s THEN "none" ELSE owed[m]
  BY DEF Intake!Edit, Intake!Excuse
<1>3. ASSUME NEW m \in Message  PROVE OwedAt(m)'
  <2>1. CASE SourceOf[m] = s
    BY <1>2, <2>1 DEF OwedAt
  <2>2. CASE SourceOf[m] # s
    <3>1. row'[SourceOf[m]] = row[SourceOf[m]]
      BY <1>0, <1>1, <2>2
    <3>2. Fresh(SourceOf[m]) => Fresh(SourceOf[m])'
      BY <1>1, <3>1 DEF Fresh, NotOld
    <3> QED BY <1>1, <1>2, <2>2, <3>1, <3>2, OwedKept DEF OwedInv
  <2> QED BY <2>1, <2>2
<1>4. RegisteredInv'
  <2>1. SUFFICES ASSUME handler \in {"registered", "loaded"}  PROVE RegisteredInv'
    BY <1>1 DEF RegisteredInv
  <2>2. Head(stream) \in Message
    BY <2>1, HeadFacts DEF StreamInv
  <2> QED BY <1>0, <1>1, <1>2, <2>2 DEF RegisteredInv
<1> QED BY <1>3, <1>4 DEF OwedInv

\* Steps of the receivers that give up messages, and of nobody else.
LEMMA ExcuseOwed ==
  ASSUME Intake!IntakeAssumption, Intake!TypeOK, StreamInv, OwedInv, RegisteredInv,
         NEW messages \in SUBSET Message, Intake!Excuse(messages),
         \A m \in messages : where[m] # "stream",
         UNCHANGED <<settings, row, stream, handler, cache, load>>,
         \A m \in Message \ messages : where'[m] = where[m]
  PROVE  OwedInv' /\ RegisteredInv'
<1>1. \A m \in Message : owed'[m] = IF m \in messages THEN "none" ELSE owed[m]
  BY DEF Intake!Excuse
<1>2. \A m \in Message : Fresh(SourceOf[m]) => Fresh(SourceOf[m])'
  BY DEF Fresh, NotOld
<1>3. \A m \in Message : OwedAt(m)'
  BY <1>1, <1>2, OwedKept DEF OwedInv
<1>4. RegisteredInv'
  <2>1. SUFFICES ASSUME handler \in {"registered", "loaded"}  PROVE RegisteredInv'
    BY DEF RegisteredInv
  <2>2. Head(stream) \in Message /\ where[Head(stream)] = "stream"
    BY <2>1, HeadFacts DEF StreamInv
  <2> QED BY <1>1, <2>2 DEF RegisteredInv
<1> QED BY <1>3, <1>4 DEF OwedInv

\* Steps of the sender and of the stream that judge no message.
LEMMA ReloadOwed ==
  ASSUME OwedInv, UNCHANGED <<settings, row, owed>>,
         \A m \in Message : \/ where'[m] = where[m]
                            \/ where[m] = "held" /\ where'[m] = "stream",
         \A s \in Source : Fresh(s) => Fresh(s)',
         \A m \in Message : SourceOf[m] \in Source
  PROVE  OwedInv'
  BY OwedKept DEF OwedInv

LEMMA OwedStep ==
  ASSUME Intake!IntakeAssumption, Intake!TypeOK, StreamInv, OwedInv, RegisteredInv,
         [Intake!Next]_Intake!vars
  PROVE  OwedInv' /\ RegisteredInv'
<1> DEFINE Goal == OwedInv' /\ RegisteredInv'
<1>0. /\ DOMAIN load = Task /\ where \in [Message -> Intake!Places]
      /\ stream \in Seq(Message) /\ Incoming \in Task
      /\ \A m \in Message : SourceOf[m] \in Source
  BY DEF Intake!TypeOK, Intake!IntakeAssumption
<1>1. ASSUME \E s \in Source : Intake!Edit(s)  PROVE Goal
  BY <1>1, EditOwed
<1>2. ASSUME UNCHANGED <<settings, row, where, stream, handler, cache, load, owed>>
      PROVE  Goal
  <2>1. \A s \in Source : Fresh(s) => Fresh(s)'
    BY <1>2 DEF Fresh, NotOld
  <2>2. OwedInv'
    BY <1>0, <1>2, <2>1, ReloadOwed
  <2>3. RegisteredInv'
    BY <1>2 DEF RegisteredInv
  <2> QED BY <2>2, <2>3
<1>3. ASSUME Intake!InitialSnapshot \/ Intake!Subscribe \/ UNCHANGED Intake!vars  PROVE Goal
  BY <1>2, <1>3 DEF Intake!InitialSnapshot, Intake!Subscribe, Intake!vars
<1>4. ASSUME Intake!Monitor \/ Intake!ReceiverFails  PROVE Goal
  <2>1. /\ Intake!Excuse(Intake!HeldByTelegram)
        /\ UNCHANGED <<settings, row, stream, handler, cache, load>>
        /\ where' = [m \in Message |->
                       IF m \in Intake!HeldByTelegram THEN "lost" ELSE where[m]]
    BY <1>4 DEF Intake!Monitor, Intake!ReceiverFails, Intake!SelectionChanged, Intake!Exit
  <2>2. /\ Intake!HeldByTelegram \in SUBSET Message
        /\ \A m \in Intake!HeldByTelegram : where[m] # "stream"
    BY DEF Intake!HeldByTelegram
  <2>3. \A m \in Message \ Intake!HeldByTelegram : where'[m] = where[m]
    BY <2>1
  <2> QED BY <2>1, <2>2, <2>3, ExcuseOwed
<1>5. ASSUME Intake!SafeWFails  PROVE Goal
  <2>1. /\ Intake!Excuse(Intake!HeldBySafeW)
        /\ UNCHANGED <<settings, row, stream, handler, cache, load>>
        /\ where' = [m \in Message |->
                       IF m \in Intake!HeldBySafeW THEN "lost" ELSE where[m]]
    BY <1>5 DEF Intake!SafeWFails
  <2>2. /\ Intake!HeldBySafeW \in SUBSET Message
        /\ \A m \in Intake!HeldBySafeW : where[m] # "stream"
    BY DEF Intake!HeldBySafeW
  <2>3. \A m \in Message \ Intake!HeldBySafeW : where'[m] = where[m]
    BY <2>1
  <2> QED BY <2>1, <2>2, <2>3, ExcuseOwed
<1>6. ASSUME NEW m \in Message, Intake!Drop(m)  PROVE Goal
  <2>1. /\ Intake!Excuse({m}) /\ where[m] # "stream"
        /\ UNCHANGED <<settings, row, stream, handler, cache, load>>
        /\ where' = [where EXCEPT ![m] = "lost"]
    BY <1>6 DEF Intake!Drop, Intake!HeldByTelegram, Intake!Place
  <2>2. {m} \in SUBSET Message /\ \A x \in Message \ {m} : where'[x] = where[x]
    BY <1>0, <2>1
  <2> QED BY <2>1, <2>2, ExcuseOwed
<1>7. ASSUME NEW m \in Message, Intake!PostInChannel(m) \/ Intake!Notify(m)  PROVE Goal
  <2>1. OwedInv'
    BY <1>7, PostedOwed
  <2>2. /\ UNCHANGED <<row, stream, handler, load>>
        /\ where[m] = "unposted" /\ \A x \in Message \ {m} : owed'[x] = owed[x]
    BY <1>7 DEF Intake!PostInChannel, Intake!Notify, Intake!Posted, Intake!TypeOK
  <2>3. RegisteredInv'
    <3>1. SUFFICES ASSUME handler \in {"registered", "loaded"}  PROVE RegisteredInv'
      BY <2>2 DEF RegisteredInv
    <3>2. Head(stream) \in Message /\ where[Head(stream)] = "stream"
      BY <3>1, HeadFacts DEF StreamInv
    <3> QED BY <2>2, <3>2 DEF RegisteredInv
  <2> QED BY <2>1, <2>3
<1>8. ASSUME NEW m \in Message, Intake!Publish(m)  PROVE Goal
  <2>1. /\ UNCHANGED <<settings, row, handler, cache, load, owed>>
        /\ where[m] = "held" /\ where' = [where EXCEPT ![m] = "stream"]
        /\ stream' = Append(stream, m)
    BY <1>8 DEF Intake!Publish, Intake!Place
  <2>2. \A x \in Message : \/ where'[x] = where[x]
                           \/ where[x] = "held" /\ where'[x] = "stream"
    BY <1>0, <2>1
  <2>3. \A s \in Source : Fresh(s) => Fresh(s)'
    BY <2>1 DEF Fresh, NotOld
  <2>4. OwedInv'
    BY <1>0, <2>1, <2>2, <2>3, ReloadOwed
  <2>5. handler # "idle" => Head(stream') = Head(stream)
    BY <1>0, <2>1 DEF StreamInv
  <2>6. RegisteredInv'
    BY <2>1, <2>5 DEF RegisteredInv
  <2> QED BY <2>4, <2>6
<1>9. ASSUME NEW t \in Task, Intake!LoadRows(t), UNCHANGED stream,
             \/ t # Incoming /\ handler' = handler
             \/ handler' \notin {"registered", "loaded"}
             \/ t = Incoming /\ handler = "registered"
      PROVE  Goal
  <2>1. /\ load'[t].rows = row /\ \A u \in Task \ {t} : load'[u] = load[u]
        /\ UNCHANGED <<settings, row, where, cache, owed>>
    BY <1>0, <1>9 DEF Intake!LoadRows, Intake!Read
  <2>2. \A s \in Source : Fresh(s) => Fresh(s)'
    BY <2>1 DEF Fresh, NotOld
  <2>3. OwedInv'
    BY <1>0, <2>1, <2>2, ReloadOwed
  <2>4. RegisteredInv'
    BY <1>0, <1>9, <2>1 DEF RegisteredInv
  <2> QED BY <2>3, <2>4
<1>10. ASSUME NEW t \in Task, Intake!ApplyCache(t), UNCHANGED <<where, stream>>,
              \/ t # Incoming /\ handler' = handler
              \/ handler' \notin {"registered", "loaded"}
       PROVE  Goal
  <2>1. /\ load[t].at = "read" /\ cache' = load[t].rows /\ load'[t].at # "read"
        /\ \A u \in Task \ {t} : load'[u] = load[u]
        /\ UNCHANGED <<settings, row, owed>>
    BY <1>0, <1>10 DEF Intake!ApplyCache, Intake!NotLoading
  <2>2. \A s \in Source : Fresh(s) => Fresh(s)'
    BY <2>1 DEF Fresh, NotOld
  <2>3. OwedInv'
    BY <1>0, <1>10, <2>1, <2>2, ReloadOwed
  <2>4. RegisteredInv'
    BY <1>0, <1>10, <2>1 DEF RegisteredInv
  <2> QED BY <2>3, <2>4
<1>11. ASSUME \E t \in Task : Intake!OtherLoads(t) \/ Intake!OtherApplies(t)  PROVE Goal
  <2>1. ASSUME NEW t \in Task, Intake!OtherLoads(t)  PROVE Goal
    BY <1>9, <2>1 DEF Intake!OtherLoads, Intake!LoadRows
  <2>2. ASSUME NEW t \in Task, Intake!OtherApplies(t)  PROVE Goal
    BY <1>10, <2>2 DEF Intake!OtherApplies
  <2> QED BY <1>11, <2>1, <2>2
<1>12. ASSUME Intake!Reload \/ Intake!LoadRegistered  PROVE Goal
  BY <1>0, <1>9, <1>12 DEF Intake!Reload, Intake!LoadRegistered, Intake!LoadRows
<1>13. ASSUME Intake!Reloaded  PROVE Goal
  BY <1>0, <1>10, <1>13 DEF Intake!Reloaded
<1>14. ASSUME Intake!Take  PROVE Goal
  <2>1. /\ UNCHANGED <<settings, row, where, cache, load, owed>>
        /\ handler' \notin {"registered", "loaded"}
    BY <1>14 DEF Intake!Take
  <2>2. \A s \in Source : Fresh(s) => Fresh(s)'
    BY <2>1 DEF Fresh, NotOld
  <2>3. OwedInv'
    BY <1>0, <2>1, <2>2, ReloadOwed
  <2> QED BY <2>1, <2>3 DEF RegisteredInv
<1>15. ASSUME Intake!SenderFails  PROVE Goal
  <2>1. /\ UNCHANGED <<settings, row, where, owed>> /\ handler' = "idle"
        /\ cache' = row /\ \A t \in Task : load'[t].at # "read"
    BY <1>15 DEF Intake!SenderFails, Intake!NotLoading
  <2>2. \A s \in Source : Fresh(s)'
    BY <2>1 DEF Fresh, NotOld
  <2>3. OwedInv'
    BY <1>0, <2>1, <2>2, ReloadOwed
  <2> QED BY <2>1, <2>3 DEF RegisteredInv
<1>16. ASSUME Intake!Accept \/ Intake!Registered  PROVE Goal
  <2>1. OwedInv'
    BY <1>16, VerdictOwed
  <2>2. handler' = "idle"
    BY <1>16 DEF Intake!Accept, Intake!Registered, Intake!Conclude
  <2> QED BY <2>1, <2>2 DEF RegisteredInv
<1>17. ASSUME Intake!Register  PROVE Goal
  BY <1>17, RegisterOwed
<1> QED BY <1>1, <1>3, <1>4, <1>5, <1>6, <1>7, <1>8, <1>11, <1>12, <1>13, <1>14, <1>15,
           <1>16, <1>17 DEF Intake!Next, Intake!Handle

LEMMA IntakeAlways == Intake!IntakeAssumption /\ Intake!Spec => []IntakeInv
<1> SUFFICES ASSUME Intake!IntakeAssumption  PROVE Intake!Spec => []IntakeInv
  OBVIOUS
<1>1. Intake!Init => IntakeInv
  <2>1. Intake!Init => StreamInv /\ OwedInv /\ RegisteredInv
    BY DEF Intake!Init, StreamInv, OwedInv, OwedAt, RegisteredInv
  <2> QED BY <2>1, IntakeInit DEF IntakeInv
<1>2. IntakeInv /\ [Intake!Next]_Intake!vars => IntakeInv'
  <2> SUFFICES ASSUME IntakeInv, [Intake!Next]_Intake!vars  PROVE IntakeInv'
    OBVIOUS
  <2>1. Intake!TypeOK /\ StreamInv /\ OwedInv /\ RegisteredInv /\ (handler # "idle" => stream # <<>>)
    BY DEF IntakeInv, StreamInv
  <2> QED BY <2>1, IntakeTypeStep, StreamStep, OwedStep DEF IntakeInv
<1> QED BY <1>1, <1>2, PTL DEF Intake!Spec

\* The variables hold what the receivers and the sender store in them; a message is in
\* one place.
THEOREM IntakeTypeCorrect == Intake!IntakeAssumption /\ Intake!Spec => []Intake!TypeOK
<1>1. IntakeInv => Intake!TypeOK
  BY DEF IntakeInv
<1> QED BY <1>1, IntakeAlways, PTL

\* A message that met a sound copy of its source when it was posted gets the verdict that
\* the registry and the settings had for it then (load_from_db, handle_incoming,
\* _accept_or_register_source), unless an operator edits that source or its receiver gives it
\* up, whatever reloads overlap, other sources do and processes fail meanwhile.
THEOREM IntakeIsExact ==
  Intake!IntakeAssumption /\ Intake!Spec => []Intake!QuietIntakeIsExact
<1>1. IntakeInv => Intake!QuietIntakeIsExact
  BY DEF IntakeInv, OwedInv, OwedAt, OnItsWay, Right, Intake!QuietIntakeIsExact
<1> QED BY <1>1, IntakeAlways, PTL
=============================================================================
