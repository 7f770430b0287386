-------------------------- MODULE ReviewTasksProofs --------------------------
(***************************************************************************)
(* Proofs about ReviewTasks, for any reviewers, texts and bounds.          *)
(***************************************************************************)
EXTENDS ReviewTasks, SequenceTheorems, FiniteSetTheorems, TLAPS

Session == [old : Row, new : Row, log : BOOLEAN, next : Places]

\* The consumer works on the head of the stream until it acknowledges it.
ConsumerHasEntry == pc[Consumer] # "idle" => commands # <<>>

TypeInv == TypeOK /\ ConsumerHasEntry

-----------------------------------------------------------------------------
(* The operators on rows. *)

LEMMA StatusesClosed == \A s : Allowed(s) \subseteq Statuses
  BY DEF Allowed, Statuses

LEMMA NewTaskType == NewTask \in Row /\ NoSession \in Session
  BY ReviewAssumption DEF NewTask, Row, Statuses, NoSession, Session, Places

\* A flushed row is a row: each column comes from one of the three rows.
LEMMA FlushType ==
  ASSUME NEW row \in Row, NEW old \in Row, NEW new \in Row
  PROVE  Flush(row, old, new) \in Row
  BY DEF Flush, Row

\* What an operation can make of a loaded row.
LEMMA RowChange ==
  ASSUME NEW row \in Row, NEW status \in Statuses, NEW t \in Texts
  PROVE  [Bump(row) EXCEPT !.status = status, !.text = t] \in Row
<1>1. Bump(row) \in Row
  BY DEF Row, Bump
<1>2. \A r \in Row : [r EXCEPT !.status = status, !.text = t] \in Row
  BY DEF Row
<1> QED BY <1>1, <1>2

LEMMA TransitionType ==
  ASSUME NEW row \in Row, NEW status \in Statuses
  PROVE  Transition(row, status) \in Row
<1> DEFINE p == IF status = "published" THEN TRUE ELSE Bump(row).published
<1>1. Bump(row) \in Row
  BY DEF Row, Bump
<1>2. p \in BOOLEAN
  BY <1>1, Zenon DEF Row
<1>3. \A r \in Row, b \in BOOLEAN :
        [r EXCEPT !.status = status, !.published = b] \in Row
  BY DEF Row
<1> HIDE DEF p
<1>4. [Bump(row) EXCEPT !.status = status, !.published = p] \in Row
  BY <1>1, <1>2, <1>3
<1> QED BY <1>4 DEF Transition, p

LEMMA ClaimedType ==
  ASSUME NEW row \in Row  PROVE ClaimedRow(row) \in Row
<1>1. Bump(row) \in Row
  BY DEF Row, Bump
<1>2. "publishing" \in Statuses
  BY DEF Statuses
<1>3. \A r \in Row : [r EXCEPT !.status = "publishing"] \in Row
  BY <1>2 DEF Row
<1> QED BY <1>1, <1>3 DEF ClaimedRow

LEMMA SeenType ==
  ASSUME NEW row \in Row  PROVE Seen(row) \in [revision : Nat, text : Texts]
  BY DEF Row, Seen

\* A queue and what is put on or taken off it.
LEMMA QueueType ==
  ASSUME NEW S, NEW s \in Seq(S)
  PROVE  /\ \A e \in S : Append(s, e) \in Seq(S) /\ Append(s, e) # <<>>
         /\ s # <<>> => Head(s) \in S /\ Tail(s) \in Seq(S)
  BY HeadTailProperties, AppendProperties

\* Opening a session keeps the types of sess and pc.
LEMMA BeginType ==
  ASSUME TypeOK, NEW a \in Actors, NEW new \in Row, NEW log \in BOOLEAN,
         NEW next \in Places, Begin(a, new, log, next)
  PROVE  /\ sess' \in [Actors -> Session]
         /\ pc' \in [Actors -> Places]
  BY DEF TypeOK, Begin, Session, Places

\* The columns an operation leaves alone or counts up.
LEMMA RowColumns ==
  ASSUME NEW row \in Row, NEW status \in Statuses
  PROVE  /\ Transition(row, status).revision = row.revision + 1
         /\ Transition(row, status).text = row.text
         /\ Transition(row, status).status = status
         /\ ClaimedRow(row).revision = row.revision + 1
         /\ ClaimedRow(row).text = row.text
  BY DEF Transition, ClaimedRow, Bump, Row

-----------------------------------------------------------------------------
(* Type correctness. *)

\* An actor that returns gives up its place and the consumer its entry.
LEMMA ReturnType ==
  ASSUME TypeInv, NEW a \in Actors, Return(a), a = Consumer => commands # <<>>
  PROVE  /\ commands' \in Seq([revision : Nat, text : Texts])
         /\ pc'[Consumer] # "idle" => commands' # <<>>
         /\ pc' \in [Actors -> Places]
<1>1. pc' \in [Actors -> Places] /\ pc'[a] = "idle"
  BY DEF Return, TypeInv, TypeOK, Places
<1>2. CASE a = Consumer
  <2>1. commands' = Tail(commands)
    BY <1>2 DEF Return
  <2>2. commands' \in Seq([revision : Nat, text : Texts])
    BY <1>2, <2>1, QueueType, Zenon DEF TypeInv, TypeOK
  <2> QED BY <1>1, <1>2, <2>2
<1>3. CASE a # Consumer
  BY <1>1, <1>3 DEF Return, TypeInv, TypeOK, ConsumerHasEntry, Actors, Sender
<1> QED BY <1>2, <1>3

\* The transition that ends a claim opens a session or gives up.
LEMMA ConcludeType ==
  ASSUME TypeInv, NEW a \in Actors, NEW status \in Statuses,
         NEW next \in Places, pc[a] # "idle", Conclude(a, status, next)
  PROVE  /\ sess' \in [Actors -> Session]
         /\ pc' \in [Actors -> Places]
         /\ pc'[Consumer] # "idle" => pc[Consumer] # "idle"
<1>1. Transition(task, status) \in Row
  BY TransitionType DEF TypeInv, TypeOK
<1>2. CASE Begin(a, Transition(task, status), FALSE, next)
  <2>1. sess' \in [Actors -> Session] /\ pc' \in [Actors -> Places]
    BY <1>1, <1>2, BeginType DEF TypeInv
  <2> QED BY <1>2, <2>1 DEF Begin, TypeInv, TypeOK, Actors, Sender
<1>3. CASE Raise(a) /\ UNCHANGED sess
  BY <1>3 DEF Raise, TypeInv, TypeOK, Session, Places, Actors, Sender
<1> QED BY <1>2, <1>3 DEF Conclude

Message == [text : Texts, asked : Texts, answered : BOOLEAN]

\* A delivery may reach nobody; what it reaches it sends one message.
LEMMA DeliverCases ==
  ASSUME NEW a \in Actors, Deliver(a)
  PROVE  \E ok \in BOOLEAN :
           /\ \/ ~ok /\ UNCHANGED sent
              \/ sent' = Append(sent, Sending(a, ok))
           /\ pc' = [pc EXCEPT ![a] = IF ok THEN "sent" ELSE "failing"]
  BY DEF Deliver

\* A reviewer opens a session that logs a text.
LEMMA WriteType ==
  ASSUME TypeInv, NEW a \in Reviewers, NEW row \in Row, Begin(a, row, TRUE, "idle"),
         UNCHANGED <<task, revisions, processed, view, commands, ghosts, requests, crashes,
                     pipelined>>
  PROVE  TypeInv'
<1>1. a \in Actors /\ a # Consumer /\ "idle" \in Places
  BY ReviewAssumption DEF Actors, Sender, Places
<1>2. sess' \in [Actors -> Session] /\ pc' \in [Actors -> Places]
  BY <1>1, BeginType DEF TypeInv
<1>3. pc'[Consumer] = pc[Consumer]
  BY <1>1 DEF Begin, TypeInv, TypeOK, Actors, Sender
<1> QED BY <1>2, <1>3 DEF TypeInv, TypeOK, ConsumerHasEntry, Session, ghosts

\* Every action keeps the types and leaves the consumer its entry.
LEMMA TypeStep == TypeInv /\ [Next]_vars => TypeInv'
<1> SUFFICES ASSUME TypeInv, [Next]_vars  PROVE TypeInv'
  OBVIOUS
<1> USE DEF TypeInv, ConsumerHasEntry, ghosts, Remember
<1> TypeOK
  OBVIOUS
<1>1. ASSUME NEW a \in Reviewers, NEW t \in Texts, EditText(a, t)
      PROVE  TypeInv'
  <2>1. EditedRow(t) \in Row
    BY RowChange DEF EditedRow, TypeOK, Statuses
  <2> QED BY <1>1, <2>1, WriteType DEF EditText, db, bounds
<1>2. ASSUME NEW a \in Reviewers, NEW n \in DOMAIN revisions,
             RestoreRevision(a, n)
      PROVE  TypeInv'
  <2> DEFINE st == IF Bump(task).status = "pending" THEN "editing"
                   ELSE Bump(task).status
             row == [Bump(task) EXCEPT !.status = st, !.text = revisions[n]]
  <2>1. row \in Row
    <3>1. st \in Statuses
      BY DEF TypeOK, Row, Statuses, Bump
    <3> QED BY <3>1, RowChange DEF TypeOK
  <2>2. Begin(a, row, TRUE, "idle")
    BY <1>2 DEF RestoreRevision
  <2> HIDE DEF row
  <2> QED BY <1>2, <2>1, <2>2, WriteType DEF RestoreRevision, db, bounds
<1>3. ASSUME NEW a \in Reviewers, NEW t \in Texts, NEW r \in BOOLEAN,
             ReapplyRules(a, t, r)
      PROVE  TypeInv'
  <2> DEFINE st == CASE r                      -> "rejected"
                     [] task.status = "failed" -> "pending"
                     [] OTHER                  -> "editing"
             row == [Bump(task) EXCEPT !.status = st, !.text = t]
  <2>1. row \in Row
    <3>1. st \in Statuses
      BY DEF Statuses
    <3> QED BY <3>1, RowChange DEF TypeOK
  <2>2. Begin(a, row, TRUE, "idle")
    BY <1>3 DEF ReapplyRules
  <2> HIDE DEF row
  <2> QED BY <1>3, <2>1, <2>2, WriteType DEF ReapplyRules, db, bounds
<1>4. ASSUME NEW a \in Reviewers, Approve(a)  PROVE TypeInv'
  <2>1. Transition(task, "approved") \in Row
    BY TransitionType DEF TypeOK, Statuses
  <2> QED BY <1>4, <2>1, BeginType, ReviewAssumption
          DEF Approve, TypeOK, Session, Places, Actors, db, ghosts, bounds, Begin
<1>5. ASSUME NEW a \in Reviewers, Reject(a)  PROVE TypeInv'
  <2>1. Transition(task, "rejected") \in Row
    BY TransitionType DEF TypeOK, Statuses
  <2> QED BY <1>5, <2>1, BeginType, ReviewAssumption
          DEF Reject, TypeOK, Session, Places, Actors, db, ghosts, bounds, Begin
<1>6. ASSUME NEW a \in Reviewers, PublishDecided(a)  PROVE TypeInv'
  BY <1>6, ReviewAssumption
  DEF PublishDecided, TypeOK, Places, Actors, db, ghosts
<1>7. ASSUME NEW a \in Reviewers \cup {AutoApprove}, OpenTask(a)  PROVE TypeInv'
  BY <1>7, SeenType DEF OpenTask, TypeOK, Actors, Sender, db, ghosts, bounds
<1>8. ASSUME NEW a \in Reviewers \cup {AutoApprove}, PublishUndecided(a)
      PROVE  TypeInv'
  <2> DEFINE next == IF a = AutoApprove THEN "claim" ELSE "request"
  <2>1. Transition(task, "approved") \in Row
    BY TransitionType DEF TypeOK, Statuses
  <2>2. a \in Actors /\ a # Consumer /\ next \in Places
    BY ReviewAssumption DEF Actors, Sender, Places
  <2>3. Begin(a, Transition(task, "approved"), FALSE, next)
    BY <1>8 DEF PublishUndecided
  <2> HIDE DEF next
  <2>4. sess' \in [Actors -> Session] /\ pc' \in [Actors -> Places]
    BY <2>1, <2>2, <2>3, BeginType
  <2>5. pc'[Consumer] = pc[Consumer]
    BY <2>2, <2>3 DEF Begin, TypeOK, Actors, Sender
  <2>6. asked' \in [Actors -> Texts]
    BY <1>8, <2>2 DEF PublishUndecided, TypeOK
  <2> QED BY <1>8, <2>4, <2>5, <2>6
          DEF PublishUndecided, TypeOK, Session, db, ghosts, bounds
<1>9. ASSUME TakeCommand  PROVE TypeInv'
  <2>1. Head(commands) \in [revision : Nat, text : Texts]
    BY <1>9, QueueType, Zenon DEF TakeCommand, TypeOK
  <2> QED BY <1>9, <2>1 DEF TakeCommand, TypeOK, Places, Actors, Sender, db, ghosts, bounds
<1>10. ASSUME NEW a \in Actors, Save(a)  PROVE TypeInv'
  <2>1. Flush(task, sess[a].old, sess[a].new) \in Row
    BY FlushType DEF TypeOK
  <2>2. sess[a].new.revision \in Nat /\ sess[a].new.text \in Texts
    BY DEF TypeOK, Row
  <2>3. NoSession \in Session
    BY NewTaskType
  <2>4. CASE sess[a].log /\ sess[a].new.revision \in DOMAIN revisions
    <3>1. UNCHANGED <<task, revisions>>
      BY <1>10, <2>4 DEF Save
    <3>2. pc' \in [Actors -> Places] /\ sess' \in [Actors -> Session]
      <4>1. /\ pc' = [pc EXCEPT ![a] = "idle"]
            /\ sess' = [sess EXCEPT ![a] = NoSession]
        BY <1>10, <2>4 DEF Save
      <4> QED BY <2>3, <4>1 DEF TypeOK, Session, Places
    <3>3. pc'[Consumer] # "idle" => pc[Consumer] # "idle"
      BY <1>10, <2>4 DEF Save, TypeOK, Actors, Sender
    <3> QED BY <1>10, <3>1, <3>2, <3>3 DEF Save, TypeOK, Session, bounds
  <2>5. CASE ~(sess[a].log /\ sess[a].new.revision \in DOMAIN revisions)
    <3>1. task' \in Row /\ UNCHANGED sess
      BY <1>10, <2>1, <2>5 DEF Save
    <3>2. /\ DOMAIN revisions' \subseteq Nat
          /\ \A n \in DOMAIN revisions' : revisions'[n] \in Texts
      <4>1. CASE UNCHANGED revisions
        BY <4>1 DEF TypeOK
      <4>2. CASE revisions' =
                   [n \in DOMAIN revisions \cup {sess[a].new.revision} |->
                      IF n = sess[a].new.revision THEN sess[a].new.text
                      ELSE revisions[n]]
        BY <2>2, <4>2 DEF TypeOK
      <4> QED BY <1>10, <2>5, <4>1, <4>2 DEF Save
    <3>3. pc' \in [Actors -> Places]
      BY <1>10, <2>5 DEF Save, TypeOK, Places
    <3>4. pc'[Consumer] # "idle" => pc[Consumer] # "idle"
      BY <1>10, <2>5 DEF Save, TypeOK, Actors, Sender
    <3> QED BY <1>10, <3>1, <3>2, <3>3, <3>4 DEF Save, TypeOK, bounds
  <2> QED BY <2>4, <2>5
<1>11. ASSUME NEW a \in Actors, Refresh(a)  PROVE TypeInv'
  <2>1. Seen(task) \in [revision : Nat, text : Texts]
    BY SeenType DEF TypeOK
  <2> QED BY <1>11, <2>1, NewTaskType DEF Refresh, TypeOK, Session, db, ghosts, bounds
<1>12. ASSUME NEW a \in Actors, Request(a)  PROVE TypeInv'
  <2>1. [revision |-> view[a].revision, text |-> asked[a]]
          \in [revision : Nat, text : Texts]
    BY DEF TypeOK
  <2>2. /\ commands' \in Seq([revision : Nat, text : Texts])
        /\ commands' # <<>> \/ UNCHANGED commands
    <3>1. CASE UNCHANGED commands
      BY <3>1 DEF TypeOK
    <3>2. CASE commands' = Append(commands, [revision |-> view[a].revision,
                                             text |-> asked[a]])
      <4>1. commands \in Seq([revision : Nat, text : Texts])
        BY DEF TypeOK
      <4> QED BY <2>1, <3>2, <4>1, QueueType, Zenon
    <3> QED BY <1>12, <3>1, <3>2 DEF Request
  <2>3. pc' \in [Actors -> Places]
    BY <1>12 DEF Request, TypeOK, Places
  <2>4. pc'[Consumer] # "idle" => pc[Consumer] # "idle"
    BY <1>12 DEF Request, TypeOK, Actors, Sender
  <2> QED BY <1>12, <2>2, <2>3, <2>4 DEF Request, TypeOK, db, ghosts, bounds
<1>13. ASSUME NEW a \in Actors, Claim(a)  PROVE TypeInv'
  <2>1. ClaimedRow(task) \in Row
    BY ClaimedType DEF TypeOK
  <2>2. a = Consumer => commands # <<>>
    BY <1>13 DEF Claim
  <2>3. CASE Claimable(task, view[a].revision)
    <3>1. pc' = [pc EXCEPT ![a] = "claimed"] /\ task' = ClaimedRow(task)
          /\ UNCHANGED commands
      BY <1>13, <2>3 DEF Claim
    <3>2. pc' \in [Actors -> Places] /\ task' \in Row
      BY <2>1, <3>1 DEF TypeOK, Places
    <3>3. sess' \in [Actors -> Session]
      <4>1. [old |-> task', new |-> task', log |-> FALSE, next |-> "owner"]
              \in Session
        BY <3>2 DEF Session, Places
      <4>2. sess' = [sess EXCEPT ![a] = [old |-> task', new |-> task',
                                         log |-> FALSE, next |-> "owner"]]
        BY <1>13, <2>3 DEF Claim
      <4> HIDE DEF Session
      <4> QED BY <4>1, <4>2 DEF TypeOK, Session
    <3>4. ConsumerHasEntry'
      BY <1>13, <2>2, <3>1 DEF Claim, TypeOK
    <3> QED BY <1>13, <3>1, <3>2, <3>3, <3>4 DEF Claim, TypeOK, Session, bounds
  <2>4. CASE ~Claimable(task, view[a].revision)
    <3>1. Return(a) /\ UNCHANGED <<task, sess>>
      BY <1>13, <2>4 DEF Claim, ClaimRefused
    <3>2. commands' \in Seq([revision : Nat, text : Texts])
          /\ (pc'[Consumer] # "idle" => commands' # <<>>)
          /\ pc' \in [Actors -> Places]
      BY <2>2, <3>1, ReturnType
    <3> QED BY <1>13, <3>1, <3>2 DEF Claim, TypeOK, bounds
  <2> QED BY <2>3, <2>4
<1>14. ASSUME NEW a \in Actors, ClaimRefresh(a)  PROVE TypeInv'
  <2>1. sess' \in [Actors -> Session] /\ pc' \in [Actors -> Places]
    BY <1>14, NewTaskType DEF ClaimRefresh, TypeOK, Session
  <2>2. pc'[Consumer] # "idle" => pc[Consumer] # "idle"
    BY <1>14 DEF ClaimRefresh, TypeOK, Actors, Sender
  <2>3. view' \in [Actors -> [revision : Nat, text : Texts]]
    BY <1>14, SeenType DEF ClaimRefresh, TypeOK
  <2> QED BY <1>14, <2>1, <2>2, <2>3
          DEF ClaimRefresh, TypeOK, Session, db, bounds
<1>15. ASSUME NEW a \in Actors, CheckProcessed(a)  PROVE TypeInv'
  <2>1. CASE Conclude(a, "published", "done")
    <3>1. "published" \in Statuses /\ "done" \in Places
      BY DEF Statuses, Places
    <3>2. /\ sess' \in [Actors -> Session] /\ pc' \in [Actors -> Places]
          /\ pc'[Consumer] # "idle" => pc[Consumer] # "idle"
      BY <1>15, <2>1, <3>1, ConcludeType DEF CheckProcessed
    <3> QED BY <1>15, <3>2 DEF CheckProcessed, TypeOK, Session, db, ghosts, bounds
  <2>2. CASE pc' = [pc EXCEPT ![a] = "resolving"] /\ UNCHANGED sess
    BY <1>15, <2>2 DEF CheckProcessed, TypeOK, Places, Actors, Sender, db, ghosts, bounds
  <2> QED BY <1>15, <2>1, <2>2 DEF CheckProcessed
<1>16. ASSUME NEW a \in Actors, Resolve(a)  PROVE TypeInv'
  <2>1. pc' \in [Actors -> Places]
    BY <1>16 DEF Resolve, TypeOK, Places
  <2>2. pc'[Consumer] # "idle" => pc[Consumer] # "idle"
    BY <1>16 DEF Resolve, TypeOK, Actors, Sender
  <2>3. processed' \in {"pending_review", "publishing", "published", "failed"}
    BY <1>16 DEF Resolve, TypeOK
  <2> QED BY <1>16, <2>1, <2>2, <2>3 DEF Resolve, TypeOK, bounds
<1>17. ASSUME NEW a \in Actors, Deliver(a)  PROVE TypeInv'
  <2>1. \A ok \in BOOLEAN : Sending(a, ok) \in Message
    BY DEF TypeOK, Sending, Message
  <2>2. sent' \in Seq(Message)
    <3>1. sent \in Seq(Message)
      BY DEF TypeOK, Message
    <3>2. CASE UNCHANGED sent
      BY <3>1, <3>2
    <3>3. ASSUME NEW ok \in BOOLEAN, sent' = Append(sent, Sending(a, ok))
          PROVE  sent' \in Seq(Message)
      BY <2>1, <3>1, <3>3, QueueType, Zenon
    <3> QED BY <1>17, <3>2, <3>3, DeliverCases
  <2>3. pc' \in [Actors -> Places]
    BY <1>17 DEF Deliver, TypeOK, Places
  <2>4. pc'[Consumer] # "idle" => pc[Consumer] # "idle"
    BY <1>17 DEF Deliver, TypeOK, Actors, Sender
  <2> QED BY <1>17, <2>2, <2>3, <2>4
          DEF Deliver, TypeOK, Message, db, bounds
<1>18. ASSUME NEW a \in Actors, Finish(a)  PROVE TypeInv'
  <2>1. PICK o \in {<<"published", "recordok">>, <<"failed", "recordfail">>} :
          Conclude(a, o[1], o[2])
    BY <1>18 DEF Finish
  <2>2. o[1] \in Statuses /\ o[2] \in Places /\ pc[a] # "idle"
    BY <1>18 DEF Finish, Statuses, Places
  <2>3. /\ sess' \in [Actors -> Session] /\ pc' \in [Actors -> Places]
        /\ pc'[Consumer] # "idle" => pc[Consumer] # "idle"
    BY <2>1, <2>2, ConcludeType
  <2> QED BY <1>18, <2>3 DEF Finish, TypeOK, Session, db, ghosts, bounds
<1>19. ASSUME NEW a \in Actors, Record(a)  PROVE TypeInv'
  <2>1. Return(a) /\ (a = Consumer => commands # <<>>)
    BY <1>19 DEF Record
  <2>2. /\ commands' \in Seq([revision : Nat, text : Texts])
        /\ pc'[Consumer] # "idle" => commands' # <<>>
        /\ pc' \in [Actors -> Places]
    BY <2>1, ReturnType
  <2> QED BY <1>19, <2>2 DEF Record, TypeOK, bounds
<1>20. ASSUME PipelinePublishes  PROVE TypeInv'
  BY <1>20 DEF PipelinePublishes, TypeOK
<1>21. ASSUME NEW process \in {Sender, Reviewers}, Crash(process)  PROVE TypeInv'
  <2>1. pc' \in [Actors -> Places] /\ sess' \in [Actors -> Session]
    BY <1>21, NewTaskType DEF Crash, TypeOK, Session, Places
  <2>2. pc'[Consumer] # "idle" => pc[Consumer] # "idle"
    BY <1>21 DEF Crash, Actors, Sender
  <2> QED BY <1>21, <2>1, <2>2 DEF Crash, TypeOK, Session, db, ghosts
<1>22. CASE UNCHANGED vars
  BY <1>22 DEF vars, db, ghosts, bounds, TypeOK
<1> QED
  BY <1>1, <1>2, <1>3, <1>4, <1>5, <1>6, <1>7, <1>8, <1>9, <1>10, <1>11,
     <1>12, <1>13, <1>14, <1>15, <1>16, <1>17, <1>18, <1>19, <1>20, <1>21,
     <1>22 DEF Next, ReviewerOp, Proceed

LEMMA TypeInit == Init => TypeInv
<1> SUFFICES ASSUME Init  PROVE TypeInv
  OBVIOUS
<1>1. task \in Row /\ NoSession \in Session
  BY NewTaskType DEF Init
<1>2. /\ DOMAIN revisions = 1..2
      /\ revisions[1] \in Texts /\ revisions[2] \in Texts
  BY ReviewAssumption DEF Init
<1>3. Seen(NewTask) \in [revision : Nat, text : Texts]
  BY NewTaskType, SeenType
<1> QED BY <1>1, <1>2, <1>3, ReviewAssumption
        DEF Init, TypeInv, TypeOK, ConsumerHasEntry, Session, Places, Actors, Sender

\* The types of the review task, of everything held in memory and of the
\* command stream, for any number of reviewers and any bound.
THEOREM TypeCorrect == Spec => []TypeOK
<1>1. Init => TypeInv
  BY TypeInit
<1>2. TypeInv /\ [Next]_vars => TypeInv'
  BY TypeStep
<1> QED BY <1>1, <1>2, PTL DEF Spec, TypeInv

-----------------------------------------------------------------------------
(* No publication starts after one was recorded.                            *)

\* An open session neither clears published_at nor enters publishing.
SessionKeeps(s) ==
  /\ s.old.published => s.new.published
  /\ s.new.status = "publishing" => s.old.status = "publishing"

SessionsKeep == \A a \in Actors : SessionKeeps(sess[a])

LEMMA BeginKeeps ==
  ASSUME TypeInv, SessionsKeep, NEW a \in Actors, NEW new, NEW log, NEW next,
         Begin(a, new, log, next),
         task.published => new.published,
         new.status = "publishing" => task.status = "publishing"
  PROVE  SessionsKeep'
<1>1. sess' = [sess EXCEPT ![a] = [old |-> task, new |-> new, log |-> log,
                                   next |-> next]]
  BY DEF Begin
<1> QED BY <1>1 DEF SessionsKeep, SessionKeeps, TypeInv, TypeOK

\* A transition as SessionsKeep sees it.
LEMMA TransitionKeeps ==
  ASSUME NEW row \in Row, NEW status \in Statuses \ {"publishing"}
  PROVE  /\ row.published => Transition(row, status).published
         /\ Transition(row, status).status # "publishing"
  BY DEF Transition, Bump, Row, Statuses

LEMMA ConcludeKeeps ==
  ASSUME TypeInv, SessionsKeep, NEW a \in Actors,
         NEW status \in {"published", "failed"}, NEW next,
         Conclude(a, status, next)
  PROVE  SessionsKeep'
<1>1. CASE Begin(a, Transition(task, status), FALSE, next)
  BY <1>1, BeginKeeps, TransitionKeeps DEF TypeInv, TypeOK, Statuses
<1>2. CASE UNCHANGED sess
  BY <1>2 DEF SessionsKeep
<1> QED BY <1>1, <1>2 DEF Conclude

LEMMA NoSessionKeeps == SessionKeeps(NoSession)
  BY DEF SessionKeeps, NoSession, NewTask

LEMMA KeepsStep == TypeInv /\ SessionsKeep /\ [Next]_vars => SessionsKeep'
<1> SUFFICES ASSUME TypeInv, SessionsKeep, [Next]_vars  PROVE SessionsKeep'
  OBVIOUS
<1> task \in Row
  BY DEF TypeInv, TypeOK
<1> Reviewers \subseteq Actors /\ AutoApprove \in Actors
  BY DEF Actors, Sender
<1>1. ASSUME NEW a \in Reviewers, ReviewerOp(a)  PROVE SessionsKeep'
  <2>1. ASSUME NEW t \in Texts, EditText(a, t)  PROVE SessionsKeep'
    <3>1. /\ EditedRow(t).published = task.published
          /\ EditedRow(t).status = "editing"
      BY DEF EditedRow, Bump, Row
    <3> QED BY <2>1, <3>1, BeginKeeps DEF EditText
  <2>2. ASSUME NEW n \in DOMAIN revisions, RestoreRevision(a, n)
        PROVE  SessionsKeep'
    <3> DEFINE row == [Bump(task) EXCEPT
                         !.status = IF @ = "pending" THEN "editing" ELSE @,
                         !.text = revisions[n]]
    <3>1. /\ row.published = task.published
          /\ row.status \in {"editing", task.status}
      BY DEF Bump, Row
    <3>2. Begin(a, row, TRUE, "idle")
      BY <2>2 DEF RestoreRevision
    <3> HIDE DEF row
    <3> QED BY <3>1, <3>2, BeginKeeps
  <2>3. ASSUME NEW t \in Texts, NEW r \in BOOLEAN, ReapplyRules(a, t, r)
        PROVE  SessionsKeep'
    <3> DEFINE st == CASE r                      -> "rejected"
                       [] task.status = "failed" -> "pending"
                       [] OTHER                  -> "editing"
               row == [Bump(task) EXCEPT !.status = st, !.text = t]
    <3>1. row.published = task.published /\ row.status # "publishing"
      BY DEF Bump, Row
    <3>2. Begin(a, row, TRUE, "idle")
      BY <2>3 DEF ReapplyRules
    <3> HIDE DEF row
    <3> QED BY <3>1, <3>2, BeginKeeps
  <2>4. CASE Approve(a)
    BY <2>4, BeginKeeps, TransitionKeeps DEF Approve, Statuses
  <2>5. CASE Reject(a)
    BY <2>5, BeginKeeps, TransitionKeeps DEF Reject, Statuses
  <2>6. CASE PublishDecided(a)
    BY <2>6 DEF PublishDecided, SessionsKeep
  <2> QED BY <1>1, <2>1, <2>2, <2>3, <2>4, <2>5, <2>6 DEF ReviewerOp
<1>2. ASSUME NEW a \in Reviewers \cup {AutoApprove}, PublishUndecided(a)
      PROVE  SessionsKeep'
  BY <1>2, BeginKeeps, TransitionKeeps DEF PublishUndecided, Statuses
<1>3. ASSUME NEW a \in Actors, CheckProcessed(a) \/ Finish(a)
      PROVE  SessionsKeep'
  BY <1>3, ConcludeKeeps DEF CheckProcessed, Finish, SessionsKeep
<1>4. ASSUME NEW a \in Actors, Save(a) \/ Refresh(a)  PROVE SessionsKeep'
  <2>1. sess' = [sess EXCEPT ![a] = NoSession] \/ UNCHANGED sess
    BY <1>4 DEF Save, Refresh
  <2> QED BY <2>1, NoSessionKeeps DEF SessionsKeep, TypeInv, TypeOK
<1>7. ASSUME NEW a \in Actors, Claim(a) \/ ClaimRefresh(a)
      PROVE  SessionsKeep'
  <2>1. \/ sess' = [sess EXCEPT ![a] = NoSession]
        \/ sess' = [sess EXCEPT ![a] = [old |-> task', new |-> task',
                                        log |-> FALSE, next |-> "owner"]]
        \/ UNCHANGED sess
    BY <1>7 DEF Claim, ClaimRefresh
  <2>2. SessionKeeps([old |-> task', new |-> task', log |-> FALSE,
                      next |-> "owner"])
    BY DEF SessionKeeps
  <2>3. \A b \in Actors : SessionKeeps(sess'[b])
    BY <2>1, <2>2, NoSessionKeeps DEF SessionsKeep, TypeInv, TypeOK
  <2> QED BY <2>3 DEF SessionsKeep
<1>5. ASSUME NEW process \in {Sender, Reviewers}, Crash(process)
      PROVE  SessionsKeep'
  <2>1. \A a \in Actors : sess'[a] \in {sess[a], NoSession}
    BY <1>5 DEF Crash
  <2> QED BY <2>1, NoSessionKeeps DEF SessionsKeep
<1>6. CASE UNCHANGED sess
  BY <1>6 DEF SessionsKeep
<1> QED BY <1>1, <1>2, <1>3, <1>4, <1>5, <1>6, <1>7
        DEF Next, Proceed, OpenTask, TakeCommand, Request, Resolve, Deliver, Record, PipelinePublishes, vars, ghosts

\* Only a commit and a claim write the row.
LEMMA TaskWriters ==
  [Next]_vars => \/ UNCHANGED task
                 \/ \E a \in Actors : Save(a) \/ Claim(a)
  BY DEF Next, ReviewerOp, Proceed, EditText, RestoreRevision, ReapplyRules,
         Approve, Reject, PublishDecided, OpenTask, PublishUndecided, TakeCommand,
         Refresh, Request, ClaimRefresh, CheckProcessed, Resolve, Deliver, Finish,
         Record, PipelinePublishes, Crash, vars, db, ghosts

\* A published task stays published and is never claimed again, whatever stale
\* writes do to its status: claim_for_publish asks for published_at IS NULL and
\* no session clears it.
THEOREM NoRepublication == Spec => NoClaimAfterPublished
<1> DEFINE Step == task.published =>
                     /\ task'.published
                     /\ task'.status = "publishing" => task.status = "publishing"
           IInv == TypeInv /\ SessionsKeep
<1>1. Init => IInv
  <2>1. Init => TypeInv
    BY TypeInit
  <2>2. Init => SessionsKeep
    BY NoSessionKeeps DEF Init, SessionsKeep
  <2> QED BY <2>1, <2>2
<1>2. IInv /\ [Next]_vars => IInv'
  BY TypeStep, KeepsStep
<1>3. IInv /\ [Next]_vars => [Step]_vars
  <2> SUFFICES ASSUME TypeInv, SessionsKeep, [Next]_vars, task.published
               PROVE  /\ task'.published
                      /\ task'.status = "publishing" => task.status = "publishing"
    OBVIOUS
  <2>1. ASSUME NEW a \in Actors, Save(a), task' # task
        PROVE  /\ task'.published
               /\ task'.status = "publishing" => task.status = "publishing"
    <3>1. task' = Flush(task, sess[a].old, sess[a].new)
      BY <2>1 DEF Save
    <3>2. SessionKeeps(sess[a]) /\ sess[a].old \in Row /\ sess[a].new \in Row
      BY DEF SessionsKeep, TypeInv, TypeOK
    <3> QED BY <3>1, <3>2 DEF Flush, SessionKeeps, Row
  <2>2. ASSUME NEW a \in Actors, Claim(a)  PROVE UNCHANGED task
    BY <2>2 DEF Claim, Claimable
  <2> QED BY <2>1, <2>2, TaskWriters
<1> QED BY <1>1, <1>2, <1>3, PTL DEF Spec, NoClaimAfterPublished

-----------------------------------------------------------------------------
(* Every text that is sent is in the log.                                   *)

\* Every text anybody holds is in the log, apart from the new text of an open
\* session, which that session will log.
AllLogged ==
  /\ RulesText \in LogTexts
  /\ task.text \in LogTexts
  /\ \A a \in Actors :
       /\ view[a].text \in LogTexts
       /\ asked[a] \in LogTexts
       /\ sess[a].old.text \in LogTexts
       /\ ~sess[a].log => sess[a].new.text \in LogTexts
  /\ \A i \in DOMAIN commands : commands[i].text \in LogTexts
  /\ SentTextLogged

\* The log only grows.
LEMMA LogGrows == [Next]_vars => LogTexts \subseteq LogTexts'
<1> SUFFICES ASSUME [Next]_vars  PROVE LogTexts \subseteq LogTexts'
  OBVIOUS
<1>1. ASSUME NEW a \in Actors, Save(a)  PROVE LogTexts \subseteq LogTexts'
  <2>1. CASE UNCHANGED revisions
    BY <2>1 DEF LogTexts
  <2>2. CASE /\ sess[a].new.revision \notin DOMAIN revisions
             /\ revisions' =
                  [n \in DOMAIN revisions \cup {sess[a].new.revision} |->
                     IF n = sess[a].new.revision THEN sess[a].new.text
                     ELSE revisions[n]]
    BY <2>2 DEF LogTexts
  <2> QED BY <1>1, <2>1, <2>2 DEF Save
<1>2. CASE UNCHANGED revisions
  BY <1>2 DEF LogTexts
<1> QED BY <1>1, <1>2
        DEF Next, ReviewerOp, Proceed, EditText, RestoreRevision, ReapplyRules,
            Approve, Reject, PublishDecided, OpenTask, PublishUndecided,
            TakeCommand, Refresh, Request, Claim, ClaimRefresh, CheckProcessed,
            Resolve, Deliver, Finish, Record, PipelinePublishes, Crash, vars, db, ghosts

LEMMA BeginLogged ==
  ASSUME TypeInv, AllLogged, NEW a \in Actors, NEW new, NEW log, NEW next,
         Begin(a, new, log, next), ~log => new.text \in LogTexts,
         LogTexts \subseteq LogTexts'
  PROVE  \A b \in Actors : /\ sess'[b].old.text \in LogTexts'
                           /\ ~sess'[b].log => sess'[b].new.text \in LogTexts'
<1>1. sess' = [sess EXCEPT ![a] = [old |-> task, new |-> new, log |-> log,
                                   next |-> next]]
  BY DEF Begin
<1> QED BY <1>1 DEF AllLogged, TypeInv, TypeOK

\* The part of AllLogged about sessions, which most steps leave alone.
SessionsLogged ==
  \A b \in Actors : /\ sess[b].old.text \in LogTexts
                    /\ ~sess[b].log => sess[b].new.text \in LogTexts

LEMMA SessionsLoggedStep ==
  ASSUME TypeInv, AllLogged, [Next]_vars  PROVE SessionsLogged'
<1> task \in Row /\ LogTexts \subseteq LogTexts'
  BY LogGrows DEF TypeInv, TypeOK
<1> Reviewers \subseteq Actors /\ AutoApprove \in Actors
  BY DEF Actors, Sender
<1> USE DEF SessionsLogged
<1>0. \A status : Transition(task, status).text = task.text
  BY DEF Transition, Bump, Row
<1>1. ASSUME NEW a \in Reviewers, ReviewerOp(a)  PROVE SessionsLogged'
  <2>1. CASE \E t \in Texts : EditText(a, t)
    BY <2>1, BeginLogged DEF EditText
  <2>2. CASE \E n \in DOMAIN revisions : RestoreRevision(a, n)
    BY <2>2, BeginLogged DEF RestoreRevision
  <2>3. CASE \E t \in Texts, r \in BOOLEAN : ReapplyRules(a, t, r)
    BY <2>3, BeginLogged DEF ReapplyRules
  <2>4. CASE Approve(a) \/ Reject(a)
    BY <2>4, <1>0, BeginLogged DEF Approve, Reject, AllLogged
  <2>5. CASE PublishDecided(a)
    BY <2>5 DEF PublishDecided, AllLogged
  <2> QED BY <1>1, <2>1, <2>2, <2>3, <2>4, <2>5 DEF ReviewerOp
<1>2. ASSUME NEW a \in Reviewers \cup {AutoApprove}, PublishUndecided(a)
      PROVE  SessionsLogged'
  BY <1>2, <1>0, BeginLogged DEF PublishUndecided, AllLogged
<1>3. ASSUME NEW a \in Actors, NEW status, NEW next, Conclude(a, status, next)
      PROVE  SessionsLogged'
  BY <1>3, <1>0, BeginLogged DEF Conclude, AllLogged
<1>4. ASSUME \A a \in Actors : sess'[a] \in {sess[a], NoSession}
      PROVE  SessionsLogged'
  BY <1>4 DEF AllLogged, NoSession, NewTask
<1>5. ASSUME NEW a \in Actors, Save(a) \/ Refresh(a)
      PROVE  \A b \in Actors : sess'[b] \in {sess[b], NoSession}
  BY <1>5 DEF Save, Refresh, TypeInv, TypeOK
<1>6. ASSUME NEW process \in {Sender, Reviewers}, Crash(process)
      PROVE  \A b \in Actors : sess'[b] \in {sess[b], NoSession}
  BY <1>6 DEF Crash
<1>7. ASSUME NEW a \in Actors, ClaimRefresh(a)
      PROVE  \A b \in Actors : sess'[b] \in {sess[b], NoSession}
  BY <1>7 DEF ClaimRefresh, TypeInv, TypeOK
<1>8. ASSUME NEW a \in Actors, Claim(a)  PROVE SessionsLogged'
  <2>1. task'.text = task.text
    BY <1>8 DEF Claim, ClaimedRow, Bump, Row
  <2>2. \/ UNCHANGED sess
        \/ sess' = [sess EXCEPT ![a] = [old |-> task', new |-> task',
                                        log |-> FALSE, next |-> "owner"]]
    BY <1>8 DEF Claim
  <2>3. task'.text \in LogTexts'
    BY <2>1 DEF AllLogged
  <2>4. \A b \in Actors :
          \/ sess'[b] = sess[b]
          \/ sess'[b].old.text = task'.text /\ sess'[b].new.text = task'.text
    BY <2>2 DEF TypeInv, TypeOK
  <2> QED BY <2>3, <2>4 DEF AllLogged
<1>9. CASE UNCHANGED sess
  BY <1>9 DEF AllLogged
<1> QED BY <1>1, <1>2, <1>3, <1>4, <1>5, <1>6, <1>7, <1>8, <1>9
        DEF Next, Proceed, OpenTask, TakeCommand, Request, CheckProcessed, Finish, Resolve, Deliver, Record, PipelinePublishes,
            vars, ghosts

LEMMA LoggedStep == TypeInv /\ AllLogged /\ [Next]_vars => AllLogged'
<1> SUFFICES ASSUME TypeInv, AllLogged, [Next]_vars  PROVE AllLogged'
  OBVIOUS
<1> DEFINE Old == LogTexts
           New == LogTexts'
<1>1. Old \subseteq New
  BY LogGrows
<1>2. SessionsLogged'
  BY SessionsLoggedStep
<1>3. task'.text \in New
  <2>1. ASSUME NEW a \in Actors, Save(a), task' # task  PROVE task'.text \in New
    <3>1. task'.text = task.text \/ task'.text = sess[a].new.text
      BY <2>1 DEF Save, Flush
    <3>2. sess[a].log => sess[a].new.text \in New
      BY <2>1 DEF Save, LogTexts
    <3>3. ~sess[a].log => sess[a].new.text \in Old
      BY DEF AllLogged
    <3> QED BY <1>1, <3>1, <3>2, <3>3 DEF AllLogged
  <2>2. ASSUME NEW a \in Actors, Claim(a)  PROVE task'.text = task.text
    BY <2>2 DEF Claim, ClaimedRow, Bump, TypeInv, TypeOK, Row
  <2> QED BY <1>1, <2>1, <2>2, TaskWriters DEF AllLogged
<1>4. \A a \in Actors : view'[a].text \in New
  <2>1. ASSUME NEW a \in Actors, NEW v, v.text \in Old,
               view' = [view EXCEPT ![a] = v]
        PROVE  \A b \in Actors : view'[b].text \in New
    BY <1>1, <2>1 DEF AllLogged, TypeInv, TypeOK
  <2>2. Seen(task).text \in Old
    BY DEF Seen, AllLogged
  <2>3. ASSUME NEW a \in Actors, OpenTask(a) \/ Refresh(a) \/ ClaimRefresh(a)
        PROVE  \A b \in Actors : view'[b].text \in New
    BY <2>1, <2>2, <2>3 DEF OpenTask, Refresh, ClaimRefresh
  <2>4. ASSUME TakeCommand  PROVE \A b \in Actors : view'[b].text \in New
    <3>1. commands # <<>> /\ view' = [view EXCEPT ![Consumer] = commands[1]]
      BY <2>4 DEF TakeCommand
    <3>2. 1 \in DOMAIN commands
      BY <3>1 DEF TypeInv, TypeOK
    <3>3. commands[1].text \in Old /\ Consumer \in Actors
      BY <3>2 DEF AllLogged, Actors, Sender
    <3> QED BY <2>1, <3>1, <3>3
  <2>5. CASE UNCHANGED view
    BY <1>1, <2>5 DEF AllLogged
  <2> QED BY <2>3, <2>4, <2>5
          DEF Next, ReviewerOp, Proceed, EditText, RestoreRevision, ReapplyRules,
              Approve, Reject, PublishDecided, PublishUndecided, Save, Request,
              Claim, CheckProcessed, Resolve, Deliver, Finish, Record,
              PipelinePublishes, Crash, vars, ghosts, Actors, Sender
<1>5. \A a \in Actors : asked'[a] \in New
  <2>1. ASSUME NEW a \in Actors, NEW t \in Old, asked' = [asked EXCEPT ![a] = t]
        PROVE  \A b \in Actors : asked'[b] \in New
    BY <1>1, <2>1 DEF AllLogged, TypeInv, TypeOK
  <2>2. ASSUME NEW a \in Actors, PublishDecided(a) \/ PublishUndecided(a)
        PROVE  \A b \in Actors : asked'[b] \in New
    BY <2>1, <2>2 DEF PublishDecided, PublishUndecided, AllLogged
  <2>3. ASSUME TakeCommand  PROVE \A b \in Actors : asked'[b] \in New
    <3>1. /\ commands # <<>>
          /\ asked' = [asked EXCEPT ![Consumer] = commands[1].text]
      <4>1. Head(commands) = commands[1]
        OBVIOUS
      <4> QED BY <2>3, <4>1, Zenon DEF TakeCommand
    <3>2. 1 \in DOMAIN commands
      BY <3>1 DEF TypeInv, TypeOK
    <3>3. commands[1].text \in Old /\ Consumer \in Actors
      BY <3>2 DEF AllLogged, Actors, Sender
    <3> QED BY <2>1, <3>1, <3>3
  <2>4. CASE UNCHANGED asked
    BY <1>1, <2>4 DEF AllLogged
  <2> QED BY <2>2, <2>3, <2>4
          DEF Next, ReviewerOp, Proceed, EditText, RestoreRevision, ReapplyRules,
              Approve, Reject, OpenTask, Save, Refresh, Request, Claim,
              ClaimRefresh, CheckProcessed, Resolve, Deliver, Finish, Record,
              PipelinePublishes, Crash, vars, ghosts, Actors, Sender
<1>6. \A i \in DOMAIN commands' : commands'[i].text \in New
  <2> DEFINE Entry == [revision : Nat, text : Texts]
  <2>1. commands \in Seq(Entry)
    BY DEF TypeInv, TypeOK
  <2>2. ASSUME NEW a \in Actors, Return(a), a = Consumer => commands # <<>>
        PROVE  \A i \in DOMAIN commands' : commands'[i].text \in New
    <3>1. CASE a = Consumer
      <4>1. commands' = Tail(commands) /\ commands # <<>>
        BY <2>2, <3>1 DEF Return
      <4>2. \A i \in DOMAIN commands' : /\ i + 1 \in DOMAIN commands
                                        /\ commands'[i] = commands[i + 1]
        BY <2>1, <4>1
      <4> QED BY <1>1, <4>2 DEF AllLogged
    <3>2. CASE a # Consumer
      BY <1>1, <2>2, <3>2 DEF Return, AllLogged
    <3> QED BY <3>1, <3>2
  <2>3. ASSUME NEW a \in Actors, Request(a), commands' # commands
        PROVE  \A i \in DOMAIN commands' : commands'[i].text \in New
    <3> DEFINE e == [revision |-> view[a].revision, text |-> asked[a]]
    <3>1. commands' = Append(commands, e)
      BY <2>3 DEF Request
    <3>2. e \in Entry
      BY DEF TypeInv, TypeOK
    <3>3. \A i \in DOMAIN commands' : commands'[i] = e \/ (/\ i \in DOMAIN commands
                                                       /\ commands'[i] = commands[i])
      BY <2>1, <3>1, <3>2
    <3>4. e.text \in Old
      BY DEF AllLogged
    <3> QED BY <1>1, <3>3, <3>4 DEF AllLogged
  <2>4. ASSUME NEW a \in Actors, Claim(a) \/ Record(a)
        PROVE  UNCHANGED commands \/ (Return(a) /\ (a = Consumer => commands # <<>>))
    BY <2>4 DEF Claim, ClaimRefused, Record, TypeInv, ConsumerHasEntry
  <2>5. CASE UNCHANGED commands
    BY <1>1, <2>5 DEF AllLogged
  <2> QED BY <2>2, <2>3, <2>4, <2>5
          DEF Next, ReviewerOp, Proceed, EditText, RestoreRevision, ReapplyRules,
              Approve, Reject, PublishDecided, OpenTask, PublishUndecided,
              TakeCommand, Save, Refresh, ClaimRefresh, CheckProcessed, Resolve,
              Deliver, Finish, PipelinePublishes, Crash, vars, db, ghosts
<1>7. \A i \in DOMAIN sent' : sent'[i].text \in New
  <2>1. ASSUME NEW a \in Actors, Deliver(a), sent' # sent
        PROVE  \A i \in DOMAIN sent' : sent'[i].text \in New
    <3>1. PICK ok \in BOOLEAN : sent' = Append(sent, Sending(a, ok))
      BY <2>1, DeliverCases
    <3>2. sent \in Seq(Message) /\ Sending(a, ok) \in Message
      BY DEF TypeInv, TypeOK, Message, Sending
    <3>3. \A i \in DOMAIN sent' :
            \/ sent'[i] = Sending(a, ok)
            \/ i \in DOMAIN sent /\ sent'[i] = sent[i]
      BY <3>1, <3>2
    <3>4. Sending(a, ok).text \in Old
      BY DEF AllLogged, Sending
    <3> QED BY <1>1, <3>3, <3>4 DEF AllLogged, SentTextLogged
  <2>2. CASE UNCHANGED sent
    BY <1>1, <2>2 DEF AllLogged, SentTextLogged
  <2> QED BY <2>1, <2>2
          DEF Next, ReviewerOp, Proceed, EditText, RestoreRevision, ReapplyRules,
              Approve, Reject, PublishDecided, OpenTask, PublishUndecided,
              TakeCommand, Save, Refresh, Request, Claim, ClaimRefresh,
              CheckProcessed, Resolve, Finish, Record, PipelinePublishes, Crash,
              vars, ghosts
<1>8. RulesText \in New
  BY <1>1 DEF AllLogged
<1> QED BY <1>2, <1>3, <1>4, <1>5, <1>6, <1>7, <1>8
        DEF AllLogged, SessionsLogged, SentTextLogged

\* Every text publish_task has sent can be found in content_revisions, with any
\* number of overlapping sessions: a session that changes final_text logs it in
\* the same transaction, and the log loses nothing.
THEOREM SentTextIsLogged == Spec => []SentTextLogged
<1>1. Init => TypeInv /\ AllLogged
  <2> SUFFICES ASSUME Init  PROVE AllLogged
    BY TypeInit
  <2>1. RulesText \in LogTexts
    <3>1. 2 \in DOMAIN revisions /\ revisions[2] = RulesText
      BY DEF Init
    <3> QED BY <3>1 DEF LogTexts
  <2>2. DOMAIN commands = {} /\ DOMAIN sent = {}
    BY DEF Init
  <2> QED BY <2>1, <2>2 DEF Init, AllLogged, SentTextLogged, NewTask, NoSession, Seen
<1>2. TypeInv /\ AllLogged /\ [Next]_vars => (TypeInv /\ AllLogged)'
  BY TypeStep, LoggedStep
<1> QED BY <1>1, <1>2, PTL DEF Spec, AllLogged

-----------------------------------------------------------------------------
(* No stale commit yet: claims are exclusive and decisions final.          *)

Ends == {"recordok", "recordfail", "done"}

\* An actor has a claim from its commit until the commit of the transition
\* that ends it.
Owning(a) == pc[a] \in Holding \/ (pc[a] = "open" /\ sess[a].next \in Ends)

\* What an open session may do to the row it has loaded, whatever has become of
\* that row: only the owner's session leaves publishing, and none leaves a
\* final status.
SessionSafe(a) ==
  /\ pc[a] \in {"open", "saved"}
       => sess[a].next \in {"idle", "claim", "request"} \cup Ends
  /\ pc[a] = "claimed" => sess[a].next = "owner"
  /\ pc[a] = "open" =>
       /\ sess[a].new.revision = sess[a].old.revision + 1
       /\ sess[a].old.status = "publishing" /\ sess[a].next \notin Ends
            => sess[a].new.status = "publishing"
       /\ sess[a].old.status \in {"published", "rejected"}
            => sess[a].new.status = sess[a].old.status

SessionsSafe == \A a \in Actors : SessionSafe(a)

\* A session whose revision is still the row's has loaded the row as it is.
Fresh(a) ==
  pc[a] = "open" =>
    /\ sess[a].old.revision <= task.revision
    /\ sess[a].old.revision = task.revision => sess[a].old = task

SessionsFresh == \A a \in Actors : Fresh(a)

OwnerOnce ==
  /\ \A a, b \in Actors : Owning(a) /\ Owning(b) => a = b
  /\ \A a \in Actors : Owning(a) => task.status = "publishing"

OrderlyInv == SessionsSafe /\ (Orderly => SessionsFresh /\ OwnerOnce)

\* A stale commit is never forgotten.
LEMMA OverlapsGrow ==
  ASSUME [Next]_vars  PROVE overlaps \subseteq overlaps'
<1>1. ASSUME NEW a \in Actors, Save(a) \/ Refresh(a) \/ ClaimRefresh(a)
      PROVE  overlaps \subseteq overlaps'
  BY <1>1 DEF Save, Refresh, ClaimRefresh, Remember
<1>2. CASE UNCHANGED overlaps
  BY <1>2
<1> QED BY <1>1, <1>2
        DEF Next, ReviewerOp, Proceed, EditText, RestoreRevision, ReapplyRules,
            Approve, Reject, PublishDecided, OpenTask, PublishUndecided,
            TakeCommand, Request, Claim, CheckProcessed, Resolve, Deliver, Finish,
            Record, PipelinePublishes, Crash, vars, ghosts

LEMMA BeginOrderly ==
  ASSUME TypeInv, OrderlyInv, UNCHANGED <<task, overlaps>>,
         NEW a \in Actors, NEW new, NEW log,
         NEW next \in {"idle", "claim", "request"} \cup Ends,
         Begin(a, new, log, next),
         next \in Ends => pc[a] \in Holding,
         new.revision = task.revision + 1,
         task.status = "publishing" /\ next \notin Ends
           => new.status = "publishing",
         task.status \in {"published", "rejected"} => new.status = task.status
  PROVE  OrderlyInv'
<1>1. /\ \A b \in Actors \ {a} : pc'[b] = pc[b] /\ sess'[b] = sess[b]
      /\ pc'[a] = "open"
      /\ sess'[a] = [old |-> task, new |-> new, log |-> log, next |-> next]
  BY DEF Begin, TypeInv, TypeOK
<1>2. SessionsSafe'
  BY <1>1 DEF OrderlyInv, SessionsSafe, SessionSafe
<1>3. Orderly => SessionsFresh'
  <2>1. task.revision <= task.revision
    BY DEF TypeInv, TypeOK, Row
  <2> QED BY <1>1, <2>1 DEF OrderlyInv, SessionsFresh, Fresh
<1>4. \A b \in Actors : Owning(b)' => Owning(b)
  BY <1>1 DEF Owning, Holding
<1>5. Orderly => OwnerOnce'
  BY <1>4 DEF OrderlyInv, OwnerOnce
<1> QED BY <1>2, <1>3, <1>5 DEF OrderlyInv, Orderly

\* A step inside a claim, or out of a session, that leaves the row alone.
LEMMA MoveOrderly ==
  ASSUME TypeInv, OrderlyInv, UNCHANGED task, Orderly' => Orderly,
         NEW a \in Actors,
         NEW p, pc' = [pc EXCEPT ![a] = p],
         p \notin {"open", "saved", "claimed"},
         p \in Holding => pc[a] \in Holding,
         sess' \in {sess, [sess EXCEPT ![a] = NoSession]}
  PROVE  OrderlyInv'
<1>1. /\ \A b \in Actors \ {a} : pc'[b] = pc[b] /\ sess'[b] = sess[b]
      /\ pc'[a] = p
  BY DEF TypeInv, TypeOK
<1>2. SessionsSafe'
  BY <1>1 DEF OrderlyInv, SessionsSafe, SessionSafe
<1>3. Orderly => SessionsFresh'
  BY <1>1 DEF OrderlyInv, SessionsFresh, Fresh
<1>4. \A b \in Actors : Owning(b)' => Owning(b)
  BY <1>1 DEF Owning
<1>5. Orderly => OwnerOnce'
  BY <1>4 DEF OrderlyInv, OwnerOnce
<1> QED BY <1>2, <1>3, <1>5 DEF OrderlyInv

LEMMA ConcludeOrderly ==
  ASSUME TypeInv, OrderlyInv, UNCHANGED <<task, overlaps>>, NEW a \in Actors,
         NEW status \in {"published", "failed"}, NEW next \in Ends,
         Conclude(a, status, next), pc[a] \in Holding
  PROVE  OrderlyInv'
<1>1. CASE /\ status \in Allowed(task.status)
           /\ Begin(a, Transition(task, status), FALSE, next)
  <2>1. task.status \notin {"published", "rejected"}
    BY <1>1 DEF Allowed
  <2>2. Transition(task, status).revision = task.revision + 1
    BY RowColumns DEF TypeInv, TypeOK, Statuses
  <2> QED BY <1>1, <2>1, <2>2, BeginOrderly
<1>2. CASE Raise(a) /\ UNCHANGED sess
  BY <1>2, MoveOrderly DEF Raise, Holding, Orderly
<1> QED BY <1>1, <1>2 DEF Conclude

\* A commit that is not stale writes the row its session prepared.
LEMMA FreshCommit ==
  ASSUME TypeInv, OrderlyInv, NEW a \in Actors, Save(a), Orderly',
         UNCHANGED sess
  PROVE  /\ Orderly /\ pc[a] = "open"
         /\ sess[a].old = task /\ task' = sess[a].new
         /\ task'.revision = task.revision + 1
<1>1. /\ task' = Flush(task, sess[a].old, sess[a].new)
      /\ Remember("commit", task.revision # sess[a].old.revision)
      /\ pc[a] = "open"
  <2>1. CASE sess' = [sess EXCEPT ![a] = NoSession] /\ sess[a].log
    <3>1. sess'[a] = NoSession
      BY <2>1 DEF TypeInv, TypeOK
    <3> QED BY <2>1, <3>1 DEF NoSession
  <2> QED BY <2>1 DEF Save
<1>2. Orderly /\ task.revision = sess[a].old.revision
  BY <1>1 DEF Remember, Orderly
<1>3. sess[a].old = task
  BY <1>1, <1>2 DEF OrderlyInv, SessionsFresh, Fresh
<1>4. sess[a].new \in Row /\ task \in Row
  BY DEF TypeInv, TypeOK
<1>5. task' = sess[a].new
  BY <1>1, <1>3, <1>4 DEF Flush, Row
<1>6. sess[a].new.revision = sess[a].old.revision + 1
  BY <1>1 DEF OrderlyInv, SessionsSafe, SessionSafe
<1> QED BY <1>1, <1>2, <1>3, <1>5, <1>6

\* When the row moves on by a revision, no session in progress is fresh.
LEMMA FreshLater ==
  ASSUME TypeInv, SessionsFresh, task'.revision = task.revision + 1,
         UNCHANGED sess, \A b \in Actors : pc'[b] = "open" => pc[b] = "open"
  PROVE  SessionsFresh'
<1> SUFFICES ASSUME NEW b \in Actors, pc'[b] = "open"  PROVE Fresh(b)'
  BY DEF SessionsFresh, Fresh
<1>1. sess[b].old.revision <= task.revision
  BY DEF SessionsFresh, Fresh
<1>2. sess[b].old.revision \in Nat /\ task.revision \in Nat
  BY DEF TypeInv, TypeOK, Row
<1> QED BY <1>1, <1>2 DEF Fresh

SaveKeepsStatus ==
  Orderly' /\ task.status \in {"published", "rejected"}
    => task'.status = task.status

LEMMA SaveOrderly ==
  ASSUME TypeInv, OrderlyInv, NEW a \in Actors, Save(a)
  PROVE  OrderlyInv' /\ SaveKeepsStatus
<1>1. CASE /\ pc' = [pc EXCEPT ![a] = "idle"]
           /\ sess' = [sess EXCEPT ![a] = NoSession]
           /\ UNCHANGED <<task, overlaps>>
  <2>1. OrderlyInv'
    BY <1>1, MoveOrderly DEF Holding, Orderly
  <2> QED BY <1>1, <2>1 DEF SaveKeepsStatus
<1>2. CASE pc' = [pc EXCEPT ![a] = "saved"] /\ UNCHANGED sess
  <2>1. /\ \A b \in Actors \ {a} : pc'[b] = pc[b]
        /\ pc'[a] = "saved" /\ pc[a] = "open"
    BY <1>2 DEF Save, TypeInv, TypeOK
  <2>2. SessionsSafe'
    BY <1>2, <2>1 DEF OrderlyInv, SessionsSafe, SessionSafe
  <2>3. ASSUME Orderly'
        PROVE  SessionsFresh' /\ OwnerOnce' /\ SaveKeepsStatus
    <3>1. /\ Orderly /\ sess[a].old = task /\ task' = sess[a].new
          /\ task'.revision = task.revision + 1
      BY <1>2, <2>3, FreshCommit
    <3>2. SessionsFresh'
      BY <1>2, <2>1, <3>1, FreshLater DEF OrderlyInv
    <3>3. SessionSafe(a)
      BY DEF OrderlyInv, SessionsSafe
    <3>4. ASSUME NEW b \in Actors, Owning(b)'
          PROVE  Owning(b) /\ task'.status = "publishing"
      <4>1. Owning(b) /\ b # a
        BY <1>2, <2>1, <3>4 DEF Owning, Holding
      <4>2. ~Owning(a) /\ task.status = "publishing"
        BY <3>1, <4>1 DEF OrderlyInv, OwnerOnce
      <4>3. sess[a].next \notin Ends
        BY <2>1, <4>2 DEF Owning
      <4> QED BY <2>1, <3>1, <3>3, <4>1, <4>2, <4>3 DEF SessionSafe
    <3>5. OwnerOnce'
      BY <3>1, <3>4 DEF OrderlyInv, OwnerOnce
    <3>6. SaveKeepsStatus
      BY <2>1, <3>1, <3>3 DEF SessionSafe, SaveKeepsStatus
    <3> QED BY <3>2, <3>5, <3>6
  <2> QED BY <2>2, <2>3 DEF OrderlyInv, SaveKeepsStatus
<1> QED BY <1>1, <1>2 DEF Save

LEMMA ClaimOrderly ==
  ASSUME TypeInv, OrderlyInv, NEW a \in Actors, Claim(a)
  PROVE  OrderlyInv' /\ SaveKeepsStatus
<1>0. UNCHANGED overlaps
  BY DEF Claim, ghosts
<1>1. CASE /\ Claimable(task, view[a].revision)
           /\ task' = ClaimedRow(task)
           /\ pc' = [pc EXCEPT ![a] = "claimed"]
           /\ sess' = [sess EXCEPT ![a] = [old |-> task', new |-> task',
                                           log |-> FALSE, next |-> "owner"]]
  <2>1. task.status \in {"approved", "failed"}
    BY <1>1 DEF Claimable
  <2>2. /\ \A b \in Actors \ {a} : pc'[b] = pc[b] /\ sess'[b] = sess[b]
        /\ pc'[a] = "claimed" /\ sess'[a].next = "owner"
    BY <1>1 DEF TypeInv, TypeOK
  <2>3. task'.status = "publishing" /\ task'.revision = task.revision + 1
    BY <1>1 DEF ClaimedRow, Bump, TypeInv, TypeOK, Row
  <2>4. SessionsSafe'
    BY <2>2 DEF OrderlyInv, SessionsSafe, SessionSafe
  <2>5. ASSUME Orderly  PROVE SessionsFresh'
    <3> SUFFICES ASSUME NEW b \in Actors, pc'[b] = "open"  PROVE Fresh(b)'
      BY DEF SessionsFresh, Fresh
    <3>1. pc[b] = "open" /\ sess'[b] = sess[b]
      BY <2>2
    <3>2. sess[b].old.revision <= task.revision
      BY <2>5, <3>1 DEF OrderlyInv, SessionsFresh, Fresh
    <3>3. sess[b].old.revision \in Nat /\ task.revision \in Nat
      BY DEF TypeInv, TypeOK, Row
    <3> QED BY <2>3, <3>1, <3>2, <3>3 DEF Fresh
  <2>6. ASSUME Orderly  PROVE OwnerOnce'
    <3>1. \A b \in Actors : ~Owning(b)
      BY <2>1, <2>6 DEF OrderlyInv, OwnerOnce
    <3> QED BY <2>2, <2>3, <3>1 DEF OwnerOnce, Owning
  <2> QED BY <1>0, <2>1, <2>4, <2>5, <2>6
          DEF OrderlyInv, Orderly, SaveKeepsStatus
<1>2. CASE Return(a) /\ UNCHANGED <<task, sess>>
  <2>1. OrderlyInv'
    BY <1>0, <1>2, MoveOrderly DEF Return, Holding, Orderly
  <2> QED BY <1>2, <2>1 DEF SaveKeepsStatus
<1> QED BY <1>1, <1>2 DEF Claim, ClaimRefused

\* The end of a session: the actor goes on where the session says.
LEMMA RefreshOrderly ==
  ASSUME TypeInv, OrderlyInv, NEW a \in Actors, Refresh(a) \/ ClaimRefresh(a)
  PROVE  OrderlyInv' /\ UNCHANGED task
<1>1. /\ pc' = [pc EXCEPT ![a] = sess[a].next]
      /\ sess' = [sess EXCEPT ![a] = NoSession] /\ UNCHANGED task
      /\ Orderly' => Orderly
  BY DEF Refresh, ClaimRefresh, db, Remember, Orderly
<1>2. SessionSafe(a)
  BY DEF OrderlyInv, SessionsSafe
<1>3. CASE Refresh(a)
  <2>1. sess[a].next \in {"idle", "claim", "request"} \cup Ends
    BY <1>2, <1>3 DEF SessionSafe, Refresh
  <2> QED BY <1>1, <2>1, MoveOrderly DEF Ends, Holding
<1>4. CASE ClaimRefresh(a)
  <2>1. sess[a].next = "owner" /\ pc[a] = "claimed"
    BY <1>2, <1>4 DEF SessionSafe, ClaimRefresh
  <2> QED BY <1>1, <2>1, MoveOrderly DEF Holding
<1> QED BY <1>3, <1>4

LEMMA OrderlyStep ==
  ASSUME TypeInv, OrderlyInv, [Next]_vars
  PROVE  OrderlyInv' /\ SaveKeepsStatus
<1> Reviewers \subseteq Actors /\ AutoApprove \in Actors /\ Consumer \in Actors
  BY DEF Actors, Sender
<1> task \in Row
  BY DEF TypeInv, TypeOK
<1> DEFINE Goal == OrderlyInv' /\ UNCHANGED task
<1> USE DEF ghosts
<1>1. ASSUME NEW a \in Reviewers, ReviewerOp(a)  PROVE Goal
  <2>1. ASSUME NEW t \in Texts, EditText(a, t)  PROVE Goal
    <3>1. Begin(a, EditedRow(t), TRUE, "idle") /\ UNCHANGED <<task, overlaps>>
          /\ task.status \in {"pending", "editing"}
      BY <2>1 DEF EditText, db
    <3>2. EditedRow(t).revision = task.revision + 1
      BY DEF EditedRow, Bump, Row
    <3> QED BY <3>1, <3>2, BeginOrderly DEF Ends
  <2>2. ASSUME NEW n \in DOMAIN revisions, RestoreRevision(a, n)  PROVE Goal
    <3> DEFINE row == [Bump(task) EXCEPT
                         !.status = IF @ = "pending" THEN "editing" ELSE @,
                         !.text = revisions[n]]
    <3>1. /\ task.status # "pending" => row.status = task.status
          /\ row.revision = task.revision + 1
      BY DEF Bump, Row
    <3>2. Begin(a, row, TRUE, "idle") /\ UNCHANGED <<task, overlaps>>
      BY <2>2 DEF RestoreRevision, db
    <3> HIDE DEF row
    <3> QED BY <3>1, <3>2, BeginOrderly DEF Ends
  <2>3. ASSUME NEW t \in Texts, NEW r \in BOOLEAN, ReapplyRules(a, t, r)
        PROVE  Goal
    <3> DEFINE st == CASE r                      -> "rejected"
                       [] task.status = "failed" -> "pending"
                       [] OTHER                  -> "editing"
               row == [Bump(task) EXCEPT !.status = st, !.text = t]
    <3>1. Begin(a, row, TRUE, "idle") /\ UNCHANGED <<task, overlaps>>
          /\ task.status \in {"pending", "editing", "failed"}
      BY <2>3 DEF ReapplyRules, db
    <3>2. row.revision = task.revision + 1
      BY DEF Bump, Row
    <3> HIDE DEF row
    <3> QED BY <3>1, <3>2, BeginOrderly DEF Ends
  <2>4. ASSUME NEW status \in {"approved", "rejected"},
               status \in Allowed(task.status),
               Begin(a, Transition(task, status), FALSE, "idle"),
               UNCHANGED <<task, overlaps>>
        PROVE  Goal
    <3>1. task.status \notin {"publishing", "published", "rejected"}
      BY <2>4 DEF Allowed
    <3>2. Transition(task, status).revision = task.revision + 1
      BY RowColumns DEF Statuses
    <3> QED BY <2>4, <3>1, <3>2, BeginOrderly DEF Ends
  <2>5. CASE Approve(a) \/ Reject(a)
    BY <2>4, <2>5 DEF Approve, Reject, db
  <2>6. CASE PublishDecided(a)
    BY <2>6, MoveOrderly DEF PublishDecided, Holding, db, Orderly
  <2> QED BY <1>1, <2>1, <2>2, <2>3, <2>5, <2>6 DEF ReviewerOp
<1>2. ASSUME NEW a \in Reviewers \cup {AutoApprove}, PublishUndecided(a)
      PROVE  Goal
  <2> DEFINE next == IF a = AutoApprove THEN "claim" ELSE "request"
  <2>1. /\ Begin(a, Transition(task, "approved"), FALSE, next)
        /\ UNCHANGED <<task, overlaps>>
        /\ task.status \in {"pending", "editing"}
    BY <1>2 DEF PublishUndecided, db
  <2>2. next \in {"claim", "request"}
    OBVIOUS
  <2>3. Transition(task, "approved").revision = task.revision + 1
    BY RowColumns DEF Statuses
  <2> HIDE DEF next
  <2> QED BY <2>1, <2>2, <2>3, BeginOrderly DEF Ends
<1>3. ASSUME TakeCommand  PROVE Goal
  <2>1. /\ pc' = [pc EXCEPT ![Consumer] = "claim"]
        /\ UNCHANGED <<task, sess, overlaps>>
    BY <1>3 DEF TakeCommand, db
  <2>2. /\ Orderly' => Orderly
        /\ sess' \in {sess, [sess EXCEPT ![Consumer] = NoSession]}
    BY <2>1 DEF Orderly
  <2> QED BY <2>1, <2>2, MoveOrderly DEF Holding
<1>4. ASSUME NEW a \in Actors, Refresh(a) \/ ClaimRefresh(a)  PROVE Goal
  BY <1>4, RefreshOrderly
<1>5. ASSUME NEW a \in Actors,
             Request(a) \/ Resolve(a) \/ Deliver(a) \/ Record(a)
      PROVE  Goal
  <2>1. CASE Request(a)
    BY <2>1, MoveOrderly DEF Request, Holding, db, Orderly
  <2>2. CASE Resolve(a)
    BY <2>2, MoveOrderly DEF Resolve, Holding, Orderly
  <2>3. CASE Deliver(a)
    BY <2>3, MoveOrderly, DeliverCases DEF Deliver, Holding, db, Orderly
  <2>4. CASE Record(a)
    BY <2>4, MoveOrderly DEF Record, Return, Holding, Orderly
  <2> QED BY <1>5, <2>1, <2>2, <2>3, <2>4
<1>6. ASSUME NEW a \in Actors, CheckProcessed(a)  PROVE Goal
  <2>1. CASE Conclude(a, "published", "done")
    BY <1>6, <2>1, ConcludeOrderly DEF CheckProcessed, Holding, Ends, db
  <2>2. CASE pc' = [pc EXCEPT ![a] = "resolving"] /\ UNCHANGED sess
    BY <1>6, <2>2, MoveOrderly DEF CheckProcessed, Holding, db, Orderly
  <2> QED BY <1>6, <2>1, <2>2 DEF CheckProcessed
<1>7. ASSUME NEW a \in Actors, Finish(a)  PROVE Goal
  BY <1>7, ConcludeOrderly DEF Finish, Holding, Ends, db
<1>8. ASSUME NEW process \in {Sender, Reviewers}, Crash(process)  PROVE Goal
  <2>1. /\ UNCHANGED <<task, overlaps>>
        /\ \A b \in Actors : \/ pc'[b] = "idle" /\ sess'[b] = NoSession
                             \/ pc'[b] = pc[b] /\ sess'[b] = sess[b]
    BY <1>8 DEF Crash, db
  <2>2. \A b \in Actors : Owning(b)' => Owning(b)
    BY <2>1 DEF Owning, Holding
  <2>3. OwnerOnce => OwnerOnce'
    BY <2>1, <2>2 DEF OwnerOnce
  <2>4. SessionsSafe' /\ (SessionsFresh => SessionsFresh')
    BY <2>1
    DEF OrderlyInv, SessionsSafe, SessionSafe, SessionsFresh, Fresh
  <2> QED BY <2>1, <2>3, <2>4 DEF OrderlyInv, Orderly
<1>9. ASSUME UNCHANGED <<task, pc, sess, overlaps>>  PROVE Goal
  <2>1. SessionsSafe' /\ (SessionsFresh => SessionsFresh')
    BY <1>9 DEF OrderlyInv, SessionsSafe, SessionSafe, SessionsFresh, Fresh
  <2>2. OwnerOnce => OwnerOnce'
    BY <1>9 DEF OwnerOnce, Owning
  <2>3. UNCHANGED task /\ (Orderly' => Orderly)
    BY <1>9 DEF Orderly
  <2> QED BY <2>1, <2>2, <2>3 DEF OrderlyInv
<1>10. Goal => OrderlyInv' /\ SaveKeepsStatus
  BY DEF SaveKeepsStatus
<1> HIDE DEF Goal
<1> QED BY <1>1, <1>2, <1>3, <1>4, <1>5, <1>6, <1>7, <1>8, <1>9, <1>10,
           SaveOrderly, ClaimOrderly
        DEF Next, Proceed, OpenTask, PipelinePublishes, vars, db

LEMMA OrderlyInit == Init => TypeInv /\ OrderlyInv
<1> SUFFICES ASSUME Init  PROVE OrderlyInv
  BY TypeInit
<1>1. \A a \in Actors : pc[a] = "idle"
  BY DEF Init
<1> QED BY <1>1 DEF OrderlyInv, SessionsSafe, SessionSafe, SessionsFresh, Fresh,
                    OwnerOnce, Owning, Holding

\* A claim is exclusive, for any number of sessions on the row: until a stale
\* commit has moved the row under its owner, at most one of the reviewers, the
\* auto-approve loop and the command consumer is between its claim and the end
\* of it, restores and crashes in between included.
THEOREM ExclusiveClaim == Spec => []OnePublisher
<1>1. TypeInv /\ OrderlyInv /\ [Next]_vars => (TypeInv /\ OrderlyInv)'
  BY TypeStep, OrderlyStep
<1>2. OrderlyInv => OnePublisher
  <2> SUFFICES ASSUME OrderlyInv, Orderly  PROVE Cardinality(Holders) <= 1
    BY DEF OnePublisher
  <2>1. \A a, b \in Holders : a = b
    BY DEF Holders, OrderlyInv, OwnerOnce, Owning
  <2>2. CASE Holders = {}
    BY <2>2, FS_EmptySet
  <2>3. ASSUME NEW a \in Holders  PROVE Cardinality(Holders) <= 1
    <3>1. Holders = {a}
      BY <2>1
    <3>2. Cardinality(Holders) = 1
      BY <3>1, FS_Singleton
    <3> QED BY <3>2, SMT
  <2> QED BY <2>2, <2>3
<1> QED BY <1>1, <1>2, OrderlyInit, PTL DEF Spec

\* A task that is published or rejected never gets another status, unless a
\* session that loaded it before commits over it.
THEOREM FinalDecisions == Spec => DecisionsAreFinal
<1>1. TypeInv /\ OrderlyInv /\ [Next]_vars => (TypeInv /\ OrderlyInv)'
  BY TypeStep, OrderlyStep
<1>2. TypeInv /\ OrderlyInv /\ [Next]_vars =>
        [Orderly' /\ task.status \in {"published", "rejected"}
           => task'.status = task.status]_vars
  BY OrderlyStep DEF SaveKeepsStatus
<1> QED BY <1>1, <1>2, OrderlyInit, PTL DEF Spec, DecisionsAreFinal

-----------------------------------------------------------------------------
(* No overlap yet: what goes out is what was asked for.                    *)

\* A revision number names one text: whoever holds the row's revision number
\* holds its text.
Fits(v, row) ==
  /\ v.revision <= row.revision
  /\ v.revision = row.revision => v.text = row.text

\* The revision an actor has written, with the text it has asked for.
Written(a) == [revision |-> sess[a].new.revision, text |-> asked[a]]

Asking(a) ==
  \/ pc[a] = "claimed"
  \/ pc[a] = "saved" /\ sess[a].next \in {"request", "claim"}

\* What an actor on its way to a publication has asked for: the text it was
\* shown with the revision it sends along, then the text it wrote its revision
\* with, then the text its claim returned.
AskedFits(a) ==
  /\ pc[a] \in {"request", "claim", "owner", "resolving", "sending"}
       => asked[a] = view[a].text
  /\ Asking(a) => Fits(Written(a), task)
  /\ pc[a] = "open" /\ sess[a].next \in {"request", "claim"}
       => asked[a] = sess[a].new.text

SentFits == \A i \in DOMAIN sent : sent[i].text = sent[i].asked

AskedInv ==
  /\ \A a \in Actors : Fits(view[a], task) /\ AskedFits(a)
  /\ \A i \in DOMAIN commands : Fits(commands[i], task)
  /\ SentFits

\* What was read stays behind a row that has moved on by a revision.
LEMMA FitsLater ==
  ASSUME NEW v, v.revision \in Nat, NEW row \in Row, NEW next \in Row,
         Fits(v, row), next.revision = row.revision + 1
  PROVE  Fits(v, next)
  BY DEF Fits, Row

LEMMA SeenFits == ASSUME NEW row \in Row  PROVE Fits(Seen(row), row)
  BY DEF Fits, Seen, Row

\* A queue and its entries, whatever holds of each of them.
LEMMA QueueEntries ==
  ASSUME NEW S, NEW s \in Seq(S)
  PROVE  /\ \A i \in DOMAIN s : s[i] \in S
         /\ s # <<>> => \A i \in DOMAIN Tail(s) :
                          i + 1 \in DOMAIN s /\ Tail(s)[i] = s[i + 1]
         /\ s # <<>> => 1 \in DOMAIN s /\ Head(s) = s[1]
         /\ \A e \in S : \A i \in DOMAIN Append(s, e) :
              Append(s, e)[i] = e \/ (i \in DOMAIN s /\ Append(s, e)[i] = s[i])
<1>1. DOMAIN s = 1..Len(s) /\ Len(s) \in Nat
  OBVIOUS
<1>2. ASSUME s # <<>>
      PROVE  /\ \A i \in DOMAIN Tail(s) : i + 1 \in DOMAIN s /\ Tail(s)[i] = s[i + 1]
             /\ 1 \in DOMAIN s /\ Head(s) = s[1]
  <2>1. Len(s) # 0 /\ Head(s) = s[1]
    BY <1>2, EmptySeq
  <2>2. Tail(s) \in Seq(S) /\ Len(Tail(s)) = Len(s) - 1
    BY <1>2, HeadTailProperties
  <2>3. \A i \in 1..(Len(s) - 1) : Tail(s)[i] = s[i + 1]
    BY <1>2, <2>2
  <2> QED BY <1>1, <2>1, <2>2, <2>3
<1>3. ASSUME NEW e \in S, NEW i \in DOMAIN Append(s, e)
      PROVE  Append(s, e)[i] = e \/ (i \in DOMAIN s /\ Append(s, e)[i] = s[i])
  BY <1>1, <1>3, AppendProperties
<1>4. \A i \in DOMAIN s : s[i] \in S
  BY <1>1, ElementOfSeq
<1> QED BY <1>2, <1>3, <1>4

\* A step of one actor that leaves the row alone.
LEMMA AskedLocal ==
  ASSUME AskedInv, UNCHANGED task, NEW a \in Actors,
         \A b \in Actors \ {a} : /\ pc'[b] = pc[b] /\ view'[b] = view[b]
                                 /\ sess'[b] = sess[b] /\ asked'[b] = asked[b],
         Fits(view'[a], task), AskedFits(a)',
         \A i \in DOMAIN commands' : Fits(commands'[i], task),
         SentFits'
  PROVE  AskedInv'
<1>1. \A b \in Actors \ {a} : /\ Fits(view'[b], task)
                              /\ AskedFits(b)'
  BY DEF AskedInv, AskedFits, Asking, Written
<1> QED BY <1>1 DEF AskedInv

\* The checks of an operation opened a session on the row.
LEMMA BeginAsked ==
  ASSUME TypeInv, AskedInv, UNCHANGED <<task, view, commands, sent>>,
         NEW a \in Actors, NEW new, NEW log, NEW next,
         Begin(a, new, log, next),
         \A b \in Actors \ {a} : asked'[b] = asked[b],
         next \in {"request", "claim"} => asked'[a] = new.text
  PROVE  AskedInv'
<1>1. /\ \A b \in Actors \ {a} : pc'[b] = pc[b] /\ sess'[b] = sess[b]
      /\ pc'[a] = "open"
      /\ sess'[a] = [old |-> task, new |-> new, log |-> log, next |-> next]
  BY DEF Begin, TypeInv, TypeOK
<1>2. AskedFits(a)'
  BY <1>1 DEF AskedFits, Asking, Written
<1>3. Fits(view'[a], task) /\ \A i \in DOMAIN commands' : Fits(commands'[i], task)
  BY DEF AskedInv
<1>4. SentFits'
  BY DEF AskedInv, SentFits
<1> QED BY <1>1, <1>2, <1>3, <1>4, AskedLocal

\* A step that only moves the actor, to a place where it holds no session.
LEMMA MoveAsked ==
  ASSUME TypeInv, AskedInv, UNCHANGED <<task, view, sess, asked>>,
         NEW a \in Actors, NEW p, pc' = [pc EXCEPT ![a] = p],
         p \notin {"open", "saved", "claimed"},
         p \in {"request", "claim", "owner", "resolving", "sending"}
           => asked[a] = view[a].text,
         \A i \in DOMAIN commands' : Fits(commands'[i], task),
         SentFits'
  PROVE  AskedInv'
<1>1. pc'[a] = p /\ \A b \in Actors \ {a} : pc'[b] = pc[b]
  BY DEF TypeInv, TypeOK
<1>2. AskedFits(a)'
  BY <1>1 DEF AskedFits, Asking, Written
<1> QED BY <1>1, <1>2, AskedLocal DEF AskedInv

LEMMA ReturnAsked ==
  ASSUME TypeInv, AskedInv, NEW a \in Actors, Return(a),
         a = Consumer => commands # <<>>,
         UNCHANGED <<task, view, sess, asked, sent>>
  PROVE  AskedInv'
<1>1. \A i \in DOMAIN commands' : Fits(commands'[i], task)
  <2>1. CASE UNCHANGED commands
    BY <2>1 DEF AskedInv
  <2>2. CASE a = Consumer /\ commands' = Tail(commands)
    <3> SUFFICES ASSUME NEW i \in DOMAIN commands'
                 PROVE  Fits(commands'[i], task)
      OBVIOUS
    <3>1. i + 1 \in DOMAIN commands /\ commands'[i] = commands[i + 1]
      BY <2>2, QueueEntries DEF TypeInv, TypeOK
    <3> QED BY <3>1 DEF AskedInv
  <2> QED BY <2>1, <2>2 DEF Return
<1>2. pc' = [pc EXCEPT ![a] = "idle"]
  BY DEF Return
<1>3. SentFits'
  BY DEF AskedInv, SentFits
<1> QED BY <1>1, <1>2, <1>3, MoveAsked

LEMMA ConcludeAsked ==
  ASSUME TypeInv, AskedInv, NEW a \in Actors,
         NEW status \in {"published", "failed"}, NEW next \in Ends,
         Conclude(a, status, next),
         UNCHANGED <<task, view, commands, asked, sent>>
  PROVE  AskedInv'
<1>1. CASE Begin(a, Transition(task, status), FALSE, next)
  <2>1. Transition(task, status).revision = task.revision + 1
    BY RowColumns DEF TypeInv, TypeOK, Statuses
  <2> QED BY <1>1, <2>1, BeginAsked DEF Ends
<1>2. CASE Raise(a) /\ UNCHANGED sess
  <2>1. SentFits'
    BY DEF AskedInv, SentFits
  <2> QED BY <1>2, <2>1, MoveAsked DEF Raise, AskedInv
<1> QED BY <1>1, <1>2 DEF Conclude

\* A commit or a claim moves the row to its next revision: what the others have
\* read or written falls behind.
LEMMA CommitAsked ==
  ASSUME TypeInv, AskedInv, task' \in Row, task'.revision = task.revision + 1,
         NEW a \in Actors,
         \A b \in Actors \ {a} : pc'[b] = pc[b] /\ sess'[b] = sess[b],
         pc'[a] \in {"saved", "claimed"},
         Asking(a)' => /\ sess'[a].new.revision = task'.revision
                       /\ asked[a] = task'.text,
         UNCHANGED <<view, commands, asked, sent>>
  PROVE  AskedInv'
<1>1. AskedFits(a)'
  <2>1. task'.revision <= task'.revision
    BY DEF Row
  <2>2. Asking(a)' => Fits(Written(a), task)'
    BY <2>1 DEF Fits, Written
  <2> QED BY <2>2 DEF AskedFits
<1>2. task \in Row
  BY DEF TypeInv, TypeOK
<1>3. \A b \in Actors \ {a} : AskedFits(b)'
  <2> SUFFICES ASSUME NEW b \in Actors \ {a}  PROVE AskedFits(b)'
    OBVIOUS
  <2>1. AskedFits(b) /\ (Asking(b)' => Asking(b)) /\ Written(b)' = Written(b)
    BY DEF AskedInv, Asking, Written
  <2>2. Written(b).revision \in Nat
    BY DEF Written, TypeInv, TypeOK, Row
  <2>3. Fits(Written(b), task) => Fits(Written(b), task')
    BY <1>2, <2>2, FitsLater
  <2>4. Asking(b)' => Fits(Written(b), task)'
    BY <2>1, <2>3 DEF AskedFits
  <2> QED BY <2>1, <2>4 DEF AskedFits
<1>4. \A b \in Actors : Fits(view[b], task')
  <2>1. \A b \in Actors : view[b].revision \in Nat
    BY DEF TypeInv, TypeOK
  <2> QED BY <1>2, <2>1, FitsLater DEF AskedInv
<1>5. \A i \in DOMAIN commands : Fits(commands[i], task')
  <2>1. \A i \in DOMAIN commands : commands[i].revision \in Nat
    <3>1. commands \in Seq([revision : Nat, text : Texts])
      BY DEF TypeInv, TypeOK
    <3>2. \A i \in DOMAIN commands :
            commands[i] \in [revision : Nat, text : Texts]
      BY <3>1, QueueEntries
    <3> QED BY <3>2
  <2> QED BY <1>2, <2>1, FitsLater DEF AskedInv
<1>6. SentFits'
  BY DEF AskedInv, SentFits
<1>7. \A b \in Actors : Fits(view[b], task)' /\ AskedFits(b)'
  BY <1>1, <1>3, <1>4
<1>8. \A i \in DOMAIN commands' : Fits(commands[i], task)'
  BY <1>5
<1> QED BY <1>6, <1>7, <1>8 DEF AskedInv

LEMMA SaveAsked ==
  ASSUME TypeInv, OrderlyInv, AskedInv, NEW a \in Actors, Save(a), Orderly'
  PROVE  AskedInv'
<1>1. pc[a] = "open" /\ UNCHANGED <<view, commands, asked, sent>>
  BY DEF Save
<1>2. CASE /\ pc' = [pc EXCEPT ![a] = "idle"]
           /\ sess' = [sess EXCEPT ![a] = NoSession]
           /\ UNCHANGED task
  <2>1. /\ pc'[a] = "idle"
        /\ \A b \in Actors \ {a} : pc'[b] = pc[b] /\ sess'[b] = sess[b]
    BY <1>2 DEF TypeInv, TypeOK
  <2>2. AskedFits(a)'
    BY <2>1 DEF AskedFits, Asking
  <2>3. SentFits'
    BY <1>1 DEF AskedInv, SentFits
  <2> QED BY <1>1, <1>2, <2>1, <2>2, <2>3, AskedLocal DEF AskedInv
<1>3. CASE pc' = [pc EXCEPT ![a] = "saved"] /\ UNCHANGED sess
  <2>1. task' = sess[a].new /\ task'.revision = task.revision + 1
    BY <1>3, FreshCommit
  <2>2. pc'[a] = "saved" /\ \A b \in Actors \ {a} : pc'[b] = pc[b]
    BY <1>3 DEF TypeInv, TypeOK
  <2>3. task' \in Row
    BY <2>1 DEF TypeInv, TypeOK
  <2>4. Asking(a)' => asked[a] = task'.text
    BY <1>1, <1>3, <2>1, <2>2 DEF AskedInv, AskedFits, Asking
  <2> QED BY <1>1, <1>3, <2>1, <2>2, <2>3, <2>4, CommitAsked
<1> QED BY <1>2, <1>3 DEF Save

LEMMA ClaimAsked ==
  ASSUME TypeInv, AskedInv, NEW a \in Actors, Claim(a)
  PROVE  AskedInv'
<1>1. /\ UNCHANGED <<view, asked, sent>> /\ pc[a] = "claim"
      /\ a = Consumer => commands # <<>>
      /\ task \in Row
  BY DEF Claim, TypeInv, TypeOK, ConsumerHasEntry, ghosts
<1>2. CASE /\ Claimable(task, view[a].revision)
           /\ task' = ClaimedRow(task)
           /\ pc' = [pc EXCEPT ![a] = "claimed"]
           /\ sess' = [sess EXCEPT ![a] = [old |-> task', new |-> task',
                                           log |-> FALSE, next |-> "owner"]]
           /\ UNCHANGED commands
  <2>1. asked[a] = task.text
    BY <1>1, <1>2 DEF AskedInv, AskedFits, Fits, Claimable
  <2>2. /\ task' \in Row /\ task'.revision = task.revision + 1
        /\ task'.text = task.text
    BY <1>1, <1>2, ClaimedType, RowColumns DEF Statuses
  <2>3. /\ pc'[a] = "claimed" /\ sess'[a].new = task'
        /\ \A b \in Actors \ {a} : pc'[b] = pc[b] /\ sess'[b] = sess[b]
    BY <1>2 DEF TypeInv, TypeOK
  <2> QED BY <1>1, <1>2, <2>1, <2>2, <2>3, CommitAsked
<1>3. CASE Return(a) /\ UNCHANGED <<task, sess>>
  BY <1>1, <1>3, ReturnAsked
<1> QED BY <1>2, <1>3 DEF Claim, ClaimRefused

LEMMA AskedStep ==
  ASSUME TypeInv, OrderlyInv, AskedInv, [Next]_vars, overlaps' = {}
  PROVE  AskedInv'
<1> Reviewers \subseteq Actors /\ AutoApprove \in Actors /\ Consumer \in Actors
  BY DEF Actors, Sender
<1> task \in Row
  BY DEF TypeInv, TypeOK
<1>1. ASSUME NEW a \in Reviewers, ReviewerOp(a)  PROVE AskedInv'
  <2>1. ASSUME NEW new, NEW log, Begin(a, new, log, "idle"),
               UNCHANGED <<task, view, commands, asked, sent>>
        PROVE  AskedInv'
    BY <2>1, BeginAsked
  <2>2. CASE \E t \in Texts : EditText(a, t)
    BY <2>1, <2>2 DEF EditText, db, ghosts
  <2>3. CASE \E n \in DOMAIN revisions : RestoreRevision(a, n)
    BY <2>1, <2>3 DEF RestoreRevision, db, ghosts
  <2>4. CASE \E t \in Texts, r \in BOOLEAN : ReapplyRules(a, t, r)
    BY <2>1, <2>4 DEF ReapplyRules, db, ghosts
  <2>5. CASE Approve(a)
    BY <2>1, <2>5 DEF Approve, db, ghosts
  <2>6. CASE Reject(a)
    BY <2>1, <2>6 DEF Reject, db, ghosts
  <2>7. CASE PublishDecided(a)
    <3>1. /\ pc'[a] = "request" /\ asked'[a] = view[a].text
          /\ \A b \in Actors \ {a} : pc'[b] = pc[b] /\ asked'[b] = asked[b]
          /\ UNCHANGED <<task, view, sess, commands, sent>>
      BY <2>7 DEF PublishDecided, db, ghosts, TypeInv, TypeOK
    <3>2. AskedFits(a)'
      BY <3>1 DEF AskedFits, Asking, Written
    <3>3. SentFits'
      BY <3>1 DEF AskedInv, SentFits
    <3> QED BY <3>1, <3>2, <3>3, AskedLocal DEF AskedInv
  <2> QED BY <1>1, <2>2, <2>3, <2>4, <2>5, <2>6, <2>7 DEF ReviewerOp
<1>2. ASSUME NEW a \in Reviewers \cup {AutoApprove}, PublishUndecided(a)
      PROVE  AskedInv'
  <2> DEFINE next == IF a = AutoApprove THEN "claim" ELSE "request"
  <2>1. /\ Begin(a, Transition(task, "approved"), FALSE, next)
        /\ UNCHANGED <<task, view, commands, sent>>
        /\ Current(a) /\ asked' = [asked EXCEPT ![a] = view[a].text]
    BY <1>2 DEF PublishUndecided, db, ghosts
  <2> HIDE DEF next
  <2>2. Transition(task, "approved").text = task.text
    BY RowColumns DEF Statuses
  <2>3. asked'[a] = task.text /\ \A b \in Actors \ {a} : asked'[b] = asked[b]
    BY <2>1 DEF AskedInv, Fits, Current, TypeInv, TypeOK
  <2> QED BY <2>1, <2>2, <2>3, BeginAsked
<1>3. ASSUME NEW a \in Reviewers \cup {AutoApprove}, OpenTask(a)
      PROVE  AskedInv'
  <2>1. /\ pc[a] = "idle" /\ view'[a] = Seen(task)
        /\ \A b \in Actors \ {a} : view'[b] = view[b]
        /\ UNCHANGED <<task, pc, sess, commands, asked, sent>>
    BY <1>3 DEF OpenTask, db, ghosts, TypeInv, TypeOK
  <2>2. AskedFits(a)' /\ Fits(view'[a], task)
    BY <2>1, SeenFits DEF AskedFits, Asking, Written
  <2>3. SentFits'
    BY <2>1 DEF AskedInv, SentFits
  <2> QED BY <2>1, <2>2, <2>3, AskedLocal DEF AskedInv
<1>4. CASE TakeCommand
  <2>1. Head(commands) = commands[1] /\ 1 \in DOMAIN commands
    BY <1>4, QueueEntries DEF TakeCommand, TypeInv, TypeOK
  <2>2. /\ pc'[Consumer] = "claim"
        /\ view'[Consumer] = Head(commands)
        /\ asked'[Consumer] = Head(commands).text
        /\ \A b \in Actors \ {Consumer} :
             pc'[b] = pc[b] /\ view'[b] = view[b] /\ asked'[b] = asked[b]
        /\ UNCHANGED <<task, sess, commands, sent>>
    BY <1>4 DEF TakeCommand, db, ghosts, TypeInv, TypeOK
  <2>3. /\ AskedFits(Consumer)'
        /\ Fits(view'[Consumer], task)
    BY <2>1, <2>2 DEF AskedFits, Asking, Written, AskedInv
  <2>4. SentFits'
    BY <2>2 DEF AskedInv, SentFits
  <2> QED BY <2>2, <2>3, <2>4, AskedLocal DEF AskedInv
<1>5. ASSUME NEW a \in Actors, Refresh(a)  PROVE AskedInv'
  <2>1. /\ view'[a] = Seen(task)
        /\ pc'[a] = sess[a].next /\ pc[a] = "saved"
        /\ \A b \in Actors \ {a} :
             pc'[b] = pc[b] /\ view'[b] = view[b] /\ sess'[b] = sess[b]
        /\ UNCHANGED <<task, commands, asked, sent>>
    BY <1>5 DEF Refresh, db, TypeInv, TypeOK
  <2>2. sess[a].next \in {"idle", "claim", "request"} \cup Ends
    BY <2>1 DEF OrderlyInv, SessionsSafe, SessionSafe
  <2>3. sess[a].next \in {"claim", "request"} => asked[a] = task.text
    <3>1. sess[a].next \in {"claim", "request"} => Fits(Written(a), task)
      BY <2>1 DEF AskedInv, AskedFits, Asking
    <3>2. sess[a].next \in {"claim", "request"}
            => task.revision = sess[a].new.revision
      BY <1>5 DEF Refresh, Remember
    <3> QED BY <3>1, <3>2 DEF Fits, Written
  <2>4. AskedFits(a)'
    BY <2>1, <2>2, <2>3 DEF AskedFits, Asking, Written, Ends, Seen
  <2>5. Fits(view'[a], task)
    BY <2>1, SeenFits
  <2>6. SentFits'
    BY <2>1 DEF AskedInv, SentFits
  <2> QED BY <2>1, <2>4, <2>5, <2>6, AskedLocal DEF AskedInv
<1>6. ASSUME NEW a \in Actors, Request(a)  PROVE AskedInv'
  <2> DEFINE e == [revision |-> view[a].revision, text |-> asked[a]]
  <2>1. asked[a] = view[a].text /\ Fits(view[a], task)
    BY <1>6 DEF Request, AskedInv, AskedFits
  <2>2. e \in [revision : Nat, text : Texts] /\ Fits(e, task)
    BY <2>1 DEF Fits, TypeInv, TypeOK
  <2> HIDE DEF e
  <2>3. \A i \in DOMAIN commands' : Fits(commands'[i], task)
    <3>1. CASE UNCHANGED commands
      BY <3>1 DEF AskedInv
    <3>2. CASE commands' = Append(commands, e)
      BY <2>2, <3>2, QueueEntries DEF AskedInv, TypeInv, TypeOK
    <3> QED BY <1>6, <3>1, <3>2 DEF Request, e
  <2>4. PICK p \in {"idle", "claim"} : pc' = [pc EXCEPT ![a] = p]
    BY <1>6 DEF Request
  <2>5. UNCHANGED <<task, view, sess, asked, sent>>
    BY <1>6 DEF Request, db, ghosts
  <2>6. SentFits'
    BY <2>5 DEF AskedInv, SentFits
  <2> QED BY <2>1, <2>3, <2>4, <2>5, <2>6, MoveAsked
<1>7. ASSUME NEW a \in Actors, ClaimRefresh(a)  PROVE AskedInv'
  <2>1. /\ pc'[a] = sess[a].next /\ view'[a] = Seen(task) /\ pc[a] = "claimed"
        /\ \A b \in Actors \ {a} :
             pc'[b] = pc[b] /\ view'[b] = view[b] /\ sess'[b] = sess[b]
        /\ UNCHANGED <<task, commands, asked, sent>>
    BY <1>7 DEF ClaimRefresh, db, TypeInv, TypeOK
  <2>5. sess[a].next = "owner"
    BY <2>1 DEF OrderlyInv, SessionsSafe, SessionSafe
  <2>6. asked[a] = task.text
    <3>1. Fits(Written(a), task)
      BY <2>1 DEF AskedInv, AskedFits, Asking
    <3>2. task.revision = sess[a].new.revision
      BY <1>7 DEF ClaimRefresh, Remember
    <3> QED BY <3>1, <3>2 DEF Fits, Written
  <2>2. AskedFits(a)'
    BY <2>1, <2>5, <2>6 DEF AskedFits, Asking, Seen
  <2>3. Fits(view'[a], task)
    BY <2>1, SeenFits
  <2>4. SentFits'
    BY <2>1 DEF AskedInv, SentFits
  <2> QED BY <2>1, <2>2, <2>3, <2>4, AskedLocal DEF AskedInv
<1>8. ASSUME NEW a \in Actors, CheckProcessed(a)  PROVE AskedInv'
  <2>1. UNCHANGED <<task, view, commands, asked, sent>> /\ pc[a] = "owner"
    BY <1>8 DEF CheckProcessed, db, ghosts
  <2>2. CASE Conclude(a, "published", "done")
    BY <2>1, <2>2, ConcludeAsked DEF Ends
  <2>3. CASE pc' = [pc EXCEPT ![a] = "resolving"] /\ UNCHANGED sess
    <3>1. asked[a] = view[a].text
      BY <2>1 DEF AskedInv, AskedFits
    <3>2. SentFits'
      BY <2>1 DEF AskedInv, SentFits
    <3> QED BY <2>1, <2>3, <3>1, <3>2, MoveAsked DEF AskedInv
  <2> QED BY <1>8, <2>2, <2>3 DEF CheckProcessed
<1>9. ASSUME NEW a \in Actors, Resolve(a)  PROVE AskedInv'
  <2>1. /\ UNCHANGED <<task, view, sess, commands, asked, sent>>
        /\ pc[a] = "resolving"
    BY <1>9 DEF Resolve, ghosts
  <2>2. asked[a] = view[a].text
    BY <2>1 DEF AskedInv, AskedFits
  <2>3. PICK p \in {"sending", "failing"} : pc' = [pc EXCEPT ![a] = p]
    BY <1>9 DEF Resolve, ghosts
  <2>4. SentFits'
    BY <2>1 DEF AskedInv, SentFits
  <2> QED BY <2>1, <2>2, <2>3, <2>4, MoveAsked DEF AskedInv
<1>10. ASSUME NEW a \in Actors, Deliver(a)  PROVE AskedInv'
  <2>1. /\ UNCHANGED <<task, view, sess, commands, asked>>
        /\ pc[a] = "sending"
    BY <1>10 DEF Deliver, db
  <2>2. asked[a] = view[a].text
    BY <2>1 DEF AskedInv, AskedFits
  <2>4. SentFits'
    <3>1. CASE UNCHANGED sent
      BY <3>1 DEF AskedInv, SentFits
    <3>2. ASSUME NEW ok \in BOOLEAN, sent' = Append(sent, Sending(a, ok))
          PROVE  SentFits'
      <4>1. sent \in Seq(Message) /\ Sending(a, ok) \in Message
        BY DEF TypeInv, TypeOK, Message, Sending
      <4>2. Sending(a, ok).text = Sending(a, ok).asked
        BY <2>2 DEF Sending
      <4> QED BY <3>2, <4>1, <4>2, QueueEntries DEF AskedInv, SentFits
    <3> QED BY <1>10, <3>1, <3>2, DeliverCases
  <2>5. PICK p \in {"sent", "failing"} : pc' = [pc EXCEPT ![a] = p]
    BY <1>10, DeliverCases
  <2> QED BY <2>1, <2>4, <2>5, MoveAsked DEF AskedInv
<1>11. ASSUME NEW a \in Actors, Finish(a)  PROVE AskedInv'
  BY <1>11, ConcludeAsked DEF Finish, Ends, db, ghosts
<1>12. ASSUME NEW a \in Actors, Record(a)  PROVE AskedInv'
  <2>1. /\ Return(a) /\ pc[a] # "idle"
        /\ UNCHANGED <<task, view, sess, asked, sent>>
    BY <1>12 DEF Record, ghosts
  <2>2. a = Consumer => commands # <<>>
    BY <2>1 DEF TypeInv, ConsumerHasEntry
  <2> QED BY <2>1, <2>2, ReturnAsked
<1>13. ASSUME NEW process \in {Sender, Reviewers}, Crash(process)
       PROVE  AskedInv'
  <2>1. /\ UNCHANGED <<task, view, commands, asked, sent>>
        /\ \A b \in Actors : \/ pc'[b] = "idle"
                             \/ pc'[b] = pc[b] /\ sess'[b] = sess[b]
    BY <1>13 DEF Crash, db, ghosts
  <2>2. \A b \in Actors : AskedFits(b)'
    BY <2>1 DEF AskedInv, AskedFits, Asking, Written
  <2>3. SentFits'
    BY <2>1 DEF AskedInv, SentFits
  <2> QED BY <2>1, <2>2, <2>3 DEF AskedInv
<1>14. CASE UNCHANGED <<task, pc, view, sess, commands, asked, sent>>
  BY <1>14 DEF AskedInv, AskedFits, Asking, Written, SentFits
<1>15. Orderly'
  BY DEF Orderly
<1> QED BY <1>1, <1>2, <1>3, <1>4, <1>5, <1>6, <1>7, <1>8, <1>9, <1>10,
           <1>11, <1>12, <1>13, <1>14, <1>15, SaveAsked, ClaimAsked
        DEF Next, Proceed, PipelinePublishes, vars, db, ghosts

LEMMA AskedInit == Init => AskedInv
<1> SUFFICES ASSUME Init  PROVE AskedInv
  OBVIOUS
<1>1. \A a \in Actors : pc[a] = "idle" /\ view[a] = Seen(task)
  BY DEF Init
<1>2. Fits(Seen(task), task)
  BY NewTaskType, SeenFits DEF Init
<1>3. DOMAIN commands = {} /\ DOMAIN sent = {}
  BY DEF Init
<1> QED BY <1>1, <1>2, <1>3
        DEF AskedInv, AskedFits, Asking, Written, SentFits

\* As long as no sessions have overlapped, any number of them: the text that
\* goes out is the one its publisher was asked to publish. An edit, a restore or
\* reapplied rules in between move the revision on, and the claim then refuses.
THEOREM AskedIsPublished == Spec => []PublishesWhatWasAsked
<1> DEFINE Inv == TypeInv /\ OrderlyInv /\ (overlaps = {} => AskedInv)
<1>1. Inv /\ [Next]_vars => Inv'
  <2> SUFFICES ASSUME Inv, [Next]_vars  PROVE Inv'
    OBVIOUS
  <2>1. TypeInv' /\ OrderlyInv'
    BY TypeStep, OrderlyStep
  <2>2. overlaps' = {} => overlaps = {}
    BY OverlapsGrow
  <2>3. overlaps' = {} => AskedInv'
    BY <2>2, AskedStep
  <2> QED BY <2>1, <2>3
<1>2. Inv => PublishesWhatWasAsked
  BY DEF AskedInv, SentFits, PublishesWhatWasAsked
<1>3. Init => Inv
  BY OrderlyInit, AskedInit
<1> QED BY <1>1, <1>2, <1>3, PTL DEF Spec

-----------------------------------------------------------------------------
(* The review refines ReviewOutcome.                                       *)

\* Until its attempt ends as a delivery no owner can have had one; it ends its
\* claim as published, or as failed when its attempt was no delivery.
OwnerOutcome(a) ==
  /\ pc[a] \in {"claimed", "owner", "resolving", "sending", "failing"}
       => ~Delivered
  /\ pc[a] = "open" /\ sess[a].next \in Ends =>
       \/ sess[a].new.status = "published"
       \/ sess[a].new.status = "failed" /\ ~Delivered

OutcomeInv ==
  /\ Delivered => task.status \in {"publishing", "published"}
  /\ \A a \in Actors : OwnerOutcome(a)

OutcomeStep ==
  \/ UNCHANGED <<Gone, Verdict>>
  \/ Promise!Reject
  \/ \E t \in Texts : Promise!Attempt(t)

\* A step that neither sends nor decides.
LEMMA SameOutcome ==
  ASSUME UNCHANGED sent, task'.status = task.status
  PROVE  /\ UNCHANGED <<Gone, Verdict>>
         /\ Delivered' = Delivered
  BY DEF Gone, Verdict, Delivered

\* A step of one actor that leaves the row and what was sent alone.
LEMMA LocalOutcome ==
  ASSUME OutcomeInv, UNCHANGED <<task, sent>>, NEW a \in Actors,
         \A b \in Actors \ {a} : pc'[b] = pc[b] /\ sess'[b] = sess[b],
         OwnerOutcome(a)'
  PROVE  OutcomeInv' /\ OutcomeStep
<1>0. UNCHANGED <<Gone, Verdict>> /\ Delivered' = Delivered
  BY SameOutcome
<1>1. \A b \in Actors \ {a} : OwnerOutcome(b)'
  BY <1>0 DEF OutcomeInv, OwnerOutcome
<1>2. OutcomeInv'
  BY <1>0, <1>1 DEF OutcomeInv
<1> QED BY <1>0, <1>2 DEF OutcomeStep

LEMMA BeginOutcome ==
  ASSUME TypeInv, OutcomeInv, UNCHANGED <<task, sent>>, NEW a \in Actors,
         NEW new, NEW log, NEW next, Begin(a, new, log, next),
         next \in Ends => \/ new.status = "published"
                          \/ new.status = "failed" /\ ~Delivered
  PROVE  OutcomeInv' /\ OutcomeStep
<1>1. /\ \A b \in Actors \ {a} : pc'[b] = pc[b] /\ sess'[b] = sess[b]
      /\ pc'[a] = "open"
      /\ sess'[a] = [old |-> task, new |-> new, log |-> log, next |-> next]
  BY DEF Begin, TypeInv, TypeOK
<1>2. OwnerOutcome(a)'
  BY <1>1, SameOutcome DEF OwnerOutcome
<1> QED BY <1>1, <1>2, LocalOutcome

LEMMA MoveOutcome ==
  ASSUME TypeInv, OutcomeInv, UNCHANGED <<task, sent>>, NEW a \in Actors,
         NEW p, pc' = [pc EXCEPT ![a] = p], p # "open",
         p \in {"claimed", "owner", "resolving", "sending", "failing"}
           => ~Delivered,
         sess' \in {sess, [sess EXCEPT ![a] = NoSession]}
  PROVE  OutcomeInv' /\ OutcomeStep
<1>1. /\ \A b \in Actors \ {a} : pc'[b] = pc[b] /\ sess'[b] = sess[b]
      /\ pc'[a] = p
  BY DEF TypeInv, TypeOK
<1>2. OwnerOutcome(a)'
  BY <1>1, SameOutcome DEF OwnerOutcome
<1> QED BY <1>1, <1>2, LocalOutcome

LEMMA ConcludeOutcome ==
  ASSUME TypeInv, OutcomeInv, UNCHANGED <<task, sent>>, NEW a \in Actors,
         NEW status \in {"published", "failed"}, NEW next,
         Conclude(a, status, next), status = "failed" => ~Delivered
  PROVE  OutcomeInv' /\ OutcomeStep
<1>1. Transition(task, status).status = status
  BY RowColumns DEF TypeInv, TypeOK, Statuses
<1>2. CASE Begin(a, Transition(task, status), FALSE, next)
  BY <1>1, <1>2, BeginOutcome
<1>3. CASE Raise(a) /\ UNCHANGED sess
  BY <1>3, MoveOutcome DEF Raise
<1> QED BY <1>2, <1>3 DEF Conclude

\* A commit that is not stale decides by rejecting, or not at all.
LEMMA SaveOutcome ==
  ASSUME TypeInv, OrderlyInv, OutcomeInv, NEW a \in Actors, Save(a), Orderly'
  PROVE  OutcomeInv' /\ OutcomeStep
<1>1. UNCHANGED sent /\ pc[a] = "open"
  BY DEF Save
<1>2. CASE /\ pc' = [pc EXCEPT ![a] = "idle"]
           /\ sess' = [sess EXCEPT ![a] = NoSession]
           /\ UNCHANGED task
  BY <1>1, <1>2, MoveOutcome
<1>3. CASE pc' = [pc EXCEPT ![a] = "saved"] /\ UNCHANGED sess
  <2>1. sess[a].old = task /\ task' = sess[a].new
    BY <1>3, FreshCommit
  <2>2. pc'[a] = "saved" /\ \A b \in Actors \ {a} : pc'[b] = pc[b]
    BY <1>3 DEF TypeInv, TypeOK
  <2>3. Gone' = Gone /\ Delivered' = Delivered
    BY <1>1 DEF Gone, Delivered
  <2>4. /\ task.status = "publishing" /\ sess[a].next \notin Ends
             => task'.status = "publishing"
        /\ task.status \in {"published", "rejected"}
             => task'.status = task.status
    BY <1>1, <2>1 DEF OrderlyInv, SessionsSafe, SessionSafe
  <2>5. Delivered => task'.status \in {"publishing", "published"}
    <3>1. Delivered => task.status \in {"publishing", "published"}
      BY DEF OutcomeInv
    <3>2. sess[a].next \in Ends /\ Delivered => task'.status = "published"
      BY <1>1, <2>1 DEF OutcomeInv, OwnerOutcome
    <3> QED BY <2>4, <3>1, <3>2
  <2>6. \A b \in Actors : OwnerOutcome(b)'
    BY <1>3, <2>2, <2>3 DEF OutcomeInv, OwnerOutcome
  <2>7. OutcomeInv'
    BY <2>3, <2>5, <2>6 DEF OutcomeInv
  <2>8. OutcomeStep
    <3>1. CASE Delivered \/ (task.status = "rejected" <=> task'.status = "rejected")
      BY <2>3, <3>1 DEF OutcomeStep, Verdict
    <3>2. CASE ~Delivered /\ task.status # "rejected" /\ task'.status = "rejected"
      <4>1. Verdict = "open" /\ Verdict' = "rejected"
        BY <2>3, <3>2 DEF Verdict
      <4> QED BY <2>3, <4>1 DEF OutcomeStep, Promise!Reject
    <3> QED BY <2>4, <3>1, <3>2
  <2> QED BY <2>7, <2>8
<1> QED BY <1>2, <1>3 DEF Save

\* A claim is only given while nothing has been delivered.
LEMMA ClaimOutcome ==
  ASSUME TypeInv, OutcomeInv, NEW a \in Actors, Claim(a)
  PROVE  OutcomeInv' /\ OutcomeStep
<1>1. UNCHANGED sent /\ task \in Row
  BY DEF Claim, ghosts, TypeInv, TypeOK
<1>2. CASE /\ Claimable(task, view[a].revision)
           /\ task' = ClaimedRow(task)
           /\ pc' = [pc EXCEPT ![a] = "claimed"]
           /\ sess' = [sess EXCEPT ![a] = [old |-> task', new |-> task',
                                           log |-> FALSE, next |-> "owner"]]
  <2>1. task.status \in {"approved", "failed"} /\ ~Delivered
    BY <1>2 DEF Claimable, OutcomeInv
  <2>2. task'.status = "publishing"
    BY <1>1, <1>2 DEF ClaimedRow, Bump, Row
  <2>3. /\ pc'[a] = "claimed"
        /\ \A b \in Actors \ {a} : pc'[b] = pc[b] /\ sess'[b] = sess[b]
    BY <1>2 DEF TypeInv, TypeOK
  <2>4. Gone' = Gone /\ Delivered' = Delivered
    BY <1>1 DEF Gone, Delivered
  <2>5. \A b \in Actors : OwnerOutcome(b)'
    BY <2>1, <2>3, <2>4 DEF OutcomeInv, OwnerOutcome
  <2>6. OutcomeInv'
    BY <2>1, <2>4, <2>5 DEF OutcomeInv
  <2>7. UNCHANGED <<Gone, Verdict>>
    BY <2>1, <2>2, <2>4 DEF Verdict
  <2> QED BY <2>6, <2>7 DEF OutcomeStep
<1>3. CASE Return(a) /\ UNCHANGED <<task, sess>>
  BY <1>1, <1>3, MoveOutcome DEF Return
<1> QED BY <1>2, <1>3 DEF Claim, ClaimRefused

\* What goes out does so before anything was decided.
LEMMA DeliverOutcome ==
  ASSUME TypeInv, OrderlyInv, Orderly, OutcomeInv, NEW a \in Actors, Deliver(a)
  PROVE  OutcomeInv' /\ OutcomeStep
<1>1. pc[a] = "sending" /\ ~Delivered /\ task.status = "publishing"
  BY DEF Deliver, OutcomeInv, OwnerOutcome, OrderlyInv, OwnerOnce, Owning, Holding
<1>2. UNCHANGED <<task, sess>>
  BY DEF Deliver, db, ghosts
<1>3. PICK ok \in BOOLEAN :
        /\ \/ ~ok /\ UNCHANGED sent
           \/ sent' = Append(sent, Sending(a, ok))
        /\ pc' = [pc EXCEPT ![a] = IF ok THEN "sent" ELSE "failing"]
  BY DeliverCases
<1>4. CASE ~ok /\ UNCHANGED sent
  BY <1>1, <1>2, <1>3, <1>4, MoveOutcome
<1>5. CASE sent' = Append(sent, Sending(a, ok))
  <2>1. sent \in Seq(Message) /\ Sending(a, ok) \in Message
    BY DEF TypeInv, TypeOK, Message, Sending
  <2>2. /\ pc'[a] = IF ok THEN "sent" ELSE "failing"
        /\ \A b \in Actors \ {a} : pc'[b] = pc[b]
    BY <1>3 DEF TypeInv, TypeOK
  <2>3. /\ Len(sent') = Len(sent) + 1 /\ DOMAIN sent' = 1..Len(sent')
        /\ DOMAIN sent = 1..Len(sent) /\ Len(sent) \in Nat
        /\ sent'[Len(sent')] = Sending(a, ok)
        /\ \A i \in DOMAIN sent : sent'[i] = sent[i]
    BY <1>5, <2>1
  <2>4. Delivered' <=> ok
    <3>1. \A i \in DOMAIN sent : ~sent[i].answered
      BY <1>1 DEF Delivered
    <3>2. \A i \in DOMAIN sent' : i \in DOMAIN sent \/ i = Len(sent')
      BY <2>3
    <3>3. Len(sent') \in DOMAIN sent' /\ Sending(a, ok).answered = ok
      BY <2>3 DEF Sending
    <3> QED BY <2>3, <3>1, <3>2, <3>3 DEF Delivered
  <2>5. \A b \in Actors \ {a} : ~Owning(b)
    BY <1>1 DEF OrderlyInv, OwnerOnce, Owning, Holding
  <2>6. \A b \in Actors : OwnerOutcome(b)'
    BY <1>2, <2>2, <2>4, <2>5 DEF OwnerOutcome, Owning, Holding
  <2>7. OutcomeInv'
    BY <1>1, <1>2, <2>6 DEF OutcomeInv
  <2>8. Verdict = "open" /\ Verdict' \in {"open", "delivered"}
    BY <1>1, <1>2 DEF Verdict
  <2>9. Gone' = Append(Gone, view[a].text)
    <3>1. Gone' = [i \in 1..(Len(sent) + 1) |->
                    IF i = Len(sent) + 1 THEN view[a].text ELSE sent[i].text]
      BY <2>3 DEF Gone, Sending
    <3>2. /\ DOMAIN Gone = 1..Len(sent)
          /\ \A i \in 1..Len(sent) : Gone[i] = sent[i].text
      BY <2>3 DEF Gone
    <3>3. \A i \in 1..Len(sent) : sent[i].text \in Texts
      <4>1. \A i \in 1..Len(sent) : sent[i] \in Message
        BY <2>1, <2>3
      <4>2. \A m \in Message : m.text \in Texts
        BY DEF Message
      <4> QED BY <4>1, <4>2
    <3>4. Gone \in [1..Len(sent) -> Texts]
      BY <3>2, <3>3 DEF Gone
    <3>5. Gone \in Seq(Texts) /\ Len(Gone) = Len(sent)
      BY <2>3, <3>4
    <3> QED BY <3>1, <3>2, <3>5 DEF Append
  <2>10. view[a].text \in Texts
    BY DEF TypeInv, TypeOK
  <2>11. Promise!Attempt(view[a].text)
    BY <2>8, <2>9 DEF Promise!Attempt
  <2> QED BY <2>7, <2>10, <2>11 DEF OutcomeStep
<1> QED BY <1>3, <1>4, <1>5

LEMMA OutcomeNext ==
  ASSUME TypeInv, OrderlyInv, Orderly, OutcomeInv, [Next]_vars, Orderly'
  PROVE  OutcomeInv' /\ OutcomeStep
<1> Reviewers \subseteq Actors /\ AutoApprove \in Actors /\ Consumer \in Actors
  BY DEF Actors, Sender
<1> DEFINE Goal == OutcomeInv' /\ OutcomeStep
<1>1. ASSUME NEW a \in Actors, NEW new, NEW log,
             NEW next \in {"idle", "claim", "request"},
             Begin(a, new, log, next), UNCHANGED <<task, sent>>
      PROVE  Goal
  BY <1>1, BeginOutcome DEF Ends
<1>2. ASSUME NEW a \in Reviewers, ReviewerOp(a)  PROVE Goal
  <2>1. CASE PublishDecided(a)
    BY <2>1, MoveOutcome DEF PublishDecided, db, ghosts
  <2>2. CASE Approve(a) \/ Reject(a)
    BY <1>1, <2>2 DEF Approve, Reject, db, ghosts
  <2>3. ASSUME NEW t \in Texts, EditText(a, t)  PROVE Goal
    BY <1>1, <2>3 DEF EditText, db, ghosts
  <2>4. ASSUME NEW n \in DOMAIN revisions, RestoreRevision(a, n)  PROVE Goal
    BY <1>1, <2>4 DEF RestoreRevision, db, ghosts
  <2>5. ASSUME NEW t \in Texts, NEW r \in BOOLEAN, ReapplyRules(a, t, r)
        PROVE  Goal
    BY <1>1, <2>5 DEF ReapplyRules, db, ghosts
  <2> QED BY <1>2, <2>1, <2>2, <2>3, <2>4, <2>5 DEF ReviewerOp
<1>3. ASSUME NEW a \in Reviewers \cup {AutoApprove}, PublishUndecided(a)
      PROVE  Goal
  <2> DEFINE next == IF a = AutoApprove THEN "claim" ELSE "request"
  <2>1. next \in {"idle", "claim", "request"}
    OBVIOUS
  <2>2. Begin(a, Transition(task, "approved"), FALSE, next)
        /\ UNCHANGED <<task, sent>>
    BY <1>3 DEF PublishUndecided, db, ghosts
  <2> HIDE DEF next
  <2> QED BY <1>1, <2>1, <2>2
<1>4. CASE TakeCommand
  BY <1>4, MoveOutcome DEF TakeCommand, db, ghosts
<1>5. ASSUME NEW a \in Actors, Refresh(a)  PROVE Goal
  <2>1. sess[a].next \in {"idle", "claim", "request"} \cup Ends
    BY <1>5 DEF Refresh, OrderlyInv, SessionsSafe, SessionSafe
  <2>2. /\ pc' = [pc EXCEPT ![a] = sess[a].next]
        /\ sess' = [sess EXCEPT ![a] = NoSession] /\ UNCHANGED <<task, sent>>
    BY <1>5 DEF Refresh, db, ghosts
  <2> QED BY <2>1, <2>2, MoveOutcome DEF Ends
<1>6. ASSUME NEW a \in Actors, Request(a) \/ Record(a)  PROVE Goal
  <2>1. CASE Request(a)
    BY <2>1, MoveOutcome DEF Request, db, ghosts
  <2>2. CASE Record(a)
    BY <2>2, MoveOutcome DEF Record, Return, ghosts
  <2> QED BY <1>6, <2>1, <2>2
<1>7. ASSUME NEW a \in Actors, ClaimRefresh(a) \/ Resolve(a)  PROVE Goal
  <2>1. /\ ~Delivered /\ UNCHANGED <<task, sent>>
        /\ sess' \in {sess, [sess EXCEPT ![a] = NoSession]}
    BY <1>7 DEF ClaimRefresh, Resolve, db, ghosts, OutcomeInv, OwnerOutcome
  <2>2. pc[a] = "claimed" => sess[a].next = "owner"
    BY DEF OrderlyInv, SessionsSafe, SessionSafe
  <2>3. PICK p \in {"owner", "sending", "failing"} : pc' = [pc EXCEPT ![a] = p]
    BY <1>7, <2>2 DEF ClaimRefresh, Resolve
  <2> QED BY <2>1, <2>3, MoveOutcome
<1>8. ASSUME NEW a \in Actors, CheckProcessed(a)  PROVE Goal
  <2>1. ~Delivered /\ UNCHANGED <<task, sent>>
    BY <1>8 DEF CheckProcessed, db, ghosts, OutcomeInv, OwnerOutcome
  <2>2. CASE Conclude(a, "published", "done")
    BY <2>1, <2>2, ConcludeOutcome
  <2>3. CASE pc' = [pc EXCEPT ![a] = "resolving"] /\ UNCHANGED sess
    BY <2>1, <2>3, MoveOutcome
  <2> QED BY <1>8, <2>2, <2>3 DEF CheckProcessed
<1>9. ASSUME NEW a \in Actors, Finish(a)  PROVE Goal
  <2>1. UNCHANGED <<task, sent>> /\ (pc[a] = "failing" => ~Delivered)
    BY <1>9 DEF Finish, db, ghosts, OutcomeInv, OwnerOutcome
  <2> QED BY <1>9, <2>1, ConcludeOutcome DEF Finish
<1>10. ASSUME NEW process \in {Sender, Reviewers}, Crash(process)  PROVE Goal
  <2>1. /\ UNCHANGED <<task, sent>>
        /\ \A b \in Actors : \/ pc'[b] = "idle"
                             \/ pc'[b] = pc[b] /\ sess'[b] = sess[b]
    BY <1>10 DEF Crash, db, ghosts
  <2>2. UNCHANGED <<Gone, Verdict>> /\ Delivered' = Delivered
    BY <2>1, SameOutcome
  <2>3. \A b \in Actors : OwnerOutcome(b)'
    BY <2>1, <2>2 DEF OutcomeInv, OwnerOutcome
  <2> QED BY <2>1, <2>2, <2>3 DEF OutcomeInv, OutcomeStep
<1>11. CASE UNCHANGED <<task, pc, sess, sent>>
  <2>1. UNCHANGED <<Gone, Verdict>> /\ Delivered' = Delivered
    BY <1>11, SameOutcome
  <2>2. \A b \in Actors : OwnerOutcome(b)'
    BY <1>11, <2>1 DEF OutcomeInv, OwnerOutcome
  <2> QED BY <1>11, <2>1, <2>2 DEF OutcomeInv, OutcomeStep
<1> QED BY <1>2, <1>3, <1>4, <1>5, <1>6, <1>7, <1>8, <1>9, <1>10, <1>11,
           SaveOutcome, ClaimOutcome, DeliverOutcome
        DEF Next, Proceed, OpenTask, PipelinePublishes, vars, db, ghosts

\* With any number of sessions, until a stale commit: through claims, retries of
\* a command, attempts that reached somebody and failed, restores during the
\* publication and crashes, a rejection or an attempt that ended as a delivery
\* is the end, after which nothing goes out.
THEOREM ReviewDecidedOnce == Spec => DecidedOnce
<1> SUFFICES Spec => Promise!Spec
  BY DEF DecidedOnce
<1> DEFINE Inv == TypeInv /\ OrderlyInv /\ (Orderly => OutcomeInv)
<1>1. Init => Inv /\ Promise!Init
  <2> SUFFICES ASSUME Init  PROVE OutcomeInv /\ Promise!Init
    BY OrderlyInit
  <2>1. /\ sent = <<>> /\ DOMAIN sent = {} /\ overlaps = {}
        /\ task.status = "pending" /\ \A a \in Actors : pc[a] = "idle"
    BY DEF Init, NewTask
  <2>2. ~Delivered /\ Gone = <<>>
    BY <2>1 DEF Delivered, Gone
  <2>3. Verdict = "open" /\ Orderly
    BY <2>1, <2>2 DEF Verdict, Orderly
  <2>4. OutcomeInv
    BY <2>1, <2>2 DEF OutcomeInv, OwnerOutcome
  <2> QED BY <2>2, <2>3, <2>4 DEF Promise!Init
<1>2. Inv /\ [Next]_vars => Inv' /\ [Promise!Next]_(Promise!vars)
  <2> SUFFICES ASSUME Inv, [Next]_vars
               PROVE  Inv' /\ [Promise!Next]_(Promise!vars)
    OBVIOUS
  <2>1. TypeInv' /\ OrderlyInv'
    BY TypeStep, OrderlyStep
  <2>2. Orderly' => Orderly
    BY OverlapsGrow DEF Orderly
  <2>3. Orderly' => OutcomeInv' /\ OutcomeStep
    BY <2>2, OutcomeNext
  <2>4. [Promise!Next]_(Promise!vars)
    BY <2>2, <2>3 DEF OutcomeStep, Promise!Next, Promise!vars
  <2> QED BY <2>1, <2>3, <2>4
<1> QED BY <1>1, <1>2, PTL DEF Spec, Promise!Spec
=============================================================================
