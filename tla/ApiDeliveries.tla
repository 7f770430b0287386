---------------------------- MODULE ApiDeliveries ----------------------------
(***************************************************************************)
(* ApiDeliveryService: publications that write rows of api_deliveries, and *)
(* clients that read them with a cursor.                                   *)
(*                                                                         *)
(* A row gets its id when it is flushed and is seen when its transaction   *)
(* commits.  Several transactions may be open: the pipeline, the command   *)
(* consumer and the auto-approve loop publish concurrently.                *)
(***************************************************************************)
EXTENDS Naturals, FiniteSets

CONSTANTS
  Writers,          \* tasks that publish
  Endpoints,        \* API destinations, in the order of their links to the source
  Messages,         \* processed messages of the source
  NoMessage,
  Limit,            \* rows in one answer
  MaxPublications,  \* bound on publications, retries of a message included
  MaxChanges,       \* bound on changes of the endpoints
  MaxFaults         \* bound on transactions that fail

ASSUME DeliveriesAssumption ==
  /\ Endpoints \subseteq Nat
  /\ NoMessage \notin Messages
  /\ Limit \in Nat \ {0}
  /\ MaxPublications \in Nat /\ MaxChanges \in Nat /\ MaxFaults \in Nat

VARIABLES
  rows,      \* committed rows of api_deliveries
  lastId,    \* newest value of its sequence
  pub,       \* the publication of each writer
  enabled,   \* endpoints that are enabled and have not expired
  linked,    \* endpoints linked to the source, while it is enabled
  deleted,   \* endpoints whose row is gone
  request,   \* the request of each endpoint's client
  cursor,    \* the cursor it has persisted
  got,       \* ids it has processed
  reported,  \* <<endpoint, message>> for all deliveries enqueue has returned
  overtaken, \* ids not yet committed when another transaction flushed a later one
  count      \* publications, changes and faults so far

endpoints == <<enabled, linked, deleted>>
clients == <<request, cursor, got>>
ghosts == <<reported, overtaken>>
vars == <<rows, lastId, pub, endpoints, clients, ghosts, count>>

-----------------------------------------------------------------------------
NoPublication ==
  [at |-> "idle", msg |-> NoMessage, todo |-> {}, new |-> {}, delivered |-> {}]

NoRequest == [at |-> "idle", page |-> {}]

Ids(set) == {row.id : row \in set}

Has(set, e, m) == \E row \in set : row.endpoint = e /\ row.msg = m

Count(field, limit) ==
  count[field] < limit /\ count' = [count EXCEPT ![field] = @ + 1]

-----------------------------------------------------------------------------
(* enqueue. *)

\* active_endpoint_ids, in a transaction of its own.  A review passes the endpoints
\* of its snapshot, the pipeline those it has just resolved.
Resolve(w) ==
  /\ pub[w].at = "idle" /\ Count("publications", MaxPublications)
  /\ \E m \in Messages, candidates \in SUBSET Endpoints :
       pub' = [pub EXCEPT ![w] =
         [NoPublication EXCEPT !.at = "check", !.msg = m,
                               !.todo = enabled \cap linked \cap candidates]]
  /\ UNCHANGED <<rows, lastId, endpoints, clients, ghosts>>

\* The endpoint whose turn it is.
Turn(w, e) == e \in pub[w].todo /\ \A f \in pub[w].todo : e <= f

Delivered(w, e) ==
  [pub[w] EXCEPT !.at = "check", !.todo = @ \ {e}, !.delivered = @ \cup {e}]

\* Is there a row already?
Check(w) ==
  /\ pub[w].at = "check"
  /\ \E e \in Endpoints :
       /\ Turn(w, e)
       /\ pub' = [pub EXCEPT ![w] =
            IF Has(rows, e, pub[w].msg) THEN Delivered(w, e)
            ELSE [pub[w] EXCEPT !.at = "insert"]]
  /\ UNCHANGED <<rows, lastId, endpoints, clients, ghosts, count>>

\* The insert is an IntegrityError: the row exists, or its endpoint does not.
Taken(e, m) == Has(rows, e, m) \/ e \in deleted

\* Mutant: without the savepoint an IntegrityError rolls back all rows.
Rejected_RollsBack(w, e) == [Delivered(w, e) EXCEPT !.new = {}]

\* The savepoint is rolled back, and the endpoint counts as delivered.
Rejected(w, e) == Delivered(w, e)

\* An insert waits for a transaction that has flushed the same key.
Insert(w) ==
  /\ pub[w].at = "insert"
  /\ \E e \in Endpoints :
       LET m == pub[w].msg
           row == [id |-> lastId + 1, endpoint |-> e, msg |-> m]
       IN
       /\ Turn(w, e)
       /\ \A v \in Writers \ {w} : ~Has(pub[v].new, e, m)
       /\ pub' = [pub EXCEPT ![w] =
            IF Taken(e, m) THEN Rejected(w, e)
            ELSE [Delivered(w, e) EXCEPT !.new = @ \cup {row}]]
  /\ lastId' = lastId + 1
  /\ overtaken' = overtaken \cup UNION {Ids(pub[v].new) : v \in Writers \ {w}}
  /\ UNCHANGED <<rows, endpoints, clients, reported, count>>

Commit(w) ==
  /\ pub[w].at = "check" /\ pub[w].todo = {}
  /\ rows' = rows \cup pub[w].new
  /\ reported' = reported \cup (pub[w].delivered \X {pub[w].msg})
  /\ pub' = [pub EXCEPT ![w] = NoPublication]
  /\ UNCHANGED <<lastId, endpoints, clients, overtaken, count>>

\* A statement fails or the process dies: the transaction is rolled back.
Fail(w) ==
  /\ pub[w].at # "idle" /\ Count("faults", MaxFaults)
  /\ pub' = [pub EXCEPT ![w] = NoPublication]
  /\ UNCHANGED <<rows, lastId, endpoints, clients, ghosts>>

-----------------------------------------------------------------------------
(* Administration. *)

\* patch_api_endpoint, or the clock, for enabled; set_source_endpoints,
\* _replace_sources, or a change of the source, for linked.
Reconfigure ==
  /\ Count("changes", MaxChanges)
  /\ \/ enabled' \in SUBSET (Endpoints \ deleted) /\ UNCHANGED linked
     \/ linked' \in SUBSET (Endpoints \ deleted) /\ UNCHANGED enabled
  /\ UNCHANGED <<rows, lastId, pub, deleted, clients, ghosts>>

RowsWithout(e) == {row \in rows : row.endpoint # e}

\* delete_api_endpoint.  An uncommitted row holds its endpoint in place.
Delete(e) ==
  /\ e \notin deleted /\ Count("changes", MaxChanges)
  /\ \A w \in Writers : \A row \in pub[w].new : row.endpoint # e
  /\ rows' = RowsWithout(e)
  /\ enabled' = enabled \ {e} /\ linked' = linked \ {e}
  /\ deleted' = deleted \cup {e}
  /\ UNCHANGED <<lastId, pub, clients, ghosts>>

-----------------------------------------------------------------------------
(* Clients. *)

\* Mutant: a client must have a source to be let in.
MayRead_Linked(e) == e \in enabled \cap linked

MayRead(e) == e \in enabled

Authenticate(e) ==
  /\ request[e].at = "idle" /\ MayRead(e)
  /\ request' = [request EXCEPT ![e] = [at |-> "pull", page |-> {}]]
  /\ UNCHANGED <<rows, lastId, pub, endpoints, cursor, got, ghosts, count>>

\* The rows behind the cursor.
Newer(e) == {row \in rows : row.endpoint = e /\ row.id > cursor[e]}

\* Mutant: the newest rows first.
FirstOf_Newest(set) ==
  {row \in set : Cardinality({r \in set : r.id > row.id}) < Limit}

FirstOf(set) ==
  {row \in set : Cardinality({r \in set : r.id < row.id}) < Limit}

\* The query, some time after the token was checked.
Pull(e) ==
  /\ request[e].at = "pull"
  /\ request' = [request EXCEPT ![e] = [at |-> "answer", page |-> FirstOf(Newer(e))]]
  /\ UNCHANGED <<rows, lastId, pub, endpoints, cursor, got, ghosts, count>>

\* The client has processed the answer, and persists its next_cursor.
Receive(e) ==
  LET page == request[e].page IN
  /\ request[e].at = "answer"
  /\ got' = [got EXCEPT ![e] = @ \cup Ids(page)]
  /\ \/ page = {} /\ UNCHANGED cursor
     \/ \E last \in page :
          /\ \A row \in page : row.id <= last.id
          /\ cursor' = [cursor EXCEPT ![e] = last.id]
  /\ request' = [request EXCEPT ![e] = NoRequest]
  /\ UNCHANGED <<rows, lastId, pub, endpoints, ghosts, count>>

\* The answer is lost, or the client fails before it persists the cursor.
Lose(e) ==
  /\ request[e].at = "answer"
  /\ got' \in {got, [got EXCEPT ![e] = @ \cup Ids(request[e].page)]}
  /\ request' = [request EXCEPT ![e] = NoRequest]
  /\ UNCHANGED <<rows, lastId, pub, endpoints, cursor, ghosts, count>>

-----------------------------------------------------------------------------
Init ==
  /\ rows = {} /\ lastId = 0
  /\ pub = [w \in Writers |-> NoPublication]
  /\ enabled = Endpoints /\ linked = Endpoints /\ deleted = {}
  /\ request = [e \in Endpoints |-> NoRequest]
  /\ cursor = [e \in Endpoints |-> 0] /\ got = [e \in Endpoints |-> {}]
  /\ reported = {} /\ overtaken = {}
  /\ count = [publications |-> 0, changes |-> 0, faults |-> 0]

Publish(w) == Check(w) \/ Insert(w) \/ Commit(w)

Next ==
  \/ \E w \in Writers : Resolve(w) \/ Publish(w) \/ Fail(w)
  \/ Reconfigure
  \/ \E e \in Endpoints :
       Delete(e) \/ Authenticate(e) \/ Pull(e) \/ Receive(e) \/ Lose(e)

Spec == Init /\ [][Next]_vars

\* Publications go on; clients poll, and do not lose every answer.
Fairness ==
  /\ \A w \in Writers : WF_vars(Publish(w))
  /\ \A e \in Endpoints :
       WF_vars(Authenticate(e)) /\ WF_vars(Pull(e)) /\ SF_vars(Receive(e))

FairSpec == Spec /\ Fairness

-----------------------------------------------------------------------------
(* Properties. *)

Rows == [id : Nat \ {0}, endpoint : Endpoints, msg : Messages]

Publications ==
  [at : {"idle", "check", "insert"}, msg : Messages \cup {NoMessage},
   todo : SUBSET Endpoints, new : SUBSET Rows, delivered : SUBSET Endpoints]

\* The variables hold what the code stores in them; a row has an endpoint that
\* exists.
TypeOK ==
  /\ rows \subseteq Rows /\ lastId \in Nat
  /\ \A row \in rows : row.endpoint \notin deleted
  /\ pub \in [Writers -> Publications]
  /\ enabled \subseteq Endpoints \ deleted /\ linked \subseteq Endpoints \ deleted
  /\ deleted \subseteq Endpoints
  /\ request \in
       [Endpoints -> [at : {"idle", "pull", "answer"}, page : SUBSET Rows]]
  /\ cursor \in [Endpoints -> Nat] /\ got \in [Endpoints -> SUBSET (Nat \ {0})]
  /\ reported \subseteq Endpoints \X Messages /\ overtaken \subseteq Nat

\* However many publications of a message overlap, an endpoint has it once.
OneDelivery ==
  \A r, q \in rows : r.endpoint = q.endpoint /\ r.msg = q.msg => r = q

\* What enqueue reports as delivered, and the record of the message says, is in the
\* rows of the endpoint, if it still exists.
DeliveredHasRow ==
  \A delivery \in reported :
    delivery[1] \in deleted \/ Has(rows, delivery[1], delivery[2])

\* A client that follows next_cursor has seen every row up to its cursor.
NothingSkipped ==
  \A row \in rows :
    row.id <= cursor[row.endpoint] => row.id \in got[row.endpoint]

\* The only rows it misses are those that were flushed and not committed when
\* another publication flushed a later one.
OnlyOvertakenSkipped ==
  \A row \in rows :
    row.id <= cursor[row.endpoint] =>
      row.id \in got[row.endpoint] \/ row.id \in overtaken

\* Every other row reaches its client, unless its endpoint is disabled.
EveryRowReceived ==
  []<>(\A row \in rows :
         \/ row.id \in got[row.endpoint] \/ row.id \in overtaken
         \/ row.endpoint \notin enabled)
=============================================================================
