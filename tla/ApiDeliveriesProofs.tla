------------------------- MODULE ApiDeliveriesProofs -------------------------
(***************************************************************************)
(* Proofs about ApiDeliveries: for any number of writers, endpoints and    *)
(* messages, any page size, and any number of publications and failures.   *)
(***************************************************************************)
EXTENDS ApiDeliveries, FiniteSetTheorems, TLAPS

-----------------------------------------------------------------------------
(* The inductive invariant. *)

\* What a writer has flushed belongs to its message and to endpoints that exist and
\* that it is done with.
WriterInv ==
  \A w \in Writers :
    /\ pub[w].at # "idle" => pub[w].msg \in Messages
    /\ \A r \in pub[w].new :
         /\ r.msg = pub[w].msg /\ r.id <= lastId
         /\ r.endpoint \notin deleted /\ r.endpoint \notin pub[w].todo

FiniteInv == IsFiniteSet(rows) /\ \A w \in Writers : IsFiniteSet(pub[w].new)

SameKey(r, q) == r.endpoint = q.endpoint /\ r.msg = q.msg

\* The unique constraint, over committed and flushed rows.
KeyInv ==
  /\ OneDelivery
  /\ \A w \in Writers : \A r \in pub[w].new :
       /\ \A q \in rows : ~SameKey(r, q)
       /\ \A q \in pub[w].new : SameKey(r, q) => r = q
       /\ \A v \in Writers \ {w} : \A q \in pub[v].new : ~SameKey(r, q)

\* An endpoint a writer calls delivered has its row, or is gone.
DeliveredInv ==
  /\ DeliveredHasRow
  /\ \A w \in Writers : \A e \in pub[w].delivered :
       e \in deleted \/ Has(rows \cup pub[w].new, e, pub[w].msg)

\* A flushed row behind which there is a later one is overtaken.
OvertakenInv ==
  \A w \in Writers : \A r \in pub[w].new :
    /\ \A v \in Writers \ {w} : \A q \in pub[v].new : r.id <= q.id => r.id \in overtaken
    /\ \A q \in rows : r.id <= q.id => r.id \in overtaken

\* What a client holds are ids of the past, and flushed rows before them are
\* overtaken.
PastInv ==
  /\ \A row \in rows : row.id <= lastId
  /\ \A e \in Endpoints :
       cursor[e] <= lastId /\ \A p \in request[e].page : p.id <= lastId
  /\ \A w \in Writers : \A r \in pub[w].new :
       /\ r.id <= cursor[r.endpoint] => r.id \in overtaken
       /\ \A p \in request[r.endpoint].page : r.id <= p.id => r.id \in overtaken

\* An answer on its way leaves out nothing that the client does not have, except
\* what was overtaken.
PageInv ==
  \A e \in Endpoints : \A p \in request[e].page, row \in rows :
    row.endpoint = e /\ row.id <= p.id =>
      row.id \in Ids(request[e].page) \/ row.id \in got[e] \/ row.id \in overtaken

Invariants ==
  /\ TypeOK /\ FiniteInv /\ WriterInv /\ KeyInv /\ DeliveredInv
  /\ OvertakenInv /\ PastInv /\ PageInv /\ OnlyOvertakenSkipped

-----------------------------------------------------------------------------
(* The first rows of a set. *)

LEMMA FirstOfClosed ==
  ASSUME NEW S, IsFiniteSet(S), \A x \in S : x.id \in Nat,
         NEW p \in FirstOf(S), NEW row \in S, row.id <= p.id
  PROVE  row \in FirstOf(S)
<1> DEFINE Before(x) == {r \in S : r.id < x.id}
<1>1. p \in S /\ Cardinality(Before(p)) < Limit
  BY DEF FirstOf
<1>2. Before(row) \subseteq Before(p) /\ Before(p) \subseteq S
  BY <1>1
<1>3. IsFiniteSet(Before(p))
  BY <1>2, FS_Subset
<1>4. Cardinality(Before(row)) <= Cardinality(Before(p)) /\ IsFiniteSet(Before(row))
  BY <1>2, <1>3, FS_Subset
<1>5. Cardinality(Before(row)) \in Nat /\ Cardinality(Before(p)) \in Nat /\ Limit \in Nat
  BY <1>3, <1>4, FS_CardinalityType, DeliveriesAssumption
<1>6. Cardinality(Before(row)) < Limit
  BY <1>1, <1>4, <1>5
<1> QED BY <1>6 DEF FirstOf

LEMMA FirstOfSubset == \A S : FirstOf(S) \subseteq S
BY DEF FirstOf

-----------------------------------------------------------------------------
(* Each action preserves the invariants. *)

LEMMA InitInvariants == Init => Invariants
<1> SUFFICES ASSUME Init PROVE Invariants
  OBVIOUS
<1>1. /\ rows = {} /\ lastId = 0 /\ reported = {} /\ overtaken = {}
      /\ \A e \in Endpoints : cursor[e] = 0 /\ got[e] = {} /\ request[e] = NoRequest
      /\ \A w \in Writers : pub[w] = NoPublication
  BY DEF Init
<1>2. NoPublication \in Publications
  BY DEF NoPublication, Publications
<1>3. TypeOK
  BY <1>1, <1>2 DEF Init, TypeOK, NoRequest
<1>4. FiniteInv
  BY <1>1, FS_EmptySet DEF FiniteInv, NoPublication
<1>5. /\ WriterInv /\ KeyInv /\ DeliveredInv /\ OvertakenInv
      /\ PastInv /\ PageInv /\ OnlyOvertakenSkipped
  BY <1>1 DEF WriterInv, KeyInv, OneDelivery, DeliveredInv, DeliveredHasRow, OvertakenInv,
     PastInv, PageInv, OnlyOvertakenSkipped, NoPublication, NoRequest
<1> QED BY <1>3, <1>4, <1>5 DEF Invariants

\* A step of a publication that flushes and commits nothing: it keeps its rows, or
\* gives them up.
Quiet(w) ==
  /\ pub'[w] \in Publications
  /\ pub' = [pub EXCEPT ![w] = pub'[w]]
  /\ pub'[w].at # "idle" => pub'[w].msg \in Messages
  /\ \/ pub'[w].new = {}
     \/ /\ pub'[w].new = pub[w].new /\ pub'[w].msg = pub[w].msg
        /\ pub'[w].todo \subseteq pub[w].todo
  /\ \A e \in pub'[w].delivered :
       e \in deleted \/ Has(rows \cup pub'[w].new, e, pub'[w].msg)
  /\ UNCHANGED <<rows, lastId, endpoints, clients, ghosts>>

LEMMA QuietInvariants ==
  ASSUME Invariants, NEW w \in Writers, Quiet(w)
  PROVE  Invariants'
<1> USE DEF endpoints, clients, ghosts
<1>1. /\ \A v \in Writers \ {w} : pub'[v] = pub[v]
      /\ pub'[w].new \subseteq pub[w].new
      /\ pub' \in [Writers -> Publications]
  BY DEF Quiet, Invariants, TypeOK
<1>2. \A v \in Writers : pub'[v].new \subseteq pub[v].new
  BY <1>1
<1>3. TypeOK'
  BY <1>1 DEF Quiet, Invariants, TypeOK
<1>4. FiniteInv'
  BY <1>2, FS_Subset DEF Quiet, Invariants, FiniteInv
<1>5. WriterInv'
  BY <1>1 DEF Quiet, Invariants, WriterInv
<1>6. KeyInv'
  BY <1>2 DEF Quiet, Invariants, KeyInv, OneDelivery
<1>7. DeliveredInv'
  BY <1>1 DEF Quiet, Invariants, DeliveredInv, DeliveredHasRow
<1>8. OvertakenInv'
  BY <1>2 DEF Quiet, Invariants, OvertakenInv
<1>9. PastInv'
  BY <1>2 DEF Quiet, Invariants, PastInv
<1>10. PageInv' /\ OnlyOvertakenSkipped'
  BY DEF Quiet, Invariants, PageInv, OnlyOvertakenSkipped
<1> QED BY <1>3, <1>4, <1>5, <1>6, <1>7, <1>8, <1>9, <1>10 DEF Invariants

LEMMA ResolveInvariants ==
  ASSUME Invariants, NEW w \in Writers, Resolve(w) PROVE Invariants'
<1>1. PICK m \in Messages, candidates \in SUBSET Endpoints :
        pub' = [pub EXCEPT ![w] =
          [NoPublication EXCEPT !.at = "check", !.msg = m,
                                !.todo = enabled \cap linked \cap candidates]]
  BY DEF Resolve
<1>2. /\ pub'[w] \in Publications /\ pub'[w].msg = m
      /\ pub'[w].new = {} /\ pub'[w].delivered = {}
  BY <1>1 DEF Invariants, TypeOK, Publications, NoPublication
<1>3. pub' = [pub EXCEPT ![w] = pub'[w]]
  BY <1>1 DEF Invariants, TypeOK
<1>4. Quiet(w)
  BY <1>2, <1>3 DEF Quiet, Resolve
<1> QED BY <1>4, QuietInvariants

LEMMA FailInvariants ==
  ASSUME Invariants, NEW w \in Writers, Fail(w) PROVE Invariants'
<1>1. pub' = [pub EXCEPT ![w] = NoPublication]
  BY DEF Fail
<1>2. /\ pub'[w] \in Publications /\ pub'[w].at = "idle"
      /\ pub'[w].new = {} /\ pub'[w].delivered = {}
  BY <1>1 DEF Invariants, TypeOK, Publications, NoPublication
<1>3. pub' = [pub EXCEPT ![w] = pub'[w]]
  BY <1>1 DEF Invariants, TypeOK
<1>4. Quiet(w)
  BY <1>2, <1>3 DEF Quiet, Fail
<1> QED BY <1>4, QuietInvariants

\* The endpoint whose turn it was is done with, and nothing else changes.
LEMMA DeliveredIs ==
  ASSUME TypeOK, NEW w \in Writers, NEW e \in Endpoints
  PROVE  /\ Delivered(w, e) \in Publications
         /\ Delivered(w, e).at = "check"
         /\ Delivered(w, e).msg = pub[w].msg
         /\ Delivered(w, e).new = pub[w].new
         /\ Delivered(w, e).todo = pub[w].todo \ {e}
         /\ Delivered(w, e).delivered = pub[w].delivered \cup {e}
BY DEF TypeOK, Publications, Delivered

\* A writer may call an endpoint delivered that has the row or is gone.
LEMMA DeliveredQuiet ==
  ASSUME Invariants, NEW w \in Writers, NEW e \in Endpoints,
         pub[w].at # "idle", Taken(e, pub[w].msg),
         pub' = [pub EXCEPT ![w] = Delivered(w, e)],
         UNCHANGED <<rows, endpoints, clients, ghosts, lastId>>
  PROVE  Quiet(w)
<1>1. pub'[w] = Delivered(w, e)
  BY DEF Invariants, TypeOK
<1>2. pub' = [pub EXCEPT ![w] = pub'[w]]
  BY <1>1
<1>3. \A f \in pub'[w].delivered : f \in deleted \/ Has(rows \cup pub'[w].new, f, pub'[w].msg)
  <2> SUFFICES ASSUME NEW f \in pub'[w].delivered, f \notin deleted
      PROVE Has(rows \cup pub'[w].new, f, pub'[w].msg)
    OBVIOUS
  <2>1. CASE f = e
    BY <2>1, <1>1, DeliveredIs DEF Taken, Has, Invariants
  <2>2. CASE f \in pub[w].delivered
    BY <2>2, <1>1, DeliveredIs DEF Invariants, DeliveredInv
  <2> QED BY <2>1, <2>2, <1>1, DeliveredIs DEF Invariants
<1>4. pub[w].msg \in Messages
  BY DEF Invariants, WriterInv
<1>5. /\ pub'[w] \in Publications /\ pub'[w].msg = pub[w].msg
      /\ pub'[w].new = pub[w].new /\ pub'[w].todo \subseteq pub[w].todo
  BY <1>1, DeliveredIs DEF Invariants
<1> QED BY <1>2, <1>3, <1>4, <1>5 DEF Quiet

LEMMA CheckInvariants ==
  ASSUME Invariants, NEW w \in Writers, Check(w) PROVE Invariants'
<1>1. PICK e \in Endpoints :
        pub' = [pub EXCEPT ![w] =
            IF Has(rows, e, pub[w].msg) THEN Delivered(w, e)
            ELSE [pub[w] EXCEPT !.at = "insert"]]
  BY DEF Check
<1>2. /\ pub[w].at = "check"
      /\ UNCHANGED <<rows, lastId, endpoints, clients, ghosts>>
  BY DEF Check
<1>3. ASSUME Has(rows, e, pub[w].msg) PROVE Quiet(w)
  BY <1>1, <1>2, <1>3, DeliveredQuiet DEF Taken
<1>4. ASSUME ~Has(rows, e, pub[w].msg) PROVE Quiet(w)
  <2>1. /\ pub' = [pub EXCEPT ![w] = pub'[w]]
        /\ pub'[w] = [pub[w] EXCEPT !.at = "insert"]
    BY <1>1, <1>4 DEF Invariants, TypeOK
  <2>2. /\ pub'[w] \in Publications /\ pub'[w].msg = pub[w].msg
        /\ pub'[w].new = pub[w].new /\ pub'[w].todo = pub[w].todo
        /\ pub'[w].delivered = pub[w].delivered
    <3>1. pub[w] \in Publications
      BY DEF Invariants, TypeOK
    <3> QED BY <2>1, <3>1 DEF Publications
  <2>3. pub[w].msg \in Messages
    BY <1>2 DEF Invariants, WriterInv
  <2> QED BY <1>2, <2>1, <2>2, <2>3 DEF Quiet, Invariants, DeliveredInv
<1> QED BY <1>3, <1>4, QuietInvariants

LEMMA InsertInvariants ==
  ASSUME Invariants, NEW w \in Writers, Insert(w) PROVE Invariants'
<1> DEFINE m == pub[w].msg
           others == UNION {Ids(pub[v].new) : v \in Writers \ {w}}
           Row(e) == [id |-> lastId + 1, endpoint |-> e, msg |-> m]
<1>1. PICK e \in Endpoints :
        /\ Turn(w, e)
        /\ \A v \in Writers \ {w} : ~Has(pub[v].new, e, m)
        /\ pub' = [pub EXCEPT ![w] =
             IF Taken(e, m) THEN Rejected(w, e)
             ELSE [Delivered(w, e) EXCEPT !.new = @ \cup {Row(e)}]]
  BY DEF Insert
<1>2. /\ pub[w].at = "insert" /\ m \in Messages
      /\ lastId' = lastId + 1 /\ overtaken' = overtaken \cup others
      /\ UNCHANGED <<rows, endpoints, clients, reported>>
  BY DEF Insert, Invariants, WriterInv
<1>3. /\ \A v \in Writers : \A r \in pub[v].new : r.id <= lastId /\ r.id \in Nat
      /\ \A r \in rows : r.id \in Nat /\ lastId \in Nat
  BY DEF Invariants, WriterInv, TypeOK, Publications, Rows
<1>4. others \subseteq Nat
  BY <1>3 DEF Ids
<1> DEFINE row == Row(e)
           added == IF Taken(e, m) THEN {} ELSE {row}
<1>5. row \in Rows /\ row.id = lastId + 1 /\ row.endpoint = e /\ row.msg = m
  BY <1>2 DEF Rows, Invariants, TypeOK
<1>6. /\ pub' \in [Writers -> Publications]
      /\ \A v \in Writers \ {w} : pub'[v] = pub[v]
      /\ pub'[w].msg = m /\ pub'[w].new = pub[w].new \cup added
      /\ pub'[w].todo = pub[w].todo \ {e}
      /\ pub'[w].delivered = pub[w].delivered \cup {e}
  <2>1. Delivered(w, e) \in Publications
    BY DeliveredIs DEF Invariants
  <2>2. CASE Taken(e, m)
    BY <1>1, <2>1, <2>2, DeliveredIs DEF Invariants, TypeOK, Rejected
  <2>3. ASSUME ~Taken(e, m)
        PROVE  /\ pub'[w] = [Delivered(w, e) EXCEPT !.new = @ \cup {row}]
               /\ \A v \in Writers \ {w} : pub'[v] = pub[v]
               /\ pub' = [pub EXCEPT ![w] = pub'[w]]
    BY <1>1, <2>3 DEF Invariants, TypeOK
  <2>4. CASE ~Taken(e, m)
    <3>1. pub'[w] \in Publications
      BY <2>1, <2>3, <2>4, <1>5 DEF Publications
    <3>2. /\ pub'[w].msg = Delivered(w, e).msg
          /\ pub'[w].new = Delivered(w, e).new \cup {row}
          /\ pub'[w].todo = Delivered(w, e).todo
          /\ pub'[w].delivered = Delivered(w, e).delivered
      BY <2>1, <2>3, <2>4 DEF Publications
    <3> QED BY <3>1, <3>2, <2>3, <2>4, DeliveredIs DEF Invariants, TypeOK
  <2> QED BY <2>2, <2>4
<1>7. /\ e \notin {r.endpoint : r \in pub[w].new}
      /\ added # {} => e \notin deleted /\ ~Has(rows, e, m)
      /\ added = {} => e \in deleted \/ Has(rows, e, m)
  BY <1>1 DEF Turn, Invariants, WriterInv, Taken
<1> HIDE DEF row, Row, m
<1>8. added \subseteq {row} /\ IsFiniteSet(added)
  BY FS_EmptySet, FS_Singleton
<1> HIDE DEF added
<1>9. \A v \in Writers : \A r \in pub'[v].new :
        r \in pub[v].new \/ (v = w /\ r = row /\ added # {})
  BY <1>6, <1>8
<1>10. \A v \in Writers \ {w} : \A r \in pub[v].new : r.id \in others
  BY DEF Ids
<1> HIDE DEF others
<1>11. TypeOK'
  BY <1>2, <1>4, <1>6 DEF Invariants, TypeOK, endpoints, clients
<1>12. FiniteInv'
  <2>1. IsFiniteSet(pub[w].new) /\ IsFiniteSet(rows)
    BY DEF Invariants, FiniteInv
  <2>2. IsFiniteSet(pub[w].new \cup added)
    BY <2>1, <1>8, FS_Union
  <2>3. \A v \in Writers : IsFiniteSet(pub'[v].new)
    BY <2>2, <1>6 DEF Invariants, FiniteInv
  <2> QED BY <2>1, <2>3, <1>2 DEF FiniteInv
<1>13. WriterInv'
  <2>1. \A v \in Writers : pub'[v].at # "idle" => pub'[v].msg \in Messages
    BY <1>2, <1>6 DEF Invariants, WriterInv
  <2>2. ASSUME NEW v \in Writers, NEW r \in pub'[v].new
        PROVE  /\ r.msg = pub'[v].msg /\ r.id <= lastId'
               /\ r.endpoint \notin deleted' /\ r.endpoint \notin pub'[v].todo
    <3>1. ASSUME v = w, r = row, added # {}
          PROVE  /\ r.msg = pub'[v].msg /\ r.id <= lastId'
                 /\ r.endpoint \notin deleted' /\ r.endpoint \notin pub'[v].todo
      BY <1>2, <1>5, <1>6, <1>7, <3>1 DEF Invariants, TypeOK, endpoints
    <3>2. ASSUME r \in pub[v].new
          PROVE  /\ r.msg = pub'[v].msg /\ r.id <= lastId'
                 /\ r.endpoint \notin deleted' /\ r.endpoint \notin pub'[v].todo
      <4>1. /\ r.msg = pub[v].msg /\ r.id <= lastId
            /\ r.endpoint \notin deleted /\ r.endpoint \notin pub[v].todo
        BY <3>2 DEF Invariants, WriterInv
      <4>2. r.id <= lastId + 1
        BY <4>1, <1>3, <3>2 DEF Invariants, TypeOK
      <4>3. pub'[v].msg = pub[v].msg /\ pub'[v].todo \subseteq pub[v].todo
        BY <1>6 DEF m
      <4> QED BY <4>1, <4>2, <4>3, <1>2 DEF endpoints
    <3> QED BY <3>1, <3>2, <1>9
  <2> QED BY <2>1, <2>2 DEF WriterInv
<1>14. KeyInv'
  <2>1. \A v \in Writers : \A r \in pub'[v].new :
          \A q \in rows : ~SameKey(r, q)
    BY <1>5, <1>7, <1>9 DEF Invariants, KeyInv, SameKey, Has
  <2>2. \A v \in Writers : \A r, q \in pub'[v].new : SameKey(r, q) => r = q
    BY <1>5, <1>7, <1>9 DEF Invariants, KeyInv, SameKey
  <2>3. \A v \in Writers : \A u \in Writers \ {v} :
          \A r \in pub'[v].new, q \in pub'[u].new : ~SameKey(r, q)
    <3> SUFFICES ASSUME NEW v \in Writers, NEW u \in Writers \ {v},
                        NEW r \in pub'[v].new, NEW q \in pub'[u].new, SameKey(r, q)
                 PROVE FALSE
      OBVIOUS
    <3>1. CASE r \in pub[v].new /\ q \in pub[u].new
      BY <3>1 DEF Invariants, KeyInv
    <3>2. CASE v = w /\ r = row
      BY <3>2, <1>1, <1>5, <1>6 DEF SameKey, Has
    <3>3. CASE u = w /\ q = row
      BY <3>3, <1>1, <1>5, <1>6 DEF SameKey, Has
    <3> QED BY <3>1, <3>2, <3>3, <1>9
  <2>4. OneDelivery'
    BY <1>2 DEF Invariants, KeyInv, OneDelivery
  <2> QED BY <2>1, <2>2, <2>3, <2>4, <1>2 DEF KeyInv
<1>15. DeliveredInv'
  <2>1. DeliveredHasRow'
    BY <1>2 DEF Invariants, DeliveredInv, DeliveredHasRow, endpoints
  <2>2. ASSUME NEW v \in Writers, NEW f \in pub'[v].delivered, f \notin deleted
        PROVE Has(rows \cup pub'[v].new, f, pub'[v].msg)
    <3>1. CASE v = w /\ f = e
      <4>1. CASE added = {}
        BY <4>1, <3>1, <2>2, <1>6, <1>7 DEF Has
      <4>2. CASE added # {}
        BY <4>2, <3>1, <1>5, <1>6, <1>8 DEF Has
      <4> QED BY <4>1, <4>2
    <3>2. CASE f \in pub[v].delivered
      <4>1. Has(rows \cup pub[v].new, f, pub[v].msg)
        BY <3>2, <2>2 DEF Invariants, DeliveredInv
      <4>2. pub[v].new \subseteq pub'[v].new /\ pub'[v].msg = pub[v].msg
        BY <1>6 DEF m
      <4> QED BY <4>1, <4>2 DEF Has
    <3> QED BY <3>1, <3>2, <2>2, <1>6
  <2> QED BY <2>1, <2>2, <1>2 DEF DeliveredInv, endpoints
<1>16. OvertakenInv'
  <2>1. \A v \in Writers : \A r \in pub'[v].new, q \in rows :
          r.id <= q.id => r.id \in overtaken'
    <3> SUFFICES ASSUME NEW v \in Writers, NEW r \in pub'[v].new, NEW q \in rows,
                        r.id <= q.id
                 PROVE r.id \in overtaken'
      OBVIOUS
    <3>1. q.id <= lastId /\ q.id \in Nat /\ lastId \in Nat
      BY <1>3 DEF Invariants, PastInv
    <3>2. r \in pub[v].new
      BY <3>1, <1>5, <1>9
    <3> QED BY <3>2, <1>2 DEF Invariants, OvertakenInv
  <2>2. \A v \in Writers : \A u \in Writers \ {v} :
          \A r \in pub'[v].new, q \in pub'[u].new : r.id <= q.id => r.id \in overtaken'
    <3> SUFFICES ASSUME NEW v \in Writers, NEW u \in Writers \ {v},
                        NEW r \in pub'[v].new, NEW q \in pub'[u].new, r.id <= q.id
                 PROVE r.id \in overtaken'
      OBVIOUS
    <3>1. CASE r \in pub[v].new /\ q \in pub[u].new
      BY <3>1, <1>2 DEF Invariants, OvertakenInv
    <3>2. CASE v = w /\ r = row
      <4>1. q \in pub[u].new
        BY <3>2, <1>9
      <4>2. q.id <= lastId /\ q.id \in Nat /\ lastId \in Nat
        BY <4>1, <1>3 DEF Invariants, TypeOK
      <4> QED BY <4>2, <3>2, <1>5
    <3>3. CASE u = w /\ q = row
      BY <3>3, <1>2, <1>6, <1>10
    <3> QED BY <3>1, <3>2, <3>3, <1>9
  <2> QED BY <2>1, <2>2, <1>2 DEF OvertakenInv
<1>17. PastInv'
  <2>1. lastId <= lastId + 1 /\ lastId \in Nat
    BY DEF Invariants, TypeOK
  <2>2. /\ \A r \in rows : r.id <= lastId'
        /\ \A f \in Endpoints : cursor[f] <= lastId' /\ \A p \in request[f].page : p.id <= lastId'
    BY <1>2, <2>1 DEF Invariants, PastInv, TypeOK, Rows
  <2>3. ASSUME NEW v \in Writers, NEW r \in pub'[v].new
        PROVE  /\ r.id <= cursor[r.endpoint] => r.id \in overtaken'
               /\ \A p \in request[r.endpoint].page : r.id <= p.id => r.id \in overtaken'
    <3>1. ASSUME r \in pub[v].new
          PROVE  /\ r.id <= cursor[r.endpoint] => r.id \in overtaken'
                 /\ \A p \in request[r.endpoint].page : r.id <= p.id => r.id \in overtaken'
      BY <3>1, <1>2 DEF Invariants, PastInv
    <3>2. ASSUME r = row
          PROVE ~(r.id <= cursor[r.endpoint]) /\ \A p \in request[r.endpoint].page : ~(r.id <= p.id)
      <4>1. /\ cursor[e] <= lastId /\ cursor[e] \in Nat
            /\ \A p \in request[e].page : p.id <= lastId /\ p.id \in Nat
        BY DEF Invariants, PastInv, TypeOK, Rows
      <4> QED BY <4>1, <2>1, <3>2, <1>5
    <3> QED BY <3>1, <3>2, <1>9
  <2> QED BY <2>2, <2>3, <1>2 DEF PastInv, clients
<1>18. PageInv' /\ OnlyOvertakenSkipped'
  BY <1>2 DEF Invariants, PageInv, OnlyOvertakenSkipped, clients
<1> QED BY <1>11, <1>12, <1>13, <1>14, <1>15, <1>16, <1>17, <1>18 DEF Invariants

LEMMA CommitInvariants ==
  ASSUME Invariants, NEW w \in Writers, Commit(w) PROVE Invariants'
<1>1. /\ rows' = rows \cup pub[w].new
      /\ reported' = reported \cup (pub[w].delivered \X {pub[w].msg})
      /\ pub' = [pub EXCEPT ![w] = NoPublication]
      /\ pub[w].msg \in Messages
      /\ UNCHANGED <<lastId, endpoints, clients, overtaken>>
  BY DEF Commit, Invariants, WriterInv
<1>2. /\ pub' \in [Writers -> Publications]
      /\ pub'[w] = NoPublication /\ \A v \in Writers \ {w} : pub'[v] = pub[v]
  BY <1>1 DEF Invariants, TypeOK, Publications, NoPublication
<1>3. \A v \in Writers : \A r \in pub'[v].new : v # w /\ r \in pub[v].new
  BY <1>2 DEF NoPublication
<1>4. pub[w].new \subseteq Rows /\ pub[w].delivered \subseteq Endpoints
  BY DEF Invariants, TypeOK, Publications
<1>5. TypeOK'
  BY <1>1, <1>2, <1>4 DEF Invariants, TypeOK, WriterInv, endpoints, clients
<1>6. FiniteInv'
  <2>1. IsFiniteSet(rows')
    BY <1>1, FS_Union DEF Invariants, FiniteInv
  <2>2. \A v \in Writers : IsFiniteSet(pub'[v].new)
    BY <1>2, FS_EmptySet DEF Invariants, FiniteInv, NoPublication
  <2> QED BY <2>1, <2>2 DEF FiniteInv
<1>7. WriterInv'
  BY <1>1, <1>2 DEF Invariants, WriterInv, NoPublication, endpoints
<1>8. KeyInv'
  <2>1. OneDelivery'
    BY <1>1 DEF Invariants, KeyInv, OneDelivery, SameKey
  <2>2. \A v \in Writers : \A r \in pub'[v].new : \A q \in rows' : ~SameKey(r, q)
    BY <1>1, <1>3 DEF Invariants, KeyInv
  <2>3. \A v \in Writers : \A r \in pub'[v].new :
          /\ \A q \in pub'[v].new : SameKey(r, q) => r = q
          /\ \A u \in Writers \ {v} : \A q \in pub'[u].new : ~SameKey(r, q)
    BY <1>3 DEF Invariants, KeyInv
  <2> QED BY <2>1, <2>2, <2>3 DEF KeyInv
<1>9. DeliveredInv'
  <2>1. ASSUME NEW delivery \in reported', delivery[1] \notin deleted
        PROVE Has(rows', delivery[1], delivery[2])
    <3>1. CASE delivery \in reported
      BY <3>1, <2>1, <1>1 DEF Invariants, DeliveredInv, DeliveredHasRow, Has
    <3>2. CASE delivery \in pub[w].delivered \X {pub[w].msg}
      <4>1. delivery[1] \in pub[w].delivered /\ delivery[2] = pub[w].msg
        BY <3>2
      <4>2. Has(rows \cup pub[w].new, delivery[1], pub[w].msg)
        BY <4>1, <2>1 DEF Invariants, DeliveredInv
      <4> QED BY <4>1, <4>2, <1>1
    <3> QED BY <3>1, <3>2, <1>1
  <2>2. ASSUME NEW v \in Writers, NEW f \in pub'[v].delivered
        PROVE f \in deleted \/ Has(rows' \cup pub'[v].new, f, pub'[v].msg)
    <3>1. v # w /\ pub'[v] = pub[v]
      BY <1>2 DEF NoPublication
    <3>2. f \in deleted \/ Has(rows \cup pub[v].new, f, pub[v].msg)
      BY <3>1 DEF Invariants, DeliveredInv
    <3> QED BY <3>1, <3>2, <1>1 DEF Has
  <2> QED BY <2>1, <2>2, <1>1 DEF DeliveredInv, DeliveredHasRow, endpoints
<1>10. OvertakenInv'
  <2>1. \A v \in Writers : \A r \in pub'[v].new :
          /\ \A u \in Writers \ {v} : \A q \in pub'[u].new : r.id <= q.id => r.id \in overtaken
          /\ \A q \in rows' : r.id <= q.id => r.id \in overtaken
    BY <1>1, <1>3 DEF Invariants, OvertakenInv
  <2> QED BY <2>1, <1>1 DEF OvertakenInv
<1>11. PastInv'
  BY <1>1, <1>3 DEF Invariants, PastInv, WriterInv, clients
<1>12. PageInv'
  <2> SUFFICES ASSUME NEW e \in Endpoints, NEW p \in request[e].page, NEW row \in rows',
                      row.endpoint = e, row.id <= p.id
               PROVE row.id \in Ids(request[e].page) \/ row.id \in got[e] \/ row.id \in overtaken
    BY <1>1 DEF PageInv, clients
  <2>1. CASE row \in rows
    BY <2>1 DEF Invariants, PageInv
  <2>2. CASE row \in pub[w].new
    BY <2>2 DEF Invariants, PastInv
  <2> QED BY <2>1, <2>2, <1>1
<1>13. OnlyOvertakenSkipped'
  BY <1>1 DEF Invariants, OnlyOvertakenSkipped, PastInv, clients
<1> QED BY <1>5, <1>6, <1>7, <1>8, <1>9, <1>10, <1>11, <1>12, <1>13 DEF Invariants

LEMMA ReconfigureInvariants ==
  ASSUME Invariants, Reconfigure PROVE Invariants'
<1>1. /\ enabled' \subseteq Endpoints \ deleted
      /\ linked' \subseteq Endpoints \ deleted
      /\ UNCHANGED <<rows, lastId, pub, deleted, clients, ghosts>>
  BY DEF Reconfigure, Invariants, TypeOK
<1> USE <1>1 DEF clients, ghosts
<1>2. TypeOK' /\ FiniteInv' /\ WriterInv' /\ KeyInv'
  BY DEF Invariants, TypeOK, FiniteInv, WriterInv, KeyInv, OneDelivery
<1>3. DeliveredInv' /\ OvertakenInv' /\ PastInv' /\ PageInv' /\ OnlyOvertakenSkipped'
  BY DEF Invariants, DeliveredInv, DeliveredHasRow, OvertakenInv, PastInv, PageInv,
     OnlyOvertakenSkipped
<1> QED BY <1>2, <1>3 DEF Invariants

LEMMA DeleteInvariants ==
  ASSUME Invariants, NEW e \in Endpoints, Delete(e) PROVE Invariants'
<1>1. /\ rows' = {row \in rows : row.endpoint # e}
      /\ enabled' = enabled \ {e} /\ linked' = linked \ {e}
      /\ deleted' = deleted \cup {e}
      /\ \A w \in Writers : \A row \in pub[w].new : row.endpoint # e
      /\ UNCHANGED <<lastId, pub, clients, ghosts>>
  BY DEF Delete, RowsWithout
<1> USE <1>1 DEF clients, ghosts
<1>2. TypeOK'
  BY DEF Invariants, TypeOK
<1>3. FiniteInv'
  <2>1. rows' \subseteq rows
    OBVIOUS
  <2> QED BY <2>1, FS_Subset DEF Invariants, FiniteInv
<1>4. WriterInv' /\ KeyInv'
  BY DEF Invariants, WriterInv, KeyInv, OneDelivery
<1>5. DeliveredInv'
  BY DEF Invariants, DeliveredInv, DeliveredHasRow, Has
<1>6. OvertakenInv' /\ PastInv' /\ PageInv' /\ OnlyOvertakenSkipped'
  BY DEF Invariants, OvertakenInv, PastInv, PageInv, OnlyOvertakenSkipped
<1> QED BY <1>2, <1>3, <1>4, <1>5, <1>6 DEF Invariants

\* A client does not touch the rows.
LEMMA ClientKeeps ==
  ASSUME Invariants, UNCHANGED <<rows, lastId, pub, endpoints, ghosts>>
  PROVE  FiniteInv' /\ WriterInv' /\ KeyInv' /\ DeliveredInv' /\ OvertakenInv'
BY DEF Invariants, FiniteInv, WriterInv, KeyInv, OneDelivery, DeliveredInv,
   DeliveredHasRow, OvertakenInv, endpoints, ghosts

LEMMA AuthenticateInvariants ==
  ASSUME Invariants, NEW e \in Endpoints, Authenticate(e) PROVE Invariants'
<1>1. /\ request' = [request EXCEPT ![e] = [at |-> "pull", page |-> {}]]
      /\ UNCHANGED <<rows, lastId, pub, endpoints, cursor, got, ghosts>>
  BY DEF Authenticate
<1>2. \A f \in Endpoints :
        \/ request'[f] = request[f]
        \/ request'[f].page = {} /\ request'[f].at = "pull"
  BY <1>1 DEF Invariants, TypeOK
<1>3. TypeOK'
  BY <1>1, <1>2 DEF Invariants, TypeOK, endpoints, ghosts
<1>4. PastInv' /\ PageInv' /\ OnlyOvertakenSkipped'
  BY <1>1, <1>2 DEF Invariants, PastInv, PageInv, OnlyOvertakenSkipped, TypeOK, WriterInv, ghosts
<1> QED BY <1>1, <1>3, <1>4, ClientKeeps DEF Invariants

LEMMA PullInvariants ==
  ASSUME Invariants, NEW e \in Endpoints, Pull(e) PROVE Invariants'
<1>1. /\ request' = [request EXCEPT ![e] =
                       [at |-> "answer", page |-> FirstOf(Newer(e))]]
      /\ UNCHANGED <<rows, lastId, pub, endpoints, cursor, got, ghosts>>
  BY DEF Pull
<1>2. FirstOf(Newer(e)) \subseteq Newer(e) /\ Newer(e) \subseteq rows
  BY FirstOfSubset DEF Newer
<1>3. /\ request'[e].page = FirstOf(Newer(e)) /\ request'[e].at = "answer"
      /\ \A f \in Endpoints \ {e} : request'[f] = request[f]
  BY <1>1 DEF Invariants, TypeOK
<1>4. TypeOK'
  <2>1. FirstOf(Newer(e)) \in SUBSET Rows
    BY <1>2 DEF Invariants, TypeOK
  <2>2. request' \in [Endpoints -> [at : {"idle", "pull", "answer"}, page : SUBSET Rows]]
    BY <2>1, <1>1 DEF Invariants, TypeOK
  <2> QED BY <2>2, <1>1 DEF Invariants, TypeOK, endpoints, ghosts
<1>5. PastInv'
  <2>1. \A f \in Endpoints : \A p \in request'[f].page :
          p \in request[f].page \/ (p \in rows /\ f = e)
    BY <1>2, <1>3
  <2>2. \A f \in Endpoints : cursor[f] <= lastId /\ \A p \in request'[f].page : p.id <= lastId
    BY <2>1 DEF Invariants, PastInv
  <2>3. \A w \in Writers : \A r \in pub[w].new :
          \A p \in request'[r.endpoint].page : r.id <= p.id => r.id \in overtaken
    <3> SUFFICES ASSUME NEW w \in Writers, NEW r \in pub[w].new,
                        NEW p \in request'[r.endpoint].page, r.id <= p.id
                 PROVE r.id \in overtaken
      OBVIOUS
    <3>1. r.endpoint \in Endpoints
      BY DEF Invariants, TypeOK, Publications, Rows
    <3>2. CASE p \in request[r.endpoint].page
      BY <3>2 DEF Invariants, PastInv
    <3>3. CASE p \in rows
      BY <3>3 DEF Invariants, OvertakenInv
    <3> QED BY <3>1, <3>2, <3>3, <2>1
  <2> QED BY <2>2, <2>3, <1>1 DEF Invariants, PastInv, ghosts
<1>6. PageInv'
  <2> SUFFICES ASSUME NEW f \in Endpoints, NEW p \in request'[f].page, NEW row \in rows,
                      row.endpoint = f, row.id <= p.id
               PROVE row.id \in Ids(request'[f].page) \/ row.id \in got[f] \/ row.id \in overtaken
    BY <1>1 DEF PageInv, ghosts
  <2>1. CASE f # e
    BY <2>1, <1>3 DEF Invariants, PageInv
  <2>2. CASE f = e /\ row.id <= cursor[e]
    BY <2>2 DEF Invariants, OnlyOvertakenSkipped
  <2>3. CASE f = e /\ ~(row.id <= cursor[e])
    <3>1. row \in Newer(e)
      BY <2>3 DEF Newer, Invariants, TypeOK, Rows
    <3>2. IsFiniteSet(Newer(e)) /\ \A x \in Newer(e) : x.id \in Nat
      BY <1>2, FS_Subset DEF Invariants, FiniteInv, TypeOK, Rows
    <3>3. row \in FirstOf(Newer(e))
      BY <3>1, <3>2, <2>3, <1>3, FirstOfClosed
    <3> QED BY <3>3, <2>3, <1>3 DEF Ids
  <2> QED BY <2>1, <2>2, <2>3
<1>7. OnlyOvertakenSkipped'
  BY <1>1 DEF Invariants, OnlyOvertakenSkipped, ghosts
<1> QED BY <1>1, <1>4, <1>5, <1>6, <1>7, ClientKeeps DEF Invariants

\* A client without a request has no page.
LEMMA RequestEnds ==
  ASSUME TypeOK, NEW e \in Endpoints, request' = [request EXCEPT ![e] = NoRequest]
  PROVE  /\ request' \in [Endpoints -> [at : {"idle", "pull", "answer"}, page : SUBSET Rows]]
         /\ request'[e].page = {} /\ \A f \in Endpoints \ {e} : request'[f] = request[f]
BY DEF TypeOK, NoRequest

LEMMA ReceiveInvariants ==
  ASSUME Invariants, NEW e \in Endpoints, Receive(e) PROVE Invariants'
<1> DEFINE page == request[e].page
<1>1. /\ got' = [got EXCEPT ![e] = @ \cup Ids(page)]
      /\ request' = [request EXCEPT ![e] = NoRequest]
      /\ UNCHANGED <<rows, lastId, pub, endpoints, ghosts>>
  BY DEF Receive
<1>2. /\ request' \in [Endpoints -> [at : {"idle", "pull", "answer"}, page : SUBSET Rows]]
      /\ request'[e].page = {} /\ \A f \in Endpoints \ {e} : request'[f] = request[f]
  BY <1>1, RequestEnds DEF Invariants
<1>3. /\ cursor' \in [Endpoints -> Nat]
      /\ \A f \in Endpoints \ {e} : cursor'[f] = cursor[f]
      /\ \/ cursor'[e] = cursor[e]
         \/ \E last \in page : cursor'[e] = last.id
  <2>1. CASE UNCHANGED cursor
    BY <2>1 DEF Invariants, TypeOK
  <2>2. ASSUME NEW last \in page, cursor' = [cursor EXCEPT ![e] = last.id]
        PROVE  /\ cursor' \in [Endpoints -> Nat] /\ cursor'[e] = last.id
               /\ \A f \in Endpoints \ {e} : cursor'[f] = cursor[f]
    <3>1. last.id \in Nat
      BY DEF Invariants, TypeOK, Rows
    <3> QED BY <3>1, <2>2 DEF Invariants, TypeOK
  <2> QED BY <2>1, <2>2 DEF Receive
<1>4. /\ got' \in [Endpoints -> SUBSET (Nat \ {0})]
      /\ \A f \in Endpoints : got[f] \subseteq got'[f]
      /\ Ids(page) \subseteq got'[e]
  <2>1. Ids(page) \subseteq Nat \ {0}
    BY DEF Ids, Invariants, TypeOK, Rows
  <2> QED BY <2>1, <1>1 DEF Invariants, TypeOK
<1>5. TypeOK'
  BY <1>1, <1>2, <1>3, <1>4 DEF Invariants, TypeOK, endpoints, ghosts
<1>6. PastInv'
  <2>1. \A f \in Endpoints :
          cursor'[f] <= lastId /\ \A p \in request'[f].page : p.id <= lastId
    BY <1>2, <1>3 DEF Invariants, PastInv
  <2>2. ASSUME NEW w \in Writers, NEW r \in pub[w].new
        PROVE  /\ r.id <= cursor'[r.endpoint] => r.id \in overtaken
               /\ \A p \in request'[r.endpoint].page : r.id <= p.id => r.id \in overtaken
    <3>1. r.endpoint \in Endpoints
      BY DEF Invariants, TypeOK, Publications, Rows
    <3>2. /\ r.id <= cursor[r.endpoint] => r.id \in overtaken
          /\ \A p \in request[r.endpoint].page : r.id <= p.id => r.id \in overtaken
      BY DEF Invariants, PastInv
    <3>3. CASE r.endpoint # e
      BY <3>1, <3>2, <3>3, <1>2, <1>3
    <3>4. CASE r.endpoint = e
      BY <3>2, <3>4, <1>2, <1>3
    <3> QED BY <3>3, <3>4
  <2> QED BY <2>1, <2>2, <1>1 DEF Invariants, PastInv, ghosts
<1>7. PageInv'
  BY <1>1, <1>2, <1>4 DEF Invariants, PageInv, ghosts
<1>8. OnlyOvertakenSkipped'
  <2> SUFFICES ASSUME NEW row \in rows, row.id <= cursor'[row.endpoint]
               PROVE row.id \in got'[row.endpoint] \/ row.id \in overtaken
    BY <1>1 DEF OnlyOvertakenSkipped, ghosts
  <2>1. row.endpoint \in Endpoints
    BY DEF Invariants, TypeOK, Rows
  <2>2. CASE row.id <= cursor[row.endpoint]
    BY <2>1, <2>2, <1>4 DEF Invariants, OnlyOvertakenSkipped
  <2>3. CASE row.endpoint = e /\ \E last \in page : row.id <= last.id
    BY <2>3, <1>4 DEF Invariants, PageInv
  <2> QED BY <2>1, <2>2, <2>3, <1>3
<1> QED BY <1>1, <1>5, <1>6, <1>7, <1>8, ClientKeeps DEF Invariants

LEMMA LoseInvariants ==
  ASSUME Invariants, NEW e \in Endpoints, Lose(e) PROVE Invariants'
<1>1. /\ got' \in {got, [got EXCEPT ![e] = @ \cup Ids(request[e].page)]}
      /\ request' = [request EXCEPT ![e] = NoRequest]
      /\ UNCHANGED <<rows, lastId, pub, endpoints, cursor, ghosts>>
  BY DEF Lose
<1>2. /\ request' \in [Endpoints -> [at : {"idle", "pull", "answer"}, page : SUBSET Rows]]
      /\ request'[e].page = {} /\ \A f \in Endpoints \ {e} : request'[f] = request[f]
  BY <1>1, RequestEnds DEF Invariants
<1>3. /\ got' \in [Endpoints -> SUBSET (Nat \ {0})]
      /\ \A f \in Endpoints : got[f] \subseteq got'[f]
  <2>1. Ids(request[e].page) \subseteq Nat \ {0}
    BY DEF Ids, Invariants, TypeOK, Rows
  <2> QED BY <2>1, <1>1 DEF Invariants, TypeOK
<1>4. TypeOK'
  BY <1>1, <1>2, <1>3 DEF Invariants, TypeOK, endpoints, ghosts
<1>5. PastInv' /\ PageInv' /\ OnlyOvertakenSkipped'
  <2>1. \A f \in Endpoints : request'[f].page \subseteq request[f].page
    BY <1>2
  <2>2. PastInv'
    BY <2>1, <1>1 DEF Invariants, PastInv, TypeOK, Publications, Rows, ghosts
  <2>3. PageInv'
    BY <1>1, <1>2, <1>3 DEF Invariants, PageInv, ghosts
  <2>4. OnlyOvertakenSkipped'
    BY <1>1, <1>3 DEF Invariants, OnlyOvertakenSkipped, TypeOK, Rows, ghosts
  <2> QED BY <2>2, <2>3, <2>4
<1> QED BY <1>1, <1>4, <1>5, ClientKeeps DEF Invariants

-----------------------------------------------------------------------------
LEMMA StepInvariants == Invariants /\ [Next]_vars => Invariants'
<1> SUFFICES ASSUME Invariants, [Next]_vars PROVE Invariants'
  OBVIOUS
<1>1. ASSUME NEW w \in Writers, Resolve(w) PROVE Invariants'
  BY <1>1, ResolveInvariants
<1>2. ASSUME NEW w \in Writers, Publish(w) PROVE Invariants'
  BY <1>2, CheckInvariants, InsertInvariants, CommitInvariants DEF Publish
<1>3. ASSUME NEW w \in Writers, Fail(w) PROVE Invariants'
  BY <1>3, FailInvariants
<1>4. CASE Reconfigure
  BY <1>4, ReconfigureInvariants
<1>5. ASSUME NEW e \in Endpoints, Delete(e) PROVE Invariants'
  BY <1>5, DeleteInvariants
<1>6. ASSUME NEW e \in Endpoints, Authenticate(e) PROVE Invariants'
  BY <1>6, AuthenticateInvariants
<1>7. ASSUME NEW e \in Endpoints, Pull(e) PROVE Invariants'
  BY <1>7, PullInvariants
<1>8. ASSUME NEW e \in Endpoints, Receive(e) PROVE Invariants'
  BY <1>8, ReceiveInvariants
<1>9. ASSUME NEW e \in Endpoints, Lose(e) PROVE Invariants'
  BY <1>9, LoseInvariants
<1>10. CASE UNCHANGED vars
  <2>1. Invariants /\ UNCHANGED <<rows, lastId, pub, endpoints, ghosts>>
        /\ UNCHANGED <<request, cursor, got>>
    BY <1>10 DEF vars, clients
  <2>2. TypeOK' /\ PastInv' /\ PageInv' /\ OnlyOvertakenSkipped'
    BY <2>1 DEF Invariants, TypeOK, PastInv, PageInv, OnlyOvertakenSkipped, endpoints, ghosts
  <2> QED BY <2>1, <2>2, ClientKeeps DEF Invariants
<1> QED BY <1>1, <1>2, <1>3, <1>4, <1>5, <1>6, <1>7, <1>8, <1>9, <1>10 DEF Next

LEMMA InvariantsHold == Spec => []Invariants
BY InitInvariants, StepInvariants, PTL DEF Spec

\* The variables hold what the code stores in them, and a row's endpoint exists,
\* for any number of writers, endpoints, messages and clients.
THEOREM TypeCorrect == Spec => []TypeOK
<1>1. Invariants => TypeOK
  BY DEF Invariants
<1> QED BY <1>1, InvariantsHold, PTL

\* ApiDeliveryService.enqueue: an endpoint has a message once, however many
\* publications of it overlap or fail.
THEOREM OneDeliveryHolds == Spec => []OneDelivery
<1>1. Invariants => OneDelivery
  BY DEF Invariants, KeyInv
<1> QED BY <1>1, InvariantsHold, PTL

\* ApiDeliveryService.enqueue: what it reports as delivered has a row, in spite of
\* the IntegrityErrors it swallows, unless the endpoint was deleted.
THEOREM DeliveredRowsExist == Spec => []DeliveredHasRow
<1>1. Invariants => DeliveredHasRow
  BY DEF Invariants, DeliveredInv
<1> QED BY <1>1, InvariantsHold, PTL

\* ApiDeliveryService.pull: a client that follows next_cursor, and loses any number
\* of answers, misses only rows overtaken by a later one before their commit.
THEOREM OnlyOvertakenRowsSkipped == Spec => []OnlyOvertakenSkipped
<1>1. Invariants => OnlyOvertakenSkipped
  BY DEF Invariants
<1> QED BY <1>1, InvariantsHold, PTL
=============================================================================
