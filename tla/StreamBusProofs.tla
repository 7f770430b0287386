--------------------------- MODULE StreamBusProofs ---------------------------
(***************************************************************************)
(* Proofs about StreamBus: for any stream, batch size, trimming and number *)
(* of Redis errors, stops and crashes.                                     *)
(***************************************************************************)
EXTENDS StreamBus, FiniteSetTheorems, TLAPS

\* Where the consumer has an entry in hand, that entry is in its batch; it is
\* pending until XACK; between entries nothing in the batch is acknowledged.
InHand ==
  /\ at \in {"handle", "wait", "ack", "delete"} => current \in batch
  /\ at \in {"handle", "wait"} => current \in pending
  /\ at = "batch" => batch \subseteq pending
  /\ at = "delete" => current \notin pending

TypeInv == TypeOK /\ InHand

LEMMA Numbers ==
  ASSUME TypeOK
  PROVE  /\ MaxEntries \in Nat /\ added \in Nat /\ last \in Nat /\ faults \in Nat
         /\ added <= MaxEntries /\ last <= added
         /\ \A i \in entries : i \in Nat /\ 1 <= i /\ i <= added
         /\ \A i \in pending : i \in Nat /\ 1 <= i /\ i <= last
<1>1. MaxEntries \in Nat
  BY StreamAssumption
<1>2. added \in 0 .. MaxEntries /\ last \in 0 .. added /\ faults \in Nat
  BY DEF TypeOK
<1>3. entries \subseteq 1 .. added /\ pending \subseteq 1 .. last
  BY DEF TypeOK
<1> QED BY <1>1, <1>2, <1>3

LEMMA FirstType == ASSUME NEW S PROVE First(S) \subseteq S
  BY DEF First

LEMMA ClaimableType == TypeOK => Claimable \subseteq pending \cap entries \cap idle
  BY FirstType DEF Claimable, TypeOK

\* Every entry that the group has passed over by a read is one it has delivered.
LEMMA ReadsAll ==
  ASSUME TypeOK, XReadGroup, NEW i \in entries, i > last
  PROVE  i > last' \/ i \in pending'
<1>1. Unread \subseteq 1 .. added /\ i \in Unread /\ added \in Nat
  <2>1. added \in Nat
    BY Numbers
  <2> QED BY <2>1 DEF Unread, TypeOK
<1>2. last' \in First(Unread) /\ pending' = pending \cup First(Unread)
  BY <1>1 DEF XReadGroup
<1>3. ASSUME i <= last'  PROVE i \in First(Unread)
  <2> DEFINE Below(k) == {j \in Unread : j < k}
  <2>1. IsFiniteSet(Unread)
    <3>1. IsFiniteSet(1 .. added)
      BY <1>1, FS_Interval
    <3> QED BY <1>1, <3>1, FS_Subset
  <2>2. last' \in Unread /\ Cardinality(Below(last')) < BatchSize
    BY <1>2 DEF First
  <2>3. Below(i) \subseteq Below(last') /\ Below(last') \subseteq Unread
    <3>1. \A j \in Unread : j \in Nat
      BY <1>1
    <3>2. i \in Nat /\ last' \in Nat
      BY <1>1, <2>2, <3>1
    <3>3. \A j \in Unread : j < i => j < last'
      BY <1>3, <3>1, <3>2
    <3> QED BY <3>3
  <2>4. IsFiniteSet(Below(last')) /\ IsFiniteSet(Below(i))
    BY <2>1, <2>3, FS_Subset
  <2>5. Cardinality(Below(i)) <= Cardinality(Below(last'))
    BY <2>3, <2>4, FS_Subset
  <2>6. Cardinality(Below(i)) \in Nat /\ Cardinality(Below(last')) \in Nat
    BY <2>4, FS_CardinalityType
  <2>7. Cardinality(Below(i)) < BatchSize
    BY <2>2, <2>5, <2>6, StreamAssumption
  <2> QED BY <1>1, <2>7 DEF First
<1>4. i \in Nat /\ last' \in Nat
  <2>1. First(Unread) \subseteq Unread /\ \A j \in Unread : j \in Nat
    BY <1>1, FirstType
  <2> QED BY <1>1, <1>2, <2>1
<1> QED BY <1>2, <1>3, <1>4

-----------------------------------------------------------------------------
(* Types. *)

LEMMA TypeInit == Init => TypeInv
<1>1. MaxEntries \in Nat
  BY StreamAssumption
<1>2. Init => /\ added \in 0 .. MaxEntries /\ last \in 0 .. added
              /\ current \in 0 .. last
  BY <1>1 DEF Init
<1>3. Init => runs \in [Entries -> Nat] /\ faults \in Nat
  BY DEF Init
<1>4. Init => /\ entries \subseteq 1 .. added /\ pending \subseteq 1 .. last
              /\ idle \subseteq pending /\ batch \subseteq pending \cup {current}
              /\ trimmed \subseteq 1 .. added /\ at \in Places /\ stopping \in BOOLEAN
  BY DEF Init, Places
<1>5. Init => InHand
  BY DEF Init, InHand
<1> QED BY <1>2, <1>3, <1>4, <1>5 DEF TypeInv, TypeOK

LEMMA ReadType ==
  ASSUME TypeOK, XReadGroup
  PROVE  /\ last' \in last .. added
         /\ pending' \subseteq 1 .. last' /\ idle' \subseteq pending'
         /\ First(Unread) \subseteq pending'
<1>1. First(Unread) \subseteq Unread /\ Unread \subseteq entries
  BY FirstType DEF Unread
<1>2. /\ added \in Nat /\ last \in Nat /\ last <= added
      /\ \A i \in Unread : i \in Nat /\ 1 <= i /\ i <= added /\ last < i
  BY <1>1, Numbers DEF Unread
<1>3. last' \in Nat /\ last <= last' /\ last' <= added
  BY <1>1, <1>2 DEF XReadGroup
<1>4. \A i \in First(Unread) : i <= last'
  BY <1>1 DEF XReadGroup
<1>5. pending' = pending \cup First(Unread) /\ idle' = idle
  BY DEF XReadGroup
<1>6. \A i \in pending' : i \in Nat /\ 1 <= i /\ i <= last'
  BY <1>1, <1>2, <1>3, <1>4, <1>5, Numbers
<1>7. pending' \subseteq 1 .. last' /\ last' \in last .. added
  BY <1>2, <1>3, <1>6
<1>8. idle' \subseteq pending'
  BY <1>5 DEF TypeOK
<1> QED BY <1>5, <1>7, <1>8

LEMMA TypeStep == TypeInv /\ [Next]_vars => TypeInv'
<1> SUFFICES ASSUME TypeInv, [Next]_vars  PROVE TypeInv'
  OBVIOUS
<1>0. /\ MaxEntries \in Nat /\ added \in Nat /\ last \in Nat /\ faults \in Nat
      /\ added <= MaxEntries /\ last <= added
      /\ \A i \in entries : i \in Nat /\ 1 <= i /\ i <= added
      /\ \A i \in pending : i \in Nat /\ 1 <= i /\ i <= last
  BY Numbers DEF TypeInv
<1>1. CASE Publish
  <2>1. added' = added + 1 /\ added' \in 0 .. MaxEntries
    BY <1>0, <1>1 DEF Publish
  <2>2. entries' \subseteq entries \cup {added'}
        /\ trimmed' \subseteq trimmed \cup entries \cup {added'}
    BY <1>1 DEF Publish
  <2>3. entries' \subseteq 1 .. added' /\ trimmed' \subseteq 1 .. added'
        /\ last \in 0 .. added'
    BY <1>0, <2>1, <2>2 DEF TypeInv, TypeOK
  <2> QED BY <1>1, <2>1, <2>3 DEF Publish, consumer, TypeInv, TypeOK, InHand
<1>2. ASSUME NEW i \in Entries, Age(i)  PROVE TypeInv'
  BY <1>2 DEF Age, consumer, TypeInv, TypeOK, InHand
<1>3. CASE Start \/ Leave
  BY <1>3 DEF Start, Leave, Goto, redis, TypeInv, TypeOK, InHand, Places
<1>4. CASE Claim
  <2>1. Claimable \subseteq pending \cap entries \cap idle
    BY ClaimableType DEF TypeInv
  <2>2. batch' \subseteq pending' /\ idle' \subseteq pending' /\ pending' \subseteq pending
    BY <1>4, <2>1 DEF Claim, XAutoClaim, TypeInv, TypeOK
  <2> QED BY <1>4, <2>2 DEF Claim, XAutoClaim, TypeInv, TypeOK, InHand, Places
<1>5. CASE Read
  BY <1>5, ReadType DEF Read, XReadGroup, TypeInv, TypeOK, InHand, Places
<1>6. CASE NextEntry
  <2>1. UNCHANGED <<redis, runs, trimmed, faults, batch, stopping>>
    BY <1>6 DEF NextEntry, Goto
  <2>2. at = "batch" /\ batch \subseteq pending
    BY <1>6 DEF NextEntry, TypeInv, InHand
  <2>3. CASE Goto("poll")
    BY <2>1, <2>3 DEF Goto, redis, TypeInv, TypeOK, InHand, Places
  <2>4. CASE current' \in batch /\ at' \in {"ack", "down", "handle"}
    <3>1. current' \in pending /\ current' \in 0 .. last
      BY <1>0, <2>2, <2>4
    <3> QED BY <2>1, <2>2, <2>4, <3>1 DEF redis, TypeInv, TypeOK, InHand, Places
  <2> QED BY <1>6, <2>3, <2>4 DEF NextEntry
<1>7. CASE HandlerRaises \/ TryAgain
  BY <1>7 DEF HandlerRaises, Raised, TryAgain, Goto, redis, TypeInv, TypeOK, InHand, Places
<1>8. CASE HandlerReturns
  <2>1. current \in Entries
    <3>1. current \in pending
      BY <1>8 DEF HandlerReturns, TypeInv, InHand
    <3> QED BY <1>0, <3>1 DEF Entries
  <2>2. runs' \in [Entries -> Nat]
    BY <1>8, <2>1 DEF HandlerReturns, TypeInv, TypeOK
  <2> QED BY <1>8, <2>2
          DEF HandlerReturns, AfterHandler, Goto, redis, TypeInv, TypeOK, InHand, Places
<1>9. CASE Acknowledge
  BY <1>9 DEF Acknowledge, XAck, Goto, TypeInv, TypeOK, InHand, Places
<1>10. CASE Delete
  BY <1>10 DEF Delete, XDel, TypeInv, TypeOK, InHand, Places
<1>11. CASE RedisError
  <2>1. /\ at' = "poll" /\ batch' = {} /\ faults' = faults + 1
        /\ UNCHANGED <<added, current, stopping, runs, trimmed>>
    BY <1>11 DEF RedisError, Fault, redis, XAutoClaim, XReadGroup, XAck, XDel
  <2>2. /\ last' \in last .. added
        /\ pending' \subseteq 1 .. last' /\ idle' \subseteq pending'
        /\ entries' \subseteq entries
    <3>0. /\ pending \subseteq 1 .. last /\ idle \subseteq pending
          /\ last \in last .. added
      BY <1>0 DEF TypeInv, TypeOK
    <3>1. CASE UNCHANGED redis \/ XDel
      <4>1. UNCHANGED <<last, pending, idle>> /\ entries' \subseteq entries
        BY <3>1 DEF redis, XDel
      <4> QED BY <3>0, <4>1
    <3>2. CASE XAutoClaim
      <4>1. UNCHANGED <<last, entries>> /\ pending' \subseteq pending
        BY <3>2 DEF XAutoClaim
      <4>2. idle' \subseteq pending'
        BY <3>0, <3>2 DEF XAutoClaim
      <4> QED BY <3>0, <4>1, <4>2
    <3>3. CASE XReadGroup
      BY <3>3, ReadType DEF XReadGroup, TypeInv
    <3>4. CASE XAck
      BY <1>0, <3>4 DEF XAck, TypeInv, TypeOK
    <3> QED BY <1>11, <3>1, <3>2, <3>3, <3>4 DEF RedisError
  <2> QED BY <1>0, <2>1, <2>2 DEF TypeInv, TypeOK, InHand, Places
<1>12. CASE Stop \/ Crash
  <2>1. /\ UNCHANGED <<redis, runs, trimmed, batch, current>> /\ faults' = faults + 1
        /\ \/ at' = "down" /\ UNCHANGED stopping
           \/ UNCHANGED at /\ stopping' = TRUE
    BY <1>12 DEF Stop, Crash, Fault, Goto
  <2>2. faults' \in Nat
    BY <1>0, <2>1
  <2> QED BY <2>1, <2>2 DEF redis, TypeInv, TypeOK, InHand, Places
<1>13. CASE UNCHANGED vars
  BY <1>13 DEF vars, redis, consumer, TypeInv, TypeOK, InHand
<1> QED BY <1>1, <1>2, <1>3, <1>4, <1>5, <1>6, <1>7, <1>8, <1>9, <1>10, <1>11,
           <1>12, <1>13 DEF Next, ConsumerStep

\* The variables have the values Redis and the code give them, and what the
\* consumer has in hand is pending in the group.
THEOREM TypeCorrect == Spec => []TypeOK
<1>1. TypeInv => TypeOK
  BY DEF TypeInv
<1> QED BY <1>1, TypeInit, TypeStep, PTL DEF Spec

-----------------------------------------------------------------------------
(* Nothing is lost. *)

Safe(i) ==
  \/ Handled(i) \/ i \in Poison \/ i \in trimmed
  \/ i \in entries /\ (i > last \/ i \in pending)

\* What XACK and XDEL are called for is done with.
LostInv ==
  /\ NothingLost
  /\ at \in {"ack", "delete"} => Handled(current) \/ current \in Poison

LEMMA LostInit == Init => LostInv
<1> SUFFICES ASSUME Init  PROVE LostInv
  OBVIOUS
<1>1. 1 .. added = {}
  BY DEF Init
<1> QED BY <1>1 DEF Init, LostInv, NothingLost

LEMMA LostStep == TypeInv /\ LostInv /\ [Next]_vars => LostInv'
<1> SUFFICES ASSUME TypeInv, LostInv, [Next]_vars  PROVE LostInv'
  OBVIOUS
<1>0. /\ added \in Nat /\ last \in Nat /\ last <= added
      /\ \A i \in 1 .. added : Safe(i)
      /\ \A i \in entries : i \in Nat /\ 1 <= i /\ i <= added
  BY Numbers DEF TypeInv, LostInv, NothingLost, Safe
<1>1. CASE Publish
  <2>1. added' = added + 1 /\ UNCHANGED <<last, pending, runs, at, current>>
    BY <1>1 DEF Publish, consumer
  <2>2. \A i \in entries \cup {added'} : i \in entries' \/ i \in trimmed'
    <3>1. PICK kept : /\ entries' = kept
                      /\ kept \subseteq entries \cup {added'}
                      /\ added' \in kept
                      /\ trimmed' = trimmed \cup (entries \ kept)
      <4>1. PICK n \in IF MaxLen = 0 THEN {0} ELSE 0 .. added :
              LET kept == {i \in entries \cup {added + 1} : i > n} IN
              /\ entries' = kept
              /\ trimmed' = trimmed \cup (entries \ kept)
        BY <1>1 DEF Publish
      <4>2. n \in Nat /\ added + 1 > n
        BY <1>0, <4>1
      <4> QED BY <2>1, <4>1, <4>2
    <3> QED BY <3>1
  <2>3. trimmed \subseteq trimmed'
    BY <1>1 DEF Publish
  <2>4. ASSUME NEW i \in 1 .. added'  PROVE Safe(i)'
    <3>1. CASE i = added'
      <4>1. i > last'
        BY <1>0, <2>1, <3>1
      <4> QED BY <2>2, <3>1, <4>1 DEF Safe
    <3>2. CASE i # added'
      <4>1. i \in 1 .. added
        BY <1>0, <2>1, <3>2
      <4> QED BY <1>0, <2>1, <2>2, <2>3, <4>1 DEF Safe, Handled
    <3> QED BY <3>1, <3>2
  <2> QED BY <2>1, <2>4 DEF LostInv, NothingLost, Safe, Handled
<1> DEFINE Acked(i) == i = current /\ at \in {"ack", "delete"}
           Keeps == /\ UNCHANGED <<added, trimmed>>
                    /\ \A i \in Entries : runs[i] > 0 => runs'[i] > 0
                    /\ \A i \in entries : i \in entries' \/ Acked(i)
                    /\ \A i \in entries : i > last => i > last' \/ i \in pending'
                    /\ \A i \in pending \cap entries : i \in pending' \/ Acked(i)
<1>2. ASSUME Keeps  PROVE NothingLost'
  <2>1. ASSUME NEW i \in 1 .. added  PROVE Safe(i)'
    <3>1. i \in Entries
      BY Numbers DEF Entries, TypeInv
    <3>2. Safe(i)
      BY <1>0
    <3>3. CASE Acked(i)
      BY <1>2, <3>1, <3>3 DEF Safe, Handled, LostInv
    <3>4. CASE ~Acked(i)
      BY <1>2, <3>1, <3>2, <3>4 DEF Safe, Handled
    <3> QED BY <3>3, <3>4
  <2>2. added' = added
    BY <1>2
  <2> QED BY <2>1, <2>2 DEF NothingLost, Safe
<1>3. ASSUME UNCHANGED <<added, entries, last, trimmed>>, pending \subseteq pending',
             \A i \in Entries : runs[i] > 0 => runs'[i] > 0
      PROVE  Keeps
  BY <1>3
<1>4. XAutoClaim => \A i \in pending : i \in pending' \/ i \notin entries
  BY DEF XAutoClaim
<1>5. XReadGroup => /\ pending \subseteq pending'
                    /\ \A i \in entries : i > last => i > last' \/ i \in pending'
  BY ReadsAll DEF XReadGroup, TypeInv
<1> HIDE DEF Keeps
<1>6. ASSUME NEW i \in Entries, Age(i)  PROVE LostInv'
  <2>1. UNCHANGED <<added, entries, last, pending, trimmed, runs, at, current>>
    BY <1>6 DEF Age, consumer
  <2> QED BY <1>2, <1>3, <2>1 DEF LostInv, Handled
<1>7. CASE Start \/ TryAgain \/ Leave \/ Stop \/ Crash \/ HandlerRaises
  <2>1. /\ UNCHANGED <<added, entries, last, pending, trimmed, runs, current>>
        /\ at' \in {"ack", "delete"} => at' = at
    BY <1>7
    DEF Start, TryAgain, Leave, Stop, Crash, HandlerRaises, Raised, Goto, redis
  <2> QED BY <1>2, <1>3, <2>1 DEF LostInv, Handled
<1>8. CASE Claim
  <2>1. Keeps
    BY <1>4, <1>8 DEF Claim, XAutoClaim, Keeps
  <2>2. at' \notin {"ack", "delete"}
    BY <1>8 DEF Claim
  <2> QED BY <1>2, <2>1, <2>2 DEF LostInv
<1>9. CASE Read
  <2>1. Keeps
    BY <1>5, <1>9 DEF Read, XReadGroup, Keeps
  <2>2. at' \notin {"ack", "delete"}
    BY <1>9 DEF Read
  <2> QED BY <1>2, <2>1, <2>2 DEF LostInv
<1>10. CASE NextEntry
  <2>1. UNCHANGED <<redis, runs, trimmed>> /\ at = "batch"
        /\ (at' \in {"ack", "delete"} => current' \in Poison)
    BY <1>10 DEF NextEntry, Goto
  <2>2. ASSUME NEW i \in 1 .. added  PROVE Safe(i)'
    BY <1>0, <2>1 DEF Safe, Handled, redis
  <2>3. added' = added
    BY <2>1 DEF redis
  <2> QED BY <2>1, <2>2, <2>3 DEF LostInv, NothingLost, Safe
<1>11. CASE HandlerReturns
  <2>1. /\ UNCHANGED <<redis, trimmed, current>>
        /\ runs' = [runs EXCEPT ![current] = @ + 1]
    BY <1>11 DEF HandlerReturns, Goto
  <2>2. runs \in [Entries -> Nat] /\ current \in Entries
    <3>1. current \in pending
      BY <1>11 DEF HandlerReturns, TypeInv, InHand
    <3> QED BY <3>1, Numbers DEF TypeInv, TypeOK, Entries
  <2>3. Handled(current)' /\ \A i \in Entries : runs[i] > 0 => runs'[i] > 0
    BY <2>1, <2>2 DEF Handled
  <2> QED BY <1>2, <1>3, <2>1, <2>3 DEF redis, LostInv
<1>12. CASE Acknowledge
  <2>1. Keeps /\ UNCHANGED <<runs, current>> /\ at = "ack"
    BY <1>12 DEF Acknowledge, XAck, Goto, Keeps
  <2> QED BY <1>2, <2>1 DEF LostInv, Handled
<1>13. CASE Delete
  <2>1. Keeps /\ at' = "batch"
    BY <1>13 DEF Delete, XDel, Keeps
  <2> QED BY <1>2, <2>1 DEF LostInv
<1>14. CASE RedisError
  <2>1. at' = "poll" /\ UNCHANGED <<current, runs, trimmed>>
    BY <1>14 DEF RedisError
  <2>2. ASSUME UNCHANGED redis  PROVE Keeps
    BY <2>1, <2>2 DEF redis, Keeps
  <2>3. ASSUME XAutoClaim  PROVE Keeps
    BY <1>4, <2>1, <2>3 DEF XAutoClaim, Keeps
  <2>4. ASSUME XReadGroup  PROVE Keeps
    BY <1>5, <2>1, <2>4 DEF XReadGroup, Keeps
  <2>5. ASSUME at = "ack" /\ XAck  PROVE Keeps
    BY <2>1, <2>5 DEF XAck, Keeps
  <2>6. ASSUME at = "delete" /\ XDel  PROVE Keeps
    BY <2>1, <2>6 DEF XDel, Keeps
  <2>7. Keeps
    BY <1>14, <2>2, <2>3, <2>4, <2>5, <2>6 DEF RedisError
  <2> QED BY <1>2, <2>1, <2>7 DEF LostInv
<1>15. CASE UNCHANGED vars
  BY <1>2, <1>3, <1>15 DEF vars, redis, consumer, LostInv, Handled
<1> QED BY <1>1, <1>6, <1>7, <1>8, <1>9, <1>10, <1>11, <1>12, <1>13, <1>14, <1>15
        DEF Next, ConsumerStep

\* An entry leaves the stream, or the group's memory, only when its handler has
\* returned, its payload does not decode, or MAXLEN has removed it.
THEOREM NothingIsLost == Spec => []NothingLost
<1>1. LostInv => NothingLost
  BY DEF LostInv
<1> QED BY <1>1, TypeInit, TypeStep, LostInit, LostStep, PTL DEF Spec

-----------------------------------------------------------------------------
(* Repetitions. *)

\* A stop that is under way counts as a fault that may still repeat an entry.
Owed == IF stopping /\ at # "down" THEN 1 ELSE 0

Ahead(i) == i > last \/ i \in pending

\* An entry may be handled once more than there were faults; one that is still
\* ahead, not yet.
RepeatInv ==
  \A i \in Entries :
    /\ runs[i] + Owed <= 1 + faults
    /\ Ahead(i) /\ ~(at = "ack" /\ i = current) => runs[i] + Owed <= faults

LEMMA RepeatInit == Init => RepeatInv
  BY DEF Init, RepeatInv, Owed

LEMMA RepeatStep == TypeInv /\ RepeatInv /\ [Next]_vars => RepeatInv'
<1> SUFFICES ASSUME TypeInv, RepeatInv, [Next]_vars  PROVE RepeatInv'
  OBVIOUS
<1>0. /\ runs \in [Entries -> Nat] /\ faults \in Nat /\ last \in Nat
      /\ Owed \in {0, 1} /\ \A i \in Entries : i \in Nat
      /\ \A i \in pending : i <= last
  BY Numbers DEF TypeInv, TypeOK, Owed, Entries
<1> DEFINE Settled(i) == at = "ack" /\ i = current
           NotBack == \A i \in Entries : Ahead(i)' => Ahead(i)
\* Steps without a fault that do not run the handler and bring nothing back.
<1>1. ASSUME UNCHANGED <<runs, faults>>, Owed' \in 0 .. Owed,
             \A i \in Entries : Ahead(i)' /\ ~Settled(i)' => Ahead(i) /\ ~Settled(i)
      PROVE  RepeatInv'
  BY <1>0, <1>1 DEF RepeatInv
\* Steps with a fault.
<1>2. ASSUME UNCHANGED runs, faults' = faults + 1, Owed' \in {0, 1}, Owed' <= Owed + 1,
             NotBack, \A i \in Entries : Settled(i) => Owed' <= Owed \/ Settled(i)'
      PROVE  RepeatInv'
  <2> SUFFICES ASSUME NEW i \in Entries
               PROVE  /\ runs'[i] + Owed' <= 1 + faults'
                      /\ Ahead(i)' /\ ~Settled(i)' => runs'[i] + Owed' <= faults'
    BY DEF RepeatInv
  <2>1. /\ runs[i] \in Nat /\ runs[i] + Owed <= 1 + faults
        /\ Ahead(i) /\ ~Settled(i) => runs[i] + Owed <= faults
    BY <1>0 DEF RepeatInv
  <2>2. CASE Settled(i)
    BY <1>0, <1>2, <2>1, <2>2
  <2>3. CASE ~Settled(i)
    BY <1>0, <1>2, <2>1, <2>3
  <2> QED BY <2>2, <2>3
<1>3. XReadGroup => NotBack
  <2>1. ASSUME XReadGroup, NEW i \in Entries, Ahead(i)'  PROVE Ahead(i)
    <3>1. last' \in last .. added
      BY <2>1, ReadType DEF TypeInv
    <3>2. pending' = pending \cup First(Unread) /\ First(Unread) \subseteq Unread
      BY <2>1, FirstType DEF XReadGroup
    <3> QED BY <1>0, <2>1, <3>1, <3>2, Numbers DEF Ahead, Unread, TypeInv
  <2> QED BY <2>1
<1>4. XAutoClaim \/ XAck \/ XDel \/ UNCHANGED redis => NotBack
  BY DEF XAutoClaim, XAck, XDel, redis, Ahead
<1>5. CASE Publish \/ (\E i \in Entries : Age(i)) \/ UNCHANGED vars
  <2>1. UNCHANGED <<last, pending, at, batch, current, stopping, runs, faults>>
    BY <1>5 DEF Publish, Age, vars, redis, consumer
  <2> QED BY <1>0, <1>1, <2>1 DEF Ahead, Owed
<1>6. CASE Start \/ Claim \/ NextEntry \/ TryAgain \/ HandlerRaises \/ Leave
  <2>1. UNCHANGED <<runs, faults>> /\ at # "ack" /\ NotBack
    BY <1>4, <1>6
    DEF Start, Claim, NextEntry, TryAgain, HandlerRaises, Raised, Leave, Goto
  <2>2. Owed' \in 0 .. Owed
    BY <1>6 DEF Start, Claim, NextEntry, TryAgain, HandlerRaises, Raised, Leave, Goto,
                Owed
  <2> QED BY <1>1, <2>1, <2>2
<1>7. CASE Read
  <2>1. UNCHANGED <<runs, faults, stopping>> /\ at = "read" /\ at' = "batch" /\ NotBack
    BY <1>3, <1>7 DEF Read
  <2> QED BY <1>1, <2>1 DEF Owed
<1>8. CASE HandlerReturns
  <2>1. /\ UNCHANGED <<last, pending, current, stopping, faults>> /\ at = "handle"
        /\ runs' = [runs EXCEPT ![current] = @ + 1]
        /\ at' = IF stopping THEN "down" ELSE "ack"
    BY <1>8 DEF HandlerReturns, AfterHandler, Goto, redis
  <2>2. current \in pending /\ current \in Entries
    <3>1. current \in pending
      BY <2>1 DEF TypeInv, InHand
    <3> QED BY <3>1, Numbers DEF TypeInv, Entries
  <2>3. runs[current] + Owed <= faults
    BY <2>1, <2>2 DEF RepeatInv, Ahead
  <2>4. Owed' = 0 /\ (stopping => Owed = 1)
    BY <2>1 DEF Owed
  <2>5. ASSUME NEW i \in Entries
        PROVE  /\ runs'[i] <= 1 + faults
               /\ Ahead(i)' /\ ~Settled(i)' => runs'[i] <= faults
    <3>1. CASE i = current
      BY <1>0, <2>1, <2>2, <2>3, <2>4, <3>1
    <3>2. CASE i # current
      <4>1. runs'[i] = runs[i] /\ (Ahead(i)' => Ahead(i))
        BY <1>0, <2>1, <3>2 DEF Ahead
      <4> QED BY <1>0, <3>2, <4>1 DEF RepeatInv
    <3> QED BY <3>1, <3>2
  <2>6. faults' = faults /\ \A i \in Entries : runs'[i] \in Nat
    BY <1>0, <2>1, <2>2
  <2> QED BY <1>0, <2>4, <2>5, <2>6 DEF RepeatInv
<1>9. CASE Acknowledge
  <2>1. /\ UNCHANGED <<runs, faults, stopping, last, current>>
        /\ at = "ack" /\ at' = "delete" /\ pending' = pending \ {current}
    BY <1>9 DEF Acknowledge, XAck, Goto
  <2>2. current <= last /\ current \in Nat
    BY <1>0 DEF TypeInv, TypeOK
  <2>3. ASSUME NEW i \in Entries, Ahead(i)'  PROVE Ahead(i) /\ i # current
    BY <1>0, <2>1, <2>2, <2>3 DEF Ahead
  <2> QED BY <1>0, <1>1, <2>1, <2>3 DEF Owed
<1>10. CASE Delete
  <2>1. /\ UNCHANGED <<runs, faults, stopping>> /\ at = "delete" /\ at' = "batch" /\ NotBack
    BY <1>4, <1>10 DEF Delete
  <2> QED BY <1>1, <2>1 DEF Owed
<1>11. CASE RedisError
  <2>1. UNCHANGED <<runs, stopping>> /\ faults' = faults + 1 /\ at' = "poll" /\ at # "down"
    BY <1>11 DEF RedisError, Fault
  <2>2. NotBack
    BY <1>3, <1>4, <1>11 DEF RedisError
  <2>3. Owed' = Owed
    BY <2>1 DEF Owed
  <2> QED BY <1>0, <1>2, <2>1, <2>2, <2>3
<1>12. CASE Stop
  <2>1. UNCHANGED <<runs, redis, at, current>> /\ faults' = faults + 1
    BY <1>12 DEF Stop, Fault
  <2>2. Owed = 0 /\ Owed' = 1
    BY <1>12 DEF Stop, Owed
  <2> QED BY <1>2, <1>4, <2>1, <2>2
<1>13. CASE Crash
  <2>1. UNCHANGED <<runs, redis>> /\ faults' = faults + 1 /\ at' = "down"
    BY <1>13 DEF Crash, Fault, Goto
  <2>2. Owed' = 0
    BY <2>1 DEF Owed
  <2> QED BY <1>0, <1>2, <1>4, <2>1, <2>2
<1> QED BY <1>5, <1>6, <1>7, <1>8, <1>9, <1>10, <1>11, <1>12, <1>13
        DEF Next, ConsumerStep

\* A handler runs again for the same entry only because of a Redis error, a stop
\* or a crash, and each of them repeats an entry at most once.
THEOREM RepeatsCostFaults == Spec => []RepeatsAreFaults
<1>1. TypeInv /\ RepeatInv => RepeatsAreFaults
  <2> SUFFICES ASSUME TypeInv, RepeatInv, NEW i \in Entries  PROVE runs[i] <= 1 + faults
    BY DEF RepeatsAreFaults
  <2>1. runs[i] + Owed <= 1 + faults /\ runs[i] \in Nat /\ Owed \in {0, 1} /\ faults \in Nat
    BY DEF RepeatInv, TypeInv, TypeOK, Owed
  <2> QED BY <2>1
<1> QED BY <1>1, TypeInit, TypeStep, RepeatInit, RepeatStep, PTL DEF Spec
-----------------------------------------------------------------------------
(* Order. *)

InHandPlaces == {"handle", "wait", "ack", "delete"}

\* Until the first fault the consumer finishes each batch before it reads the
\* next: what is pending is in the batch, the entry in hand is its first, and
\* what has been handled comes before the rest of it.
OrderInv ==
  faults = 0 =>
    /\ ~stopping
    /\ pending \subseteq batch
    /\ at \in {"down", "poll", "read"} => batch = {}
    /\ at \in InHandPlaces => \A k \in batch : current <= k
    /\ \A j \in Entries : Handled(j) =>
         /\ j <= last
         /\ \A k \in batch : j < k \/ (at \in {"ack", "delete"} /\ j = current)

LEMMA OrderInit == Init => OrderInv
  BY DEF Init, OrderInv, Handled, InHandPlaces

LEMMA OrderStep == TypeInv /\ OrderInv /\ [Next]_vars => OrderInv'
<1> SUFFICES ASSUME TypeInv, OrderInv, [Next]_vars, faults' = 0  PROVE OrderInv'
  BY DEF OrderInv
<1>0. /\ faults \in Nat /\ last \in Nat /\ runs \in [Entries -> Nat]
      /\ batch \subseteq pending \cup {current} /\ idle \subseteq pending
      /\ current \in Nat /\ \A i \in pending : i \in Nat
      /\ \A i \in Entries : i \in Nat
  BY Numbers DEF TypeInv, TypeOK, Entries
<1>1. faults = 0
  BY <1>0 DEF Next, Publish, Age, ConsumerStep, Start, Claim, Read, NextEntry, TryAgain,
              HandlerReturns, Acknowledge, Delete, Leave, HandlerRaises, RedisError,
              Stop, Crash, Fault, vars
<1>2. /\ ~stopping /\ pending \subseteq batch
      /\ at \in {"down", "poll", "read"} => batch = {}
      /\ at \in InHandPlaces => \A k \in batch : current <= k
      /\ \A j \in Entries : Handled(j) => j <= last
      /\ \A j \in Entries, k \in batch :
           Handled(j) => j < k \/ (at \in {"ack", "delete"} /\ j = current)
  BY <1>1 DEF OrderInv
<1>3. CASE Publish \/ (\E i \in Entries : Age(i)) \/ UNCHANGED vars
  <2>1. UNCHANGED <<last, pending, at, batch, current, stopping, runs>>
    BY <1>3 DEF Publish, Age, vars, redis, consumer
  <2> QED BY <1>2, <2>1 DEF OrderInv, Handled
<1>4. CASE Start \/ Leave
  BY <1>2, <1>4 DEF Start, Leave, Goto, redis, OrderInv, Handled, InHandPlaces
<1>5. CASE Claim
  <2>1. pending = {} /\ Claimable = {}
    BY <1>0, <1>2, <1>5, ClaimableType DEF Claim, TypeInv
  <2>2. /\ UNCHANGED <<last, stopping, runs>> /\ at' = "read"
        /\ pending' = {} /\ batch' = {}
    BY <1>5, <2>1 DEF Claim, XAutoClaim
  <2> QED BY <1>2, <2>2 DEF OrderInv, Handled, InHandPlaces
<1>6. CASE Read
  <2>1. /\ UNCHANGED <<stopping, runs>> /\ at' = "batch"
        /\ pending' = pending \cup First(Unread) /\ batch' = First(Unread)
        /\ pending = {}
    BY <1>2, <1>6 DEF Read, XReadGroup
  <2>2. last' \in Nat /\ last <= last'
    BY <1>6, Numbers, ReadType DEF Read, TypeInv
  <2>3. \A k \in batch' : k \in Nat /\ last < k
    BY <2>1, FirstType, Numbers DEF Unread, TypeInv
  <2>4. \A j \in Entries : Handled(j)' => j <= last' /\ \A k \in batch' : j < k
    BY <1>0, <1>2, <2>1, <2>2, <2>3 DEF Handled
  <2> QED BY <1>2, <2>1, <2>4 DEF OrderInv, InHandPlaces
<1>7. CASE NextEntry
  <2>1. UNCHANGED <<redis, runs, batch, stopping>> /\ at = "batch"
    BY <1>7 DEF NextEntry, Goto
  <2>2. CASE batch = {} /\ at' = "poll"
    BY <1>2, <2>1, <2>2 DEF redis, OrderInv, Handled, InHandPlaces
  <2>3. CASE /\ current' \in batch /\ at' \in InHandPlaces
             /\ \A k \in batch : current' <= k
    BY <1>2, <2>1, <2>3 DEF redis, OrderInv, Handled, InHandPlaces
  <2> QED BY <1>2, <1>7, <2>2, <2>3 DEF NextEntry, Goto, InHandPlaces
<1>8. CASE HandlerRaises \/ TryAgain
  BY <1>2, <1>8
  DEF HandlerRaises, Raised, TryAgain, Goto, redis, OrderInv, Handled, InHandPlaces
<1>9. CASE HandlerReturns
  <2>1. /\ UNCHANGED <<last, pending, batch, current, stopping>>
        /\ at = "handle" /\ at' = "ack"
        /\ runs' = [runs EXCEPT ![current] = @ + 1]
    BY <1>2, <1>9 DEF HandlerReturns, AfterHandler, Goto, redis
  <2>2. current \in pending /\ current <= last
    BY <2>1, Numbers DEF TypeInv, InHand
  <2>3. \A j \in Entries : Handled(j)' => Handled(j) \/ j = current
    BY <1>0, <2>1 DEF Handled
  <2>4. \A j \in Entries : Handled(j)' =>
          j <= last /\ \A k \in batch : j < k \/ j = current
    BY <1>2, <2>1, <2>2, <2>3
  <2> QED BY <1>2, <2>1, <2>4 DEF OrderInv, InHandPlaces
<1>10. CASE Acknowledge
  <2>1. /\ UNCHANGED <<last, batch, current, stopping, runs>>
        /\ at = "ack" /\ at' = "delete" /\ pending' \subseteq pending
    BY <1>10 DEF Acknowledge, XAck, Goto
  <2> QED BY <1>2, <2>1 DEF OrderInv, Handled, InHandPlaces
<1>11. CASE Delete
  <2>1. /\ UNCHANGED <<last, pending, current, stopping, runs>>
        /\ at = "delete" /\ at' = "batch" /\ batch' = batch \ {current}
    BY <1>11 DEF Delete, XDel
  <2>2. current \notin pending
    BY <2>1 DEF TypeInv, InHand
  <2>3. \A k \in batch' : k \in Nat /\ current < k
    BY <1>0, <1>2, <2>1 DEF InHandPlaces
  <2>4. \A j \in Entries : Handled(j)' => j <= last' /\ \A k \in batch' : j < k
    BY <1>2, <2>1, <2>3 DEF Handled
  <2> QED BY <1>2, <2>1, <2>2, <2>4 DEF OrderInv, InHandPlaces
<1> QED BY <1>0, <1>1, <1>3, <1>4, <1>5, <1>6, <1>7, <1>8, <1>9, <1>10, <1>11
        DEF Next, ConsumerStep, RedisError, Stop, Crash, Fault

\* Entries are handled in the order in which they were published, until a fault
\* leaves entries pending that newer ones overtake: exceptions of the handler,
\* slow entries, poison and trimming do not change the order.
THEOREM OrderIsKept == Spec => HandledInOrder
<1>1. TypeInv /\ OrderInv /\ [Next]_vars =>
        [\A i \in Entries, j \in Entries :
           faults = 0 /\ runs'[i] > runs[i] /\ i < j => ~Handled(j)]_vars
  <2> SUFFICES ASSUME TypeInv, OrderInv, [Next]_vars, faults = 0,
                      NEW i \in Entries, NEW j \in Entries,
                      runs'[i] > runs[i], i < j, Handled(j)
               PROVE  FALSE
    OBVIOUS
  <2>1. runs \in [Entries -> Nat] /\ i \in Nat /\ j \in Nat
    BY Numbers DEF TypeInv, TypeOK, Entries
  <2>2. HandlerReturns
    <3>1. runs' # runs
      BY <2>1
    <3> QED BY <3>1
            DEF Next, Publish, Age, ConsumerStep, Start, Claim, Read, NextEntry,
                TryAgain, Acknowledge, Delete, Leave, HandlerRaises, RedisError,
                Stop, Crash, vars
  <2>3. at = "handle" /\ runs' = [runs EXCEPT ![current] = @ + 1]
    BY <2>2 DEF HandlerReturns
  <2>4. i = current
    BY <2>1, <2>3
  <2>5. current \in batch
    BY <2>3 DEF TypeInv, InHand
  <2> QED BY <2>1, <2>3, <2>4, <2>5 DEF OrderInv
<1> QED BY <1>1, TypeInit, TypeStep, OrderInit, OrderStep, PTL DEF Spec, HandledInOrder
-----------------------------------------------------------------------------
(* The stream refines AtLeastOnce. *)

\* A pending entry is in the stream or was trimmed; what the handler gets decodes.
KeptInv ==
  /\ pending \subseteq entries \cup trimmed
  /\ at \in {"handle", "wait"} => current \notin Poison

LEMMA KeptInit == Init => KeptInv
  BY DEF Init, KeptInv

\* Of the Redis commands only XACK takes an entry from what is waiting.
LEMMA ClaimWaits ==
  ASSUME TypeOK, XAutoClaim
  PROVE  Waiting' = Waiting /\ pending' \subseteq pending
  BY DEF XAutoClaim, Waiting, TypeOK

LEMMA ReadWaits ==
  ASSUME TypeOK, XReadGroup
  PROVE  Waiting' = Waiting /\ pending' \subseteq pending \cup entries
<1>1. entries' = entries /\ pending' = pending \cup First(Unread)
  BY DEF XReadGroup
<1>2. First(Unread) \subseteq {i \in entries : i > last}
  BY FirstType DEF Unread
<1>3. \A i \in entries : i > last => i > last' \/ i \in pending'
  BY ReadsAll
<1>4. \A i \in entries : i > last' => i > last
  BY ReadType, Numbers
<1>5. Waiting' = {i \in entries : i > last' \/ i \in pending'}
  BY <1>1 DEF Waiting
<1> QED BY <1>1, <1>2, <1>3, <1>4, <1>5 DEF Waiting

LEMMA AckConcludes ==
  ASSUME TypeOK, XAck
  PROVE  Waiting' = Waiting \ {current} /\ pending' \subseteq pending
<1>1. ~(current > last)
  BY Numbers DEF TypeOK
<1> QED BY <1>1 DEF XAck, Waiting

LEMMA DelWaits ==
  ASSUME TypeOK, current \notin pending, XDel
  PROVE  Waiting' = Waiting
<1>1. ~(current > last)
  BY Numbers DEF TypeOK
<1> QED BY <1>1 DEF XDel, Waiting

LEMMA KeptStep == TypeInv /\ KeptInv /\ [Next]_vars => KeptInv'
<1> SUFFICES ASSUME TypeInv, KeptInv, [Next]_vars  PROVE KeptInv'
  OBVIOUS
<1>0. TypeOK
  BY DEF TypeInv
<1>1. CASE Publish
  <2>1. PICK kept : /\ entries' = kept /\ kept \subseteq entries \cup {added + 1}
                    /\ trimmed' = trimmed \cup (entries \ kept)
    BY <1>1 DEF Publish
  <2>2. UNCHANGED <<pending, at, current>>
    BY <1>1 DEF Publish, consumer
  <2> QED BY <2>1, <2>2 DEF KeptInv
<1>2. CASE (\E i \in Entries : Age(i)) \/ UNCHANGED vars \/ Start \/ Leave \/ TryAgain
           \/ HandlerReturns \/ HandlerRaises \/ Stop \/ Crash
  <2>1. UNCHANGED <<entries, pending, trimmed, current>>
        /\ (at' \in {"handle", "wait"} => at \in {"handle", "wait"})
    BY <1>2 DEF Age, vars, redis, consumer, Start, Leave, TryAgain, HandlerReturns,
                AfterHandler, HandlerRaises, Raised, Stop, Crash, Goto
  <2> QED BY <2>1 DEF KeptInv
<1>3. CASE Claim
  <2>1. entries' = entries /\ trimmed' = trimmed /\ at' \notin {"handle", "wait"}
    BY <1>3 DEF Claim, XAutoClaim
  <2> QED BY <1>0, <1>3, <2>1, ClaimWaits DEF KeptInv, Claim
<1>4. CASE Read
  <2>1. entries' = entries /\ trimmed' = trimmed /\ at' \notin {"handle", "wait"}
    BY <1>4 DEF Read, XReadGroup
  <2> QED BY <1>0, <1>4, <2>1, ReadWaits DEF KeptInv, Read
<1>5. CASE NextEntry
  BY <1>5 DEF NextEntry, Goto, redis, KeptInv
<1>6. CASE Acknowledge
  BY <1>6 DEF Acknowledge, XAck, Goto, KeptInv
<1>7. CASE Delete
  <2>1. current \notin pending
    BY <1>7 DEF Delete, TypeInv, InHand
  <2> QED BY <1>7, <2>1 DEF Delete, XDel, KeptInv
<1>8. CASE RedisError
  <2>1. at' = "poll" /\ trimmed' = trimmed
    BY <1>8 DEF RedisError
  <2>2. pending' \subseteq entries' \cup trimmed
    <3>1. CASE UNCHANGED redis
      BY <3>1 DEF redis, KeptInv
    <3>2. CASE XAutoClaim
      BY <1>0, <3>2, ClaimWaits DEF XAutoClaim, KeptInv
    <3>3. CASE XReadGroup
      BY <1>0, <3>3, ReadWaits DEF XReadGroup, KeptInv
    <3>4. CASE XAck
      BY <3>4 DEF XAck, KeptInv
    <3>5. CASE at = "delete" /\ XDel
      BY <3>5 DEF XDel, KeptInv, TypeInv, InHand
    <3> QED BY <1>8, <3>1, <3>2, <3>3, <3>4, <3>5 DEF RedisError
  <2> QED BY <2>1, <2>2 DEF KeptInv
<1> QED BY <1>1, <1>2, <1>3, <1>4, <1>5, <1>6, <1>7, <1>8 DEF Next, ConsumerStep

QueueInv == TypeInv /\ LostInv /\ RepeatInv /\ OrderInv /\ KeptInv

\* Steps that leave what is waiting, and what was handled, alone.
LEMMA SamePromise ==
  ASSUME UNCHANGED <<added, trimmed, runs>>, Waiting' = Waiting,
         (faults' = 0) => (faults = 0)
  PROVE  Promise!Next
  BY DEF Promise!Next

LEMMA PublishArrives ==
  ASSUME QueueInv, Publish
  PROVE  Promise!Next
<1>1. /\ added \in Nat /\ MaxEntries \in Nat /\ last \in Nat /\ last <= added
      /\ entries \subseteq 1 .. added
  BY Numbers DEF QueueInv, TypeInv, TypeOK
<1>2. /\ added < MaxEntries /\ added' = added + 1
      /\ UNCHANGED <<last, pending, runs, faults>>
  BY DEF Publish
<1>3. PICK kept : /\ entries' = kept /\ added' \in kept
                  /\ kept \subseteq entries \cup {added'}
                  /\ trimmed' = trimmed \cup (entries \ kept)
  <2>1. PICK n \in IF MaxLen = 0 THEN {0} ELSE 0 .. added :
          LET kept == {i \in entries \cup {added + 1} : i > n} IN
          /\ entries' = kept
          /\ trimmed' = trimmed \cup (entries \ kept)
    BY DEF Publish
  <2>2. n \in Nat /\ added + 1 > n
    BY <1>1, <2>1
  <2> QED BY <1>2, <2>1, <2>2
<1>4. /\ 1 .. added' = (1 .. added) \cup {added'}
      /\ added' \in Entries \ (1 .. added) /\ added' > last
  BY <1>1, <1>2 DEF Entries
<1>5. Waiting' = (Waiting \cup {added'}) \ (entries \ entries')
  BY <1>1, <1>2, <1>3, <1>4 DEF Waiting
<1>6. entries \ entries' \in SUBSET (1 .. added')
  BY <1>1, <1>4
<1>7. Promise!Arrive(added')
  BY <1>2, <1>3, <1>4, <1>5, <1>6 DEF Promise!Arrive
<1> QED BY <1>2, <1>4, <1>7 DEF Promise!Next

LEMMA ReturnHandles ==
  ASSUME QueueInv, HandlerReturns
  PROVE  Promise!Next
<1>1. /\ at = "handle" /\ runs' = [runs EXCEPT ![current] = @ + 1]
      /\ UNCHANGED <<added, entries, last, pending, trimmed, faults>>
  BY DEF HandlerReturns, Goto, redis
<1>2. current \in pending /\ current \in Entries /\ current \notin Poison
      /\ current <= last /\ current \in Nat
  BY <1>1, Numbers DEF QueueInv, TypeInv, InHand, Entries, KeptInv
<1>3. current \in (Waiting \cup trimmed) \ Poison
  BY <1>2 DEF QueueInv, KeptInv, Waiting
<1>4. ASSUME faults = 0
      PROVE  runs[current] = 0 /\ \A j \in Waiting : current <= j
  <2>1. runs[current] + Owed <= 0 /\ runs[current] \in Nat /\ Owed \in {0, 1}
    BY <1>1, <1>2, <1>4 DEF QueueInv, RepeatInv, Ahead, Owed, TypeInv, TypeOK
  <2>2. pending \subseteq batch /\ \A k \in batch : current <= k
    BY <1>1, <1>4 DEF QueueInv, OrderInv, InHandPlaces
  <2>3. \A j \in Waiting : current <= j
    <3> TAKE j \in Waiting
    <3>1. j \in Nat /\ last \in Nat /\ (j > last \/ j \in pending)
      BY Numbers DEF QueueInv, TypeInv, Waiting
    <3> QED BY <1>2, <2>2, <3>1
  <2> QED BY <2>1, <2>3
<1>5. Waiting' = Waiting
  BY <1>1 DEF Waiting
<1>6. Promise!Handle(current)
  BY <1>1, <1>3, <1>4, <1>5 DEF Promise!Handle
<1> QED BY <1>1, <1>2, <1>6 DEF Promise!Next

LEMMA AcknowledgeConcludes ==
  ASSUME QueueInv, at = "ack", XAck, UNCHANGED <<runs, trimmed>>,
         (faults' = 0) => (faults = 0)
  PROVE  Promise!Next
<1>1. Waiting' = Waiting \ {current} /\ UNCHANGED added
  BY AckConcludes DEF QueueInv, TypeInv, XAck
<1>2. CASE current \in Waiting
  <2>1. runs[current] > 0 \/ current \in Poison
    BY DEF QueueInv, LostInv, Handled
  <2>2. current \in Entries
    BY <1>2, Numbers DEF QueueInv, TypeInv, Waiting, Entries
  <2>3. Promise!Conclude(current)
    BY <1>1, <1>2, <2>1 DEF Promise!Conclude
  <2> QED BY <2>2, <2>3 DEF Promise!Next
<1>3. CASE current \notin Waiting
  BY <1>1, <1>3, SamePromise
<1> QED BY <1>2, <1>3

LEMMA PromiseStep == QueueInv /\ [Next]_vars => Promise!Next
<1> SUFFICES ASSUME QueueInv, [Next]_vars  PROVE Promise!Next
  OBVIOUS
<1>0. TypeOK /\ faults \in Nat
  BY DEF QueueInv, TypeInv, TypeOK
<1>1. CASE Publish
  BY <1>1, PublishArrives
<1>2. CASE (\E i \in Entries : Age(i)) \/ UNCHANGED vars \/ Start \/ Leave \/ TryAgain
           \/ HandlerRaises \/ NextEntry \/ Stop \/ Crash
  <2>1. /\ UNCHANGED <<added, entries, last, pending, runs, trimmed>>
        /\ faults' = faults \/ faults' = faults + 1
    BY <1>2 DEF Age, vars, redis, consumer, Start, Leave, TryAgain, HandlerRaises,
                NextEntry, Stop, Crash, Fault
  <2>2. Waiting' = Waiting
    BY <2>1 DEF Waiting
  <2> QED BY <1>0, <2>1, <2>2, SamePromise
<1>3. CASE Claim
  BY <1>0, <1>3, ClaimWaits, SamePromise DEF Claim, XAutoClaim
<1>4. CASE Read
  BY <1>0, <1>4, ReadWaits, SamePromise DEF Read, XReadGroup
<1>5. CASE HandlerReturns
  BY <1>5, ReturnHandles
<1>6. CASE Acknowledge
  BY <1>6, AcknowledgeConcludes DEF Acknowledge
<1>7. CASE Delete
  <2>1. current \notin pending
    BY <1>7 DEF Delete, QueueInv, TypeInv, InHand
  <2> QED BY <1>0, <1>7, <2>1, DelWaits, SamePromise DEF Delete, XDel
<1>8. CASE RedisError
  <2>1. UNCHANGED <<runs, trimmed>> /\ faults' = faults + 1
    BY <1>8 DEF RedisError, Fault
  <2>2. faults' # 0
    BY <1>0, <2>1
  <2>3. CASE UNCHANGED redis
    <3>1. UNCHANGED added /\ Waiting' = Waiting
      BY <2>3 DEF redis, Waiting
    <3> QED BY <2>1, <2>2, <3>1, SamePromise
  <2>4. CASE XAutoClaim
    BY <1>0, <2>1, <2>2, <2>4, ClaimWaits, SamePromise DEF XAutoClaim
  <2>5. CASE XReadGroup
    BY <1>0, <2>1, <2>2, <2>5, ReadWaits, SamePromise DEF XReadGroup
  <2>6. CASE at = "ack" /\ XAck
    BY <2>1, <2>2, <2>6, AcknowledgeConcludes
  <2>7. CASE at = "delete" /\ XDel
    <3>1. current \notin pending
      BY <2>7 DEF QueueInv, TypeInv, InHand
    <3> QED BY <1>0, <2>1, <2>2, <2>7, <3>1, DelWaits, SamePromise DEF XDel
  <2> QED BY <1>8, <2>3, <2>4, <2>5, <2>6, <2>7 DEF RedisError
<1> QED BY <1>1, <1>2, <1>3, <1>4, <1>5, <1>6, <1>7, <1>8 DEF Next, ConsumerStep

\* Stream, group and consumer implement AtLeastOnce: with claims, lost answers, trimming,
\* stops and crashes, nothing that was concluded is handled again, nothing is concluded
\* that was not handled, and until the first fault the stream is a queue whose entries
\* are handled once each, oldest first.
THEOREM StreamIsAtLeastOnce == Spec => AtLeastOnceDelivery
<1> SUFFICES Spec => Promise!Spec
  BY DEF AtLeastOnceDelivery
<1>1. Init => Promise!Init
  <2> SUFFICES ASSUME Init  PROVE Promise!Init
    OBVIOUS
  <2>1. 1 .. added = {} /\ Waiting = {}
    BY DEF Init, Waiting
  <2> QED BY <2>1 DEF Init, Promise!Init
<1>2. Init => QueueInv
  BY TypeInit, LostInit, RepeatInit, OrderInit, KeptInit DEF QueueInv
<1>3. QueueInv /\ [Next]_vars => QueueInv'
  BY TypeStep, LostStep, RepeatStep, OrderStep, KeptStep DEF QueueInv
<1>4. QueueInv /\ [Next]_vars => [Promise!Next]_(Promise!vars)
  BY PromiseStep
<1> QED BY <1>1, <1>2, <1>3, <1>4, PTL DEF Spec, Promise!Spec
=============================================================================
