------------------------- MODULE ChannelRegistryProofs -------------------------
(***************************************************************************)
(* Proofs about ChannelRegistry: for any sources, targets, endpoints and   *)
(* number of concurrent operations.                                        *)
(***************************************************************************)
EXTENDS ChannelRegistry, SequenceTheorems, FiniteSetTheorems, WellFoundedInduction,
        TLAPS

-----------------------------------------------------------------------------
(* Lists.                                                                  *)

\* A set of numbers that is closed under the successor has every number: one it
\* does not have would have a least one, and that one a predecessor.
LEMMA Induction ==
  ASSUME NEW S \in SUBSET Nat, 0 \in S, \A n \in S : n + 1 \in S
  PROVE  S = Nat
<1> SUFFICES ASSUME Nat \ S # {}  PROVE FALSE
  OBVIOUS
<1>1. PICK n \in Nat \ S : \A m \in Nat \ S : ~(<<m, n>> \in OpToRel(<, Nat))
  <2> DEFINE T == Nat \ S
  <2>1. T \subseteq Nat /\ T # {}
    OBVIOUS
  <2> HIDE DEF T
  <2>2. \E n \in T : \A m \in T : ~(<<m, n>> \in OpToRel(<, Nat))
    BY <2>1, NatLessThanWellFounded, WFMin
  <2> QED BY <2>2 DEF T
<1>2. n # 0 /\ n - 1 \in Nat /\ n - 1 < n /\ (n - 1) + 1 = n
  OBVIOUS
<1>3. n - 1 \in S
  BY <1>1, <1>2 DEF OpToRel
<1> QED BY <1>1, <1>2, <1>3

\* The recursive function that Only defines, up to position m.
Selects(only, l, S, m) ==
  only = [n \in 0..m |->
            IF n = 0 THEN <<>>
            ELSE IF l[n] \in S THEN Append(only[n - 1], l[n]) ELSE only[n - 1]]

LEMMA SelectsExists ==
  ASSUME NEW l, NEW S, NEW m \in Nat
  PROVE  \E only : Selects(only, l, S, m)
<1> DEFINE N == {k \in Nat : \E only : Selects(only, l, S, k)}
<1>1. 0 \in N
  <2>1. Selects([n \in 0..0 |-> <<>>], l, S, 0)
    BY DEF Selects
  <2> QED BY <2>1
<1>2. ASSUME NEW k \in N  PROVE k + 1 \in N
  <2>1. PICK only : Selects(only, l, S, k)
    OBVIOUS
  <2> DEFINE more == [n \in 0..(k + 1) |->
                        IF n = k + 1
                        THEN IF l[k + 1] \in S THEN Append(only[k], l[k + 1]) ELSE only[k]
                        ELSE only[n]]
  <2>2. \A n \in 0..k : more[n] = only[n]
    OBVIOUS
  <2>3. \A n \in 0..(k + 1) :
          more[n] = IF n = 0 THEN <<>>
                    ELSE IF l[n] \in S THEN Append(more[n - 1], l[n]) ELSE more[n - 1]
    <3> SUFFICES ASSUME NEW n \in 0..(k + 1)
                 PROVE  more[n] =
                          IF n = 0 THEN <<>>
                          ELSE IF l[n] \in S THEN Append(more[n - 1], l[n])
                               ELSE more[n - 1]
      OBVIOUS
    <3>1. CASE n = k + 1
      BY <2>2, <3>1
    <3>2. CASE n # k + 1
      <4>1. n \in 0..k /\ (n # 0 => n - 1 \in 0..k)
        BY <3>2
      <4>2. more[n] = only[n] /\ (n # 0 => more[n - 1] = only[n - 1])
        BY <2>2, <4>1
      <4> HIDE DEF more
      <4> QED BY <2>1, <4>1, <4>2 DEF Selects
    <3> QED BY <3>1, <3>2
  <2>4. DOMAIN more = 0..(k + 1) /\ more = [n \in 0..(k + 1) |-> more[n]]
    OBVIOUS
  <2>5. Selects(more, l, S, k + 1)
    <3> HIDE DEF more
    <3> QED BY <2>3, <2>4 DEF Selects
  <2> QED BY <2>5
<1> HIDE DEF N
<1>3. N = Nat
  BY <1>1, <1>2, Induction DEF N
<1> QED BY <1>3 DEF N

LEMMA OnlyDef ==
  ASSUME NEW l, NEW S, Len(l) \in Nat
  PROVE  \E only : Selects(only, l, S, Len(l)) /\ Only(l, S) = only[Len(l)]
<1> DEFINE f == CHOOSE only : Selects(only, l, S, Len(l))
<1>1. Selects(f, l, S, Len(l))
  BY SelectsExists
<1>2. Only(l, S) = f[Len(l)]
  BY DEF Only, Selects
<1> QED BY <1>1, <1>2

\* The members of a list with one more at its end.
LEMMA AppendSet ==
  ASSUME NEW T, NEW l \in Seq(T), NEW e \in T
  PROVE  /\ ToSet(Append(l, e)) = ToSet(l) \cup {e}
         /\ IsInjective(l) /\ e \notin ToSet(l) => IsInjective(Append(l, e))
<1> DEFINE m == Append(l, e)
<1>1. /\ DOMAIN l = 1..Len(l) /\ Len(l) \in Nat
      /\ DOMAIN m = (1..Len(l)) \cup {Len(l) + 1}
      /\ \A i \in 1..Len(l) : m[i] = l[i]
      /\ m[Len(l) + 1] = e
  BY AppendProperties
<1> HIDE DEF m
<1>2. ToSet(m) = ToSet(l) \cup {e}
  BY <1>1 DEF ToSet
<1>3. ASSUME IsInjective(l), e \notin ToSet(l)  PROVE IsInjective(m)
  <2>1. \A i \in 1..Len(l) : m[i] # e
    BY <1>1, <1>3 DEF ToSet
  <2>2. \A i, j \in 1..Len(l) : m[i] = m[j] => i = j
    BY <1>1, <1>3 DEF IsInjective
  <2> QED BY <1>1, <2>1, <2>2 DEF IsInjective
<1> QED BY <1>2, <1>3 DEF m

\* What Only has selected up to each position.
LEMMA SelectsUpTo ==
  ASSUME NEW T, NEW l \in Seq(T), NEW S, NEW only, Selects(only, l, S, Len(l)),
         NEW n \in 0..Len(l)
  PROVE  /\ only[n] \in Seq(T)
         /\ ToSet(only[n]) = {l[i] : i \in 1..n} \cap S
         /\ IsInjective(l) => IsInjective(only[n])
<1> DEFINE Right(k) == /\ only[k] \in Seq(T)
                       /\ ToSet(only[k]) = {l[i] : i \in 1..k} \cap S
                       /\ IsInjective(l) => IsInjective(only[k])
           N == {k \in Nat : k <= Len(l) => Right(k)}
<1>0. Len(l) \in Nat /\ DOMAIN l = 1..Len(l)
  OBVIOUS
<1>1. 0 \in N
  <2>1. only[0] = <<>>
    BY <1>0 DEF Selects
  <2>2. ToSet(<<>>) = {} /\ IsInjective(<<>>)
    BY DEF ToSet, IsInjective
  <2>3. {l[i] : i \in 1..0} \cap S = {}
    OBVIOUS
  <2>4. Right(0)
    BY <2>1, <2>2, <2>3
  <2> HIDE DEF Right
  <2> QED BY <2>4
<1>2. ASSUME NEW k \in N  PROVE k + 1 \in N
  <2> SUFFICES ASSUME k + 1 <= Len(l)  PROVE Right(k + 1)
    OBVIOUS
  <2>1. Right(k) /\ k \in 0..Len(l) /\ k + 1 \in 0..Len(l) /\ l[k + 1] \in T
    BY <1>0
  <2>2. only[k + 1] = IF l[k + 1] \in S THEN Append(only[k], l[k + 1]) ELSE only[k]
    <3>1. k + 1 # 0 /\ (k + 1) - 1 = k
      BY <2>1
    <3>2. \A m \in 0..Len(l) :
            only[m] = IF m = 0 THEN <<>>
                      ELSE IF l[m] \in S THEN Append(only[m - 1], l[m]) ELSE only[m - 1]
      BY DEF Selects
    <3> QED BY <2>1, <3>1, <3>2
  <2>3. {l[i] : i \in 1..(k + 1)} = {l[i] : i \in 1..k} \cup {l[k + 1]}
    <3>1. 1..(k + 1) = (1..k) \cup {k + 1}
      BY <2>1
    <3> QED BY <3>1
  <2>4. CASE l[k + 1] \notin S
    <3>1. only[k + 1] = only[k]
      BY <2>2, <2>4
    <3>2. {l[i] : i \in 1..(k + 1)} \cap S = {l[i] : i \in 1..k} \cap S
      BY <2>3, <2>4
    <3> QED BY <2>1, <3>1, <3>2
  <2>5. CASE l[k + 1] \in S
    <3>1. only[k + 1] = Append(only[k], l[k + 1])
      BY <2>2, <2>5
    <3>2. only[k + 1] \in Seq(T)
      BY <2>1, <3>1, AppendProperties
    <3>3. ToSet(only[k + 1]) = ToSet(only[k]) \cup {l[k + 1]}
      BY <2>1, <3>1, AppendSet
    <3>4. ToSet(only[k + 1]) = {l[i] : i \in 1..(k + 1)} \cap S
      BY <2>1, <2>3, <2>5, <3>3
    <3>5. ASSUME IsInjective(l)  PROVE IsInjective(only[k + 1])
      <4>1. \A i \in 1..k : l[i] # l[k + 1]
        BY <1>0, <2>1, <3>5 DEF IsInjective
      <4>2. l[k + 1] \notin ToSet(only[k])
        BY <2>1, <4>1
      <4> QED BY <2>1, <3>1, <3>5, <4>2, AppendSet
    <3> QED BY <3>2, <3>4, <3>5
  <2> QED BY <2>4, <2>5
<1>3. n \in N
  <2> HIDE DEF N
  <2>1. N = Nat
    <3>1. N \subseteq Nat
      BY DEF N
    <3> QED BY <1>1, <1>2, <3>1, Induction
  <2> QED BY <1>0, <2>1
<1> HIDE DEF Right
<1>4. Right(n)
  BY <1>0, <1>3
<1> QED BY <1>4 DEF Right

\* The members of S in a list are a list, without repetition if the list has none.
LEMMA OnlyList ==
  ASSUME NEW T, NEW l \in Seq(T), NEW S
  PROVE  /\ Only(l, S) \in Seq(T)
         /\ ToSet(Only(l, S)) = ToSet(l) \cap S
         /\ IsInjective(l) => IsInjective(Only(l, S))
<1>1. Len(l) \in Nat /\ Len(l) \in 0..Len(l) /\ DOMAIN l = 1..Len(l)
  OBVIOUS
<1>2. PICK only : Selects(only, l, S, Len(l)) /\ Only(l, S) = only[Len(l)]
  BY <1>1, OnlyDef
<1>3. ToSet(l) = {l[i] : i \in 1..Len(l)}
  BY <1>1 DEF ToSet
<1>4. /\ only[Len(l)] \in Seq(T)
      /\ ToSet(only[Len(l)]) = {l[i] : i \in 1..Len(l)} \cap S
      /\ IsInjective(l) => IsInjective(only[Len(l)])
  BY <1>1, <1>2, SelectsUpTo
<1> QED BY <1>2, <1>3, <1>4

\* The lists of targets are the sequences of targets without repetition.
LEMMA ListsAre ==
  ASSUME NEW l
  PROVE  l \in Lists <=> l \in Seq(Target) /\ IsInjective(l)
<1>1. ASSUME l \in Lists  PROVE l \in Seq(Target) /\ IsInjective(l)
  <2>1. PICK n \in 0..Cardinality(Target) :
          l \in [1..n -> Target] /\ \A i, j \in 1..n : l[i] = l[j] => i = j
    BY <1>1 DEF Lists
  <2>2. n \in Nat
    OBVIOUS
  <2> QED BY <2>1, <2>2 DEF IsInjective
<1>2. ASSUME l \in Seq(Target), IsInjective(l)  PROVE l \in Lists
  <2>1. /\ Len(l) \in Nat /\ l \in [1..Len(l) -> Target] /\ IsFiniteSet(Target)
        /\ DOMAIN l = 1..Len(l)
    BY <1>2, LenProperties, RegistryAssumption
  <2>2. Cardinality(1..Len(l)) <= Cardinality(Target)
    <3>1. l \in Injection(1..Len(l), Target)
      BY <1>2, <2>1 DEF Injection
    <3> QED BY <2>1, <3>1, FS_Injection
  <2>3. Cardinality(1..Len(l)) = Len(l)
    BY <2>1, FS_Interval
  <2>4. Len(l) \in 0..Cardinality(Target)
    BY <2>1, <2>2, <2>3, FS_CardinalityType
  <2> QED BY <1>2, <2>1, <2>4 DEF Lists, IsInjective
<1> QED BY <1>1, <1>2

\* The members of two lists put together.
LEMMA ConcatSet ==
  ASSUME NEW T, NEW l \in Seq(T), NEW m \in Seq(T)
  PROVE  l \o m \in Seq(T) /\ ToSet(l \o m) = ToSet(l) \cup ToSet(m)
<1> DEFINE c == l \o m
<1>1. /\ DOMAIN l = 1..Len(l) /\ DOMAIN m = 1..Len(m) /\ Len(l) \in Nat /\ Len(m) \in Nat
      /\ c \in Seq(T) /\ DOMAIN c = 1..(Len(l) + Len(m))
      /\ \A i \in 1..(Len(l) + Len(m)) : c[i] = IF i <= Len(l) THEN l[i] ELSE m[i - Len(l)]
  BY ConcatProperties, LenProperties
<1> HIDE DEF c
<1>2. ASSUME NEW i \in DOMAIN c  PROVE c[i] \in ToSet(l) \cup ToSet(m)
  <2>1. CASE i <= Len(l)
    <3>1. i \in DOMAIN l /\ c[i] = l[i]
      BY <1>1, <2>1
    <3> QED BY <3>1 DEF ToSet
  <2>2. CASE ~(i <= Len(l))
    <3>1. i - Len(l) \in DOMAIN m /\ c[i] = m[i - Len(l)]
      BY <1>1, <2>2
    <3> QED BY <3>1 DEF ToSet
  <2> QED BY <2>1, <2>2
<1>3. ASSUME NEW i \in DOMAIN l  PROVE l[i] \in ToSet(c)
  <2>1. i \in DOMAIN c /\ c[i] = l[i]
    BY <1>1
  <2> QED BY <2>1 DEF ToSet
<1>4. ASSUME NEW i \in DOMAIN m  PROVE m[i] \in ToSet(c)
  <2>1. i + Len(l) \in DOMAIN c /\ c[i + Len(l)] = m[i]
    BY <1>1
  <2> QED BY <2>1 DEF ToSet
<1>5. ToSet(c) = ToSet(l) \cup ToSet(m)
  BY <1>2, <1>3, <1>4 DEF ToSet
<1> QED BY <1>1, <1>5 DEF c

\* Lists with and without members, their first member, and what is left of them.
LEMMA ListFacts ==
  ASSUME NEW l \in Lists
  PROVE  /\ l \in Seq(Target) /\ IsInjective(l) /\ ToSet(l) \subseteq Target
         /\ l = <<>> <=> ToSet(l) = {}
         /\ FirstOf(l) = IF l = <<>> THEN NoTarget ELSE Head(l)
         /\ l # <<>> => Head(l) \in ToSet(l)
         /\ FirstOf(l) \in Target \cup {NoTarget}
<1>1. l \in Seq(Target) /\ IsInjective(l)
  BY ListsAre
<1>2. DOMAIN l = 1..Len(l) /\ Len(l) \in Nat /\ \A i \in 1..Len(l) : l[i] \in Target
  BY <1>1, ElementOfSeq
<1>3. l # <<>> => 1 \in DOMAIN l /\ Head(l) = l[1]
  BY <1>1, <1>2, EmptySeq
<1>4. ToSet(<<>>) = {}
  BY DEF ToSet
<1> QED BY <1>1, <1>2, <1>3, <1>4 DEF ToSet, FirstOf

LEMMA OnlyFacts ==
  ASSUME NEW l \in Lists, NEW S
  PROVE  Only(l, S) \in Lists /\ ToSet(Only(l, S)) = ToSet(l) \cap S
  BY ListsAre, OnlyList

LEMMA WithoutFacts ==
  ASSUME NEW l \in Lists, NEW T
  PROVE  Without(l, T) \in Lists /\ ToSet(Without(l, T)) = ToSet(l) \ T
  BY OnlyFacts, ListFacts DEF Without

LEMMA EmptyList == <<>> \in Lists /\ ToSet(<<>>) = {}
<1>1. <<>> \in Seq(Target) /\ IsInjective(<<>>)
  BY DEF IsInjective
<1>2. ToSet(<<>>) = {}
  BY DEF ToSet
<1> QED BY <1>1, <1>2, ListsAre

-----------------------------------------------------------------------------
(* Rows and operations.                                                    *)

LEMMA RowTypes ==
  /\ \A row \in SourceRow, l \in Target \cup {NoTarget} :
       [row EXCEPT !.legacy = l] \in SourceRow
  /\ \A row \in SourceRow, b \in BOOLEAN, a \in Access :
       [row EXCEPT !.enabled = b, !.access = a] \in SourceRow
  /\ \A row \in SourceRow, b \in BOOLEAN, a \in Access :
       [row EXCEPT !.access = a, !.enabled = b] \in SourceRow
  /\ \A row \in SourceRow : [row EXCEPT !.is = "gone"] \in SourceRow
  /\ \A row \in TargetRow, b \in BOOLEAN, a \in Access :
       [row EXCEPT !.enabled = b, !.access = a] \in TargetRow
  /\ \A row \in TargetRow, b \in BOOLEAN, a \in Access :
       [row EXCEPT !.access = a, !.enabled = b] \in TargetRow
  /\ \A row \in TargetRow : [row EXCEPT !.is = "gone"] \in TargetRow
  BY DEF SourceRow, TargetRow

LEMMA FoundTypes ==
  ASSUME NEW x
  PROVE  /\ Found(x) \subseteq Access
         /\ FoundSource(x) \subseteq Access /\ FoundTarget(x) \subseteq Access
  BY DEF Found, FoundSource, FoundTarget, Access

LEMMA SnapshotType == TypeOK => Snapshot \in Snapshots
  BY DEF TypeOK, Snapshot, Snapshots

Links == [op : {"link"}, s : Source, refs : Lists]
Replaces == {q \in [op : {"replace"}, s : Source, apis : SUBSET (Api \cup {NoApi}),
                   parts : SUBSET {"targets", "apis"}, old : Snapshots, chosen : Lists] :
               "apis" \in q.parts \/ q.apis = {}}
PatchSources == [op : {"patchSource"}, s : Source, want : BOOLEAN, old : Snapshots]
PatchTargets == [op : {"patchTarget"}, t : Target, want : BOOLEAN, old : Snapshots]
Drops == [op : {"dropTarget"}, t : Target, old : Snapshots]
Binds == [op : {"bind"}, t : Target, old : Snapshots, wanted : SUBSET Source]
Scans == [op : {"scan"}, listed : SUBSET Chats]
Refreshes == [op : {"refresh"}, listed : SUBSET Chats, old : Snapshots]
Checks == [op : {"check"}, t : Target]

\* An operation holds what its name says.
LEMMA OperationTypes ==
  ASSUME NEW q \in Requests
  PROVE  /\ q.op = "link" => q \in Links
         /\ q.op = "replace" => q \in Replaces
         /\ q.op = "patchSource" => q \in PatchSources
         /\ q.op = "patchTarget" => q \in PatchTargets
         /\ q.op = "dropTarget" => q \in Drops
         /\ q.op = "bind" => q \in Binds
         /\ q.op = "scan" => q \in Scans
         /\ q.op = "refresh" => q \in Refreshes
         /\ q.op = "check" => q \in Checks
<1>1. \/ q \in [op : {"idle"}] \/ q \in Links \/ q \in Replaces \/ q \in PatchSources
      \/ q \in PatchTargets \/ q \in Drops \/ q \in Binds \/ q \in Scans
      \/ q \in Refreshes \/ q \in Checks
  BY DEF Requests, Links, Replaces, PatchSources, PatchTargets, Drops, Binds, Scans,
         Refreshes, Checks
<1>2. /\ q \in [op : {"idle"}] => q.op = "idle"
      /\ q \in Links => q.op = "link"
      /\ q \in Replaces => q.op = "replace"
      /\ q \in PatchSources => q.op = "patchSource"
      /\ q \in PatchTargets => q.op = "patchTarget"
  BY DEF Links, Replaces, PatchSources, PatchTargets
<1>3. /\ q \in Drops => q.op = "dropTarget"
      /\ q \in Binds => q.op = "bind"
      /\ q \in Scans => q.op = "scan"
      /\ q \in Refreshes => q.op = "refresh"
      /\ q \in Checks => q.op = "check"
  BY DEF Drops, Binds, Scans, Refreshes, Checks
<1> QED BY <1>1, <1>2, <1>3

-----------------------------------------------------------------------------
(* The invariants, one row at a time.                                      *)

BoundAt(s) ==
  /\ links[s] # <<>> \/ apiLinks[s] # {} => source[s].is = "row"
  /\ \A t \in ToSet(links[s]) : target[t].is = "row"

AskedAt(s) == ToSet(links[s]) = asked[s] /\ apiLinks[s] = askedApis[s]

GateAt(row) == ~(row.is = "row" /\ row.enabled /\ row.access = "missing")

AlignedAt(s) ==
  source[s].is = "row" =>
    IF links[s] = <<>> THEN source[s].legacy = NoTarget
    ELSE source[s].legacy \in ToSet(links[s])

SourceInv(s) ==
  /\ BoundAt(s)
  /\ s \notin overlapped => AskedAt(s) /\ GateAt(source[s])
  /\ s \notin overlapped \cup torn => AlignedAt(s)

\* Only a chat of the account can be found missing.
TargetInv(t) ==
  /\ t \notin overlapped => GateAt(target[t])
  /\ target[t].access = "missing" => t \in TgTarget

RegistryInv ==
  /\ TypeOK
  /\ \A s \in Source : SourceInv(s)
  /\ \A t \in Target : TargetInv(t)

LEMMA RegistryInvShows ==
  RegistryInv => WellFormed /\ ExactlyWhatWasAsked /\ AccessGate /\ LegacyAligned
<1> SUFFICES ASSUME RegistryInv
             PROVE  WellFormed /\ ExactlyWhatWasAsked /\ AccessGate /\ LegacyAligned
  OBVIOUS
<1>1. WellFormed
  BY DEF RegistryInv, SourceInv, BoundAt, WellFormed, NoDangling
<1>2. ExactlyWhatWasAsked
  BY DEF RegistryInv, SourceInv, AskedAt, ExactlyWhatWasAsked
<1>3. AccessGate
  BY DEF RegistryInv, SourceInv, TargetInv, GateAt, AccessGate
<1>4. LegacyAligned
  BY DEF RegistryInv, SourceInv, AlignedAt, LegacyAligned, Configured
<1> QED BY <1>1, <1>2, <1>3, <1>4

\* A source that a step leaves alone, while its targets stay.
LEMMA SourceLeft ==
  ASSUME NEW s \in Source, SourceInv(s),
         source'[s] = source[s], links'[s] = links[s], apiLinks'[s] = apiLinks[s],
         asked'[s] = asked[s], askedApis'[s] = askedApis[s],
         overlapped \subseteq overlapped', s \in torn => s \in torn',
         \A t \in ToSet(links[s]) : target[t].is = "row" => target'[t].is = "row"
  PROVE  SourceInv(s)'
  BY DEF SourceInv, BoundAt, AskedAt, GateAt, AlignedAt

\* A step on one source.
LEMMA SourceStep ==
  ASSUME RegistryInv, TypeOK', UNCHANGED target, NEW s \in Source, SourceInv(s)',
         \A x \in Source \ {s} :
           /\ source'[x] = source[x] /\ links'[x] = links[x]
           /\ apiLinks'[x] = apiLinks[x] /\ asked'[x] = asked[x]
           /\ askedApis'[x] = askedApis[x] /\ (x \in torn => x \in torn'),
         overlapped \subseteq overlapped'
  PROVE  RegistryInv'
<1>1. \A x \in Source \ {s} : SourceInv(x)'
  BY SourceLeft DEF RegistryInv
<1>2. \A t \in Target : TargetInv(t)'
  BY DEF RegistryInv, TargetInv, GateAt
<1> QED BY <1>1, <1>2 DEF RegistryInv

\* A step on one target that does not remove it.
LEMMA TargetStep ==
  ASSUME RegistryInv, TypeOK', UNCHANGED <<source, links, apiLinks, asked, askedApis, torn>>,
         NEW t \in Target, TargetInv(t)', target[t].is = "row" => target'[t].is = "row",
         \A x \in Target \ {t} : target'[x] = target[x],
         overlapped \subseteq overlapped'
  PROVE  RegistryInv'
<1>1. \A x \in Target : target[x].is = "row" => target'[x].is = "row"
  OBVIOUS
<1>2. \A s \in Source : ToSet(links[s]) \subseteq Target
  BY ListFacts DEF RegistryInv, TypeOK
<1>3. \A s \in Source : SourceInv(s)'
  BY <1>1, <1>2, SourceLeft DEF RegistryInv
<1>4. \A x \in Target : TargetInv(x)'
  BY DEF RegistryInv, TargetInv, GateAt
<1> QED BY <1>3, <1>4 DEF RegistryInv

\* Steps that change no row.
LEMMA QuietStep ==
  ASSUME RegistryInv, UNCHANGED <<rows, seen>>, dialogs' \subseteq Chats,
         cached' \subseteq Source, request' \in [Request -> Requests]
  PROVE  RegistryInv'
<1>1. UNCHANGED <<source, target, links, apiLinks, asked, askedApis, overlapped, torn>>
  BY DEF rows, seen
<1>2. TypeOK'
  BY <1>1 DEF RegistryInv, TypeOK
<1>3. \A s \in Source : SourceInv(s)'
  BY <1>1, SourceLeft DEF RegistryInv
<1>4. \A t \in Target : TargetInv(t)'
  BY <1>1 DEF RegistryInv, TargetInv, GateAt
<1> QED BY <1>2, <1>3, <1>4 DEF RegistryInv

LEMMA BeginStep ==
  ASSUME RegistryInv, NEW r \in Request, NEW op \in Requests, Begin(r, op)
  PROVE  RegistryInv'
<1>1. request' \in [Request -> Requests] /\ UNCHANGED <<rows, dialogs, cached, seen>>
  BY DEF Begin, RegistryInv, TypeOK
<1> QED BY <1>1, QuietStep DEF RegistryInv, TypeOK

LEMMA ReplaceReadType ==
  ASSUME TypeOK, NEW s \in Source, NEW refs \in Lists, NEW apis \in SUBSET (Api \cup {NoApi}),
         NEW parts \in SUBSET {"targets", "apis"}, "apis" \in parts \/ apis = {}
  PROVE  ReplaceRead(s, refs, apis, parts) \in Requests
<1>1. Snapshot \in Snapshots /\ Only(refs, Registered) \in Lists
  BY SnapshotType, OnlyFacts
<1>2. ReplaceRead(s, refs, apis, parts) \in Replaces
  BY <1>1 DEF ReplaceRead, Replaces
<1> QED BY <1>2 DEF Requests, Replaces

\* What a commit does to the operation and to the observation of overlaps.
LEMMA CommitFacts ==
  ASSUME TypeOK, NEW r \in Request, NEW W, Commit(r, W)
  PROVE  /\ request' \in [Request -> Requests]
         /\ overlapped' \subseteq Source \cup Target
         /\ overlapped \subseteq overlapped'
         /\ UNCHANGED <<dialogs, cached>>
         /\ \A s \in Source \cap W : s \notin overlapped' =>
              /\ s \notin overlapped
              /\ source[s] = request[r].old.source[s]
              /\ links[s] = request[r].old.links[s]
              /\ apiLinks[s] = request[r].old.apiLinks[s]
         /\ \A t \in Target \cap W : t \notin overlapped' =>
              t \notin overlapped /\ target[t] = request[r].old.target[t]
<1>1. Idle \in Requests
  BY DEF Idle, Requests
<1>2. request' \in [Request -> Requests] /\ UNCHANGED <<dialogs, cached>>
  BY <1>1 DEF Commit, End, TypeOK
<1>3. overlapped' = overlapped \cup (W \cap Stale(r))
  BY DEF Commit
<1>4. Stale(r) \subseteq Source \cup Target
  BY DEF Stale
<1>5. \A s \in Source : s \notin Stale(r) =>
        /\ source[s] = request[r].old.source[s] /\ links[s] = request[r].old.links[s]
        /\ apiLinks[s] = request[r].old.apiLinks[s]
  BY DEF Stale
<1>6. \A t \in Target : t \notin Stale(r) => target[t] = request[r].old.target[t]
  BY DEF Stale
<1> QED BY <1>2, <1>3, <1>4, <1>5, <1>6 DEF TypeOK

-----------------------------------------------------------------------------
(* Every operation keeps the invariant.                                    *)

LEMMA BeginsStep ==
  ASSUME RegistryInv, NEW r \in Request,
         \/ \E s \in Source, want \in BOOLEAN : PatchSource(r, s, want)
         \/ \E s \in Source, l \in Lists : PutTargets(r, s, l)
         \/ \E s \in Source, apis \in SUBSET Api : PutApiEndpoints(r, s, apis)
         \/ PutChannelDestinations(r)
         \/ \E t \in Target, want \in BOOLEAN : PatchTarget(r, t, want)
         \/ \E t \in Target, S \in SUBSET Source : PutSources(r, t, S)
         \/ \E t \in Target : DropTarget(r, t)
         \/ ScanDialogs(r)
         \/ \E t \in Target : CheckPermissions(r, t)
  PROVE  RegistryInv'
<1>0. TypeOK /\ Snapshot \in Snapshots
  BY SnapshotType DEF RegistryInv
<1>1. CASE \E s \in Source, want \in BOOLEAN : PatchSource(r, s, want)
  <2>1. PICK s \in Source, want \in BOOLEAN : PatchSource(r, s, want)
    BY <1>1
  <2>2. [op |-> "patchSource", s |-> s, want |-> want, old |-> Snapshot] \in PatchSources
    BY <1>0 DEF PatchSources
  <2> QED BY <2>1, <2>2, BeginStep DEF PatchSource, Requests, PatchSources
<1>2. CASE \E s \in Source, l \in Lists : PutTargets(r, s, l)
  <2>1. PICK s \in Source, l \in Lists : PutTargets(r, s, l)
    BY <1>2
  <2>2. ReplaceRead(s, l, {}, {"targets"}) \in Requests
    BY <1>0, ReplaceReadType
  <2> QED BY <2>1, <2>2, BeginStep DEF PutTargets
<1>3. CASE \E s \in Source, apis \in SUBSET Api : PutApiEndpoints(r, s, apis)
  <2>1. PICK s \in Source, apis \in SUBSET Api : PutApiEndpoints(r, s, apis)
    BY <1>3
  <2>2. apis \in SUBSET (Api \cup {NoApi})
    OBVIOUS
  <2>3. ReplaceRead(s, <<>>, apis, {"apis"}) \in Requests
    BY <1>0, <2>2, EmptyList, ReplaceReadType
  <2> QED BY <2>1, <2>3, BeginStep DEF PutApiEndpoints
<1>4. CASE PutChannelDestinations(r)
  <2>1. PICK s \in Source, l \in Lists, apis \in SUBSET (Api \cup {NoApi}) :
          PutDestinations(r, s, l, apis)
    BY <1>4 DEF PutChannelDestinations
  <2>2. ReplaceRead(s, l, apis, {"targets", "apis"}) \in Requests
    BY <1>0, ReplaceReadType
  <2> QED BY <2>1, <2>2, BeginStep DEF PutDestinations
<1>5. CASE \E t \in Target, want \in BOOLEAN : PatchTarget(r, t, want)
  <2>1. PICK t \in Target, want \in BOOLEAN : PatchTarget(r, t, want)
    BY <1>5
  <2>2. [op |-> "patchTarget", t |-> t, want |-> want, old |-> Snapshot] \in PatchTargets
    BY <1>0 DEF PatchTargets
  <2> QED BY <2>1, <2>2, BeginStep DEF PatchTarget, Requests, PatchTargets
<1>6. CASE \E t \in Target, S \in SUBSET Source : PutSources(r, t, S)
  <2>1. PICK t \in Target, S \in SUBSET Source : PutSources(r, t, S)
    BY <1>6
  <2>2. [op |-> "bind", t |-> t, old |-> Snapshot,
         wanted |-> {s \in S : source[s].is = "row"}] \in Binds
    BY <1>0 DEF Binds
  <2> QED BY <2>1, <2>2, BeginStep DEF PutSources, Requests, Binds
<1>7. CASE \E t \in Target : DropTarget(r, t)
  <2>1. PICK t \in Target : DropTarget(r, t)
    BY <1>7
  <2>2. [op |-> "dropTarget", t |-> t, old |-> Snapshot] \in Drops
    BY <1>0 DEF Drops
  <2> QED BY <2>1, <2>2, BeginStep DEF DropTarget, Requests, Drops
<1>8. CASE ScanDialogs(r)
  <2>1. [op |-> "scan", listed |-> dialogs] \in Scans
    BY <1>0 DEF Scans, TypeOK
  <2> QED BY <1>8, <2>1, BeginStep DEF ScanDialogs, Requests, Scans
<1>9. CASE \E t \in Target : CheckPermissions(r, t)
  <2>1. PICK t \in Target : CheckPermissions(r, t)
    BY <1>9
  <2>2. [op |-> "check", t |-> t] \in Checks
    BY DEF Checks
  <2> QED BY <2>1, <2>2, BeginStep DEF CheckPermissions, Requests, Checks
<1> QED BY <1>1, <1>2, <1>3, <1>4, <1>5, <1>6, <1>7, <1>8, <1>9

LEMMA QuietActions ==
  ASSUME RegistryInv,
         \/ \E r \in Request : CreateSourceLinks(r) \/ RefreshRead(r) \/ Aborts(r)
         \/ SenderLoads
         \/ AccountMoves
  PROVE  RegistryInv'
<1>0. TypeOK /\ Snapshot \in Snapshots /\ Idle \in Requests
  BY SnapshotType DEF RegistryInv, Idle, Requests
<1>1. ASSUME NEW r \in Request, CreateSourceLinks(r)  PROVE RegistryInv'
  <2>1. request[r] \in Links
    BY <1>0, <1>1, OperationTypes DEF TypeOK, CreateSourceLinks
  <2>2. ReplaceRead(request[r].s, request[r].refs, {}, {"targets"}) \in Requests
    BY <1>0, <2>1, ReplaceReadType DEF Links
  <2> QED BY <1>0, <1>1, <2>2, QuietStep DEF CreateSourceLinks, TypeOK
<1>2. ASSUME NEW r \in Request, RefreshRead(r)  PROVE RegistryInv'
  <2>1. request[r] \in Scans
    BY <1>0, <1>2, OperationTypes DEF TypeOK, RefreshRead
  <2>2. [op |-> "refresh", listed |-> request[r].listed, old |-> Snapshot] \in Refreshes
    BY <1>0, <2>1 DEF Scans, Refreshes
  <2>3. [op |-> "refresh", listed |-> request[r].listed, old |-> Snapshot] \in Requests
    BY <2>2 DEF Refreshes, Requests
  <2> QED BY <1>0, <1>2, <2>3, QuietStep DEF RefreshRead, TypeOK
<1>3. ASSUME NEW r \in Request, Aborts(r)  PROVE RegistryInv'
  BY <1>0, <1>3, QuietStep DEF Aborts, Fails, End, TypeOK
<1>4. CASE SenderLoads
  BY <1>0, <1>4, QuietStep DEF SenderLoads, Configured, TypeOK
<1>5. CASE AccountMoves
  BY <1>0, <1>5, QuietStep DEF AccountMoves, TypeOK
<1> QED BY <1>1, <1>2, <1>3, <1>4, <1>5

LEMMA CreateSourceStep ==
  ASSUME RegistryInv, NEW r \in Request, NEW s \in Source, NEW want \in BOOLEAN,
         NEW refs \in Lists, CreateSource(r, s, want, refs)
  PROVE  RegistryInv'
<1>1. PICK access \in FoundSource(s) :
        source' = [source EXCEPT ![s] =
          [is |-> "row", enabled |-> want /\ access # "missing", access |-> access,
           legacy |-> FirstOf(Only(refs, Registered))]]
  BY DEF CreateSource
<1>2. /\ TypeOK /\ SourceInv(s) /\ source[s].is = "unused" /\ access \in Access
      /\ FirstOf(Only(refs, Registered)) \in Target \cup {NoTarget}
      /\ (want /\ access # "missing") \in BOOLEAN
  BY OnlyFacts, ListFacts, FoundTypes DEF RegistryInv, CreateSource
<1>3. source'[s] = [is |-> "row", enabled |-> want /\ access # "missing",
                    access |-> access, legacy |-> FirstOf(Only(refs, Registered))]
  BY <1>1, <1>2 DEF TypeOK
<1>4. source'[s] \in SourceRow
  BY <1>2, <1>3 DEF SourceRow
<1>5. source' \in [Source -> SourceRow] /\ \A x \in Source \ {s} : source'[x] = source[x]
  BY <1>1, <1>2, <1>3, <1>4 DEF TypeOK
<1>6. request' \in [Request -> Requests]
  <2>1. [op |-> "link", s |-> s, refs |-> refs] \in Links
    BY DEF Links
  <2> QED BY <1>2, <2>1 DEF CreateSource, Requests, Links, TypeOK
<1>7. /\ UNCHANGED <<target, links, apiLinks, dialogs, cached, asked, askedApis, overlapped>>
      /\ torn' = IF refs = <<>> THEN torn ELSE torn \cup {s}
  BY DEF CreateSource
<1>8. TypeOK'
  BY <1>2, <1>5, <1>6, <1>7 DEF TypeOK
<1>9. SourceInv(s)'
  <2>1. links[s] = <<>> /\ apiLinks[s] = {}
    BY <1>2 DEF SourceInv, BoundAt
  <2>2. BoundAt(s)'
    BY <1>3, <1>7, <2>1, EmptyList DEF BoundAt
  <2>3. s \notin overlapped' => AskedAt(s)' /\ GateAt(source[s])'
    <3>0. \A row, b : row = [is |-> "row", enabled |-> b, access |-> access,
                            legacy |-> FirstOf(Only(refs, Registered))]
                      => row.enabled = b /\ row.access = access
      OBVIOUS
    <3>1. source'[s].enabled => source'[s].access # "missing"
      BY <1>3, <3>0, Zenon
    <3> QED BY <1>2, <1>7, <3>1 DEF SourceInv, AskedAt, GateAt
  <2>4. s \notin overlapped' \cup torn' => AlignedAt(s)'
    <3>1. refs = <<>> => Only(refs, Registered) = <<>>
      BY OnlyFacts, EmptyList, ListFacts
    <3> QED BY <1>3, <1>7, <2>1, <3>1 DEF AlignedAt, FirstOf
  <2> QED BY <2>2, <2>3, <2>4 DEF SourceInv
<1> QED BY <1>5, <1>7, <1>8, <1>9, SourceStep

LEMMA RegisterConversationStep ==
  ASSUME RegistryInv, NEW s \in Source, RegisterConversation(s)
  PROVE  RegistryInv'
<1>1. TypeOK /\ SourceInv(s) /\ source[s] \in SourceRow /\ source[s].is \in {"unused", "row"}
  BY DEF RegistryInv, RegisterConversation, TypeOK
<1>2. source'[s] = [is |-> "row", enabled |-> TRUE, access |-> "ok",
                    legacy |-> IF source[s].is = "row" THEN source[s].legacy ELSE NoTarget]
  BY <1>1 DEF RegisterConversation, TypeOK
<1>3. source'[s] \in SourceRow
  BY <1>1, <1>2 DEF SourceRow, Access
<1>4. source' \in [Source -> SourceRow] /\ \A x \in Source \ {s} : source'[x] = source[x]
  BY <1>1, <1>2, <1>3 DEF RegisterConversation, TypeOK
<1>5. /\ UNCHANGED <<target, links, apiLinks, dialogs, request, asked, askedApis,
                     overlapped, torn>>
      /\ cached' \subseteq Source
  BY DEF RegisterConversation, seen, Configured
<1>6. TypeOK'
  BY <1>1, <1>4, <1>5 DEF TypeOK
<1>7. SourceInv(s)'
  BY <1>1, <1>2, <1>5, EmptyList DEF SourceInv, BoundAt, AskedAt, GateAt, AlignedAt
<1> QED BY <1>4, <1>5, <1>6, <1>7, SourceStep

LEMMA DeleteSourceStep ==
  ASSUME RegistryInv, NEW r \in Request, NEW s \in Source, DeleteSource(r, s)
  PROVE  RegistryInv'
<1>1. /\ TypeOK /\ SourceInv(s) /\ source[s] \in SourceRow
      /\ source' = [source EXCEPT ![s].is = "gone"]
      /\ links' = [links EXCEPT ![s] = <<>>]
      /\ apiLinks' = [apiLinks EXCEPT ![s] = {}]
      /\ asked' = [asked EXCEPT ![s] = {}]
      /\ askedApis' = [askedApis EXCEPT ![s] = {}]
      /\ UNCHANGED <<target, dialogs, cached, request, overlapped, torn>>
  BY DEF RegistryInv, DeleteSource, TypeOK
<1>2. /\ source'[s] = [source[s] EXCEPT !.is = "gone"] /\ source'[s].is = "gone"
      /\ links'[s] = <<>> /\ apiLinks'[s] = {} /\ asked'[s] = {} /\ askedApis'[s] = {}
  BY <1>1 DEF TypeOK, SourceRow
<1>3. \A x \in Source \ {s} :
        /\ source'[x] = source[x] /\ links'[x] = links[x] /\ apiLinks'[x] = apiLinks[x]
        /\ asked'[x] = asked[x] /\ askedApis'[x] = askedApis[x]
  BY <1>1 DEF TypeOK
<1>4. source' \in [Source -> SourceRow]
  BY <1>1, <1>2, RowTypes DEF TypeOK
<1>5. TypeOK'
  BY <1>1, <1>4, EmptyList DEF TypeOK
<1>6. SourceInv(s)'
  BY <1>2, EmptyList DEF SourceInv, BoundAt, AskedAt, GateAt, AlignedAt
<1> QED BY <1>1, <1>3, <1>5, <1>6, SourceStep

LEMMA UpdateSourceStep ==
  ASSUME RegistryInv, NEW r \in Request, UpdateSource(r)
  PROVE  RegistryInv'
<1>0. PICK q, s, read, row : /\ q = request[r] /\ s = q.s /\ read = q.old.source[s]
                            /\ row = source[s]
  OBVIOUS
<1>1. TypeOK /\ q \in PatchSources
  BY <1>0, OperationTypes DEF RegistryInv, TypeOK, UpdateSource
<1>2. /\ s \in Source /\ q.want \in BOOLEAN /\ read \in SourceRow /\ row \in SourceRow
      /\ SourceInv(s)
  BY <1>0, <1>1 DEF PatchSources, Snapshots, RegistryInv, TypeOK
<1>3. PICK access \in SourceAccess(q) :
        source' = [source EXCEPT ![s] =
          [row EXCEPT !.enabled = Flush(q.want, read.enabled, row.enabled),
                      !.access = Flush(access, read.access, row.access)]]
  BY <1>0 DEF UpdateSource
<1>4. /\ Commit(r, {s})
      /\ UNCHANGED <<target, links, apiLinks, asked, askedApis, torn>>
  BY <1>0 DEF UpdateSource
<1>5. read.access \in Access /\ read.enabled \in BOOLEAN
      /\ row.access \in Access /\ row.enabled \in BOOLEAN
  BY <1>2 DEF SourceRow
<1>6. access \in Access /\ (q.want => access # "missing")
  <2>1. Found(s) \subseteq Access /\ "ok" \in Access
    BY FoundTypes DEF Access
  <2> QED BY <1>0, <1>2, <1>3, <1>5, <2>1 DEF SourceAccess
<1>7. /\ Flush(q.want, read.enabled, row.enabled) \in BOOLEAN
      /\ Flush(access, read.access, row.access) \in Access
  BY <1>2, <1>5, <1>6 DEF Flush
<1>8. /\ source'[s] = [row EXCEPT !.enabled = Flush(q.want, read.enabled, row.enabled),
                                  !.access = Flush(access, read.access, row.access)]
      /\ \A x \in Source \ {s} : source'[x] = source[x]
  BY <1>1, <1>2, <1>3 DEF TypeOK
<1>9. source'[s] \in SourceRow
  BY <1>2, <1>7, <1>8 DEF SourceRow
<1>10. source' \in [Source -> SourceRow]
  BY <1>1, <1>2, <1>3, <1>8, <1>9 DEF TypeOK
<1>11. /\ request' \in [Request -> Requests] /\ overlapped' \subseteq Source \cup Target
       /\ overlapped \subseteq overlapped' /\ UNCHANGED <<dialogs, cached>>
       /\ s \notin overlapped' => s \notin overlapped /\ row = read
  BY <1>0, <1>1, <1>2, <1>4, CommitFacts
<1>12. TypeOK'
  BY <1>1, <1>4, <1>10, <1>11 DEF TypeOK
<1>13. /\ source'[s].is = row.is /\ source'[s].legacy = row.legacy
       /\ source'[s].enabled = Flush(q.want, read.enabled, row.enabled)
       /\ source'[s].access = Flush(access, read.access, row.access)
  BY <1>2, <1>8 DEF SourceRow
<1>14. SourceInv(s)'
  <2>1. BoundAt(s)' /\ (s \notin overlapped' \cup torn' => AlignedAt(s)')
    BY <1>0, <1>2, <1>4, <1>11, <1>13 DEF SourceInv, BoundAt, AlignedAt
  <2>2. ASSUME s \notin overlapped'  PROVE AskedAt(s)' /\ GateAt(source[s])'
    <3>1. source'[s].enabled = q.want /\ source'[s].access = access
      BY <1>11, <1>13, <2>2 DEF Flush
    <3> QED BY <1>0, <1>2, <1>4, <1>6, <1>11, <2>2, <3>1 DEF SourceInv, AskedAt, GateAt
  <2> QED BY <2>1, <2>2 DEF SourceInv
<1> QED BY <1>2, <1>4, <1>8, <1>11, <1>12, <1>14, SourceStep

\* Neither the links that a replacement leaves nor those it chooses name a target
\* that is gone, and while the rows are as it has read them only the choice is left.
LEMMA ReplaceStep ==
  ASSUME RegistryInv, NEW r \in Request, Replace(r)
  PROVE  RegistryInv'
<1>0. PICK q, s, read, row :
        q = request[r] /\ s = q.s /\ read = q.old.source[s] /\ row = source[s]
  OBVIOUS
<1>1. TypeOK /\ q \in Replaces
  BY <1>0, OperationTypes DEF RegistryInv, TypeOK, Replace
<1>2. /\ s \in Source /\ q.apis \in SUBSET (Api \cup {NoApi}) /\ q.chosen \in Lists
      /\ q.old.links[s] \in Lists /\ read \in SourceRow /\ row \in SourceRow
      /\ links[s] \in Lists /\ apiLinks[s] \in SUBSET Api /\ SourceInv(s)
  BY <1>0, <1>1 DEF Replaces, Snapshots, RegistryInv, TypeOK
<1>3. PICK kept \in KeptApis(q) : apiLinks' = [apiLinks EXCEPT ![s] = kept \cup q.apis]
  BY <1>0 DEF Replace
<1>4. /\ ReplaceAllowed(q) /\ Commit(r, {s}) /\ UNCHANGED target
      /\ links' = [links EXCEPT ![s] = NewLinks(q)]
      /\ source' = IF "targets" \in q.parts /\ row.is = "row"
                   THEN [source EXCEPT ![s].legacy =
                           Flush(FirstOf(q.chosen), read.legacy, row.legacy)]
                   ELSE source
      /\ asked' = IF "targets" \in q.parts
                  THEN [asked EXCEPT ![s] = ToSet(q.chosen)] ELSE asked
      /\ askedApis' = IF "apis" \in q.parts
                      THEN [askedApis EXCEPT ![s] = q.apis] ELSE askedApis
      /\ torn' = IF "targets" \in q.parts THEN torn \ {s} ELSE torn
  BY <1>0 DEF Replace
<1>5. PICK rest \in Lists : /\ rest = Without(links[s], ToSet(q.old.links[s]))
                            /\ ToSet(rest) = ToSet(links[s]) \ ToSet(q.old.links[s])
  BY <1>2, WithoutFacts
<1>6. /\ NewLinks(q) \in Lists
      /\ "targets" \in q.parts => ToSet(NewLinks(q)) = ToSet(rest) \cup ToSet(q.chosen)
      /\ "targets" \notin q.parts => NewLinks(q) = links[s]
  <2>1. rest \in Seq(Target) /\ q.chosen \in Seq(Target)
    BY <1>2, <1>5, ListsAre
  <2>2. /\ rest \o q.chosen \in Seq(Target)
        /\ ToSet(rest \o q.chosen) = ToSet(rest) \cup ToSet(q.chosen)
    BY <2>1, ConcatSet
  <2>3. IsInjective(NewLinks(q))
    BY <1>4 DEF ReplaceAllowed
  <2>4. NewLinks(q) = IF "targets" \in q.parts THEN rest \o q.chosen ELSE links[s]
    BY <1>0, <1>5 DEF NewLinks
  <2> QED BY <1>2, <2>2, <2>3, <2>4, ListsAre
<1>7. kept \subseteq apiLinks[s] /\ kept \cup q.apis \subseteq Api
  <2>1. kept \subseteq apiLinks[s]
    BY <1>0, <1>3 DEF KeptApis
  <2> QED BY <1>2, <1>4, <2>1 DEF ReplaceAllowed
<1>8. /\ links'[s] = NewLinks(q) /\ apiLinks'[s] = kept \cup q.apis
      /\ asked'[s] = IF "targets" \in q.parts THEN ToSet(q.chosen) ELSE asked[s]
      /\ askedApis'[s] = IF "apis" \in q.parts THEN q.apis ELSE askedApis[s]
  BY <1>1, <1>2, <1>3, <1>4 DEF TypeOK
<1>9. \A x \in Source \ {s} :
        /\ source'[x] = source[x] /\ links'[x] = links[x] /\ apiLinks'[x] = apiLinks[x]
        /\ asked'[x] = asked[x] /\ askedApis'[x] = askedApis[x]
        /\ x \in torn => x \in torn'
  BY <1>1, <1>2, <1>3, <1>4 DEF TypeOK
<1>10. source'[s] = IF "targets" \in q.parts /\ row.is = "row"
                    THEN [row EXCEPT !.legacy =
                            Flush(FirstOf(q.chosen), read.legacy, row.legacy)]
                    ELSE row
  BY <1>0, <1>1, <1>2, <1>4 DEF TypeOK
<1>11. /\ source'[s] \in SourceRow
       /\ source'[s].is = row.is /\ source'[s].enabled = row.enabled
       /\ source'[s].access = row.access
       /\ source'[s].legacy = IF "targets" \in q.parts /\ row.is = "row"
                              THEN Flush(FirstOf(q.chosen), read.legacy, row.legacy)
                              ELSE row.legacy
  <2>1. Flush(FirstOf(q.chosen), read.legacy, row.legacy) \in Target \cup {NoTarget}
    BY <1>2, ListFacts DEF Flush, SourceRow
  <2> QED BY <1>2, <1>10, <2>1 DEF SourceRow
<1>12. /\ request' \in [Request -> Requests] /\ overlapped' \subseteq Source \cup Target
       /\ overlapped \subseteq overlapped' /\ UNCHANGED <<dialogs, cached>>
       /\ s \notin overlapped' =>
            s \notin overlapped /\ row = read /\ links[s] = q.old.links[s]
              /\ apiLinks[s] = q.old.apiLinks[s]
  BY <1>0, <1>1, <1>2, <1>4, CommitFacts
<1>13. TypeOK'
  <2>1. source' \in [Source -> SourceRow]
    BY <1>1, <1>2, <1>4, <1>9, <1>11 DEF TypeOK
  <2>2. links' \in [Source -> Lists] /\ apiLinks' \in [Source -> SUBSET Api]
    BY <1>1, <1>2, <1>3, <1>4, <1>6, <1>7 DEF TypeOK
  <2>3. asked' \in [Source -> SUBSET Target]
    BY <1>1, <1>2, <1>4, ListFacts DEF TypeOK
  <2>4. askedApis' \in [Source -> SUBSET Api] /\ torn' \subseteq Source
    BY <1>1, <1>2, <1>4, <1>7 DEF TypeOK
  <2> QED BY <1>1, <1>4, <1>12, <2>1, <2>2, <2>3, <2>4 DEF TypeOK
<1>14. BoundAt(s)'
  <2>1. links'[s] # <<>> => row.is = "row"
    <3>1. CASE "targets" \notin q.parts
      BY <1>0, <1>2, <1>6, <1>8, <3>1 DEF SourceInv, BoundAt
    <3>2. CASE "targets" \in q.parts /\ q.chosen # <<>>
      BY <1>0, <1>4, <3>2 DEF ReplaceAllowed
    <3>3. CASE "targets" \in q.parts /\ q.chosen = <<>>
      <4>1. links'[s] # <<>> => links[s] # <<>>
        <5>1. ToSet(links'[s]) \subseteq ToSet(links[s])
          BY <1>5, <1>6, <1>8, <3>3, EmptyList
        <5> QED BY <1>2, <1>6, <1>8, <5>1, ListFacts, EmptyList
      <4> QED BY <1>0, <1>2, <4>1 DEF SourceInv, BoundAt
    <3> QED BY <3>1, <3>2, <3>3
  <2>2. apiLinks'[s] # {} => row.is = "row"
    BY <1>0, <1>2, <1>4, <1>7, <1>8 DEF SourceInv, BoundAt, ReplaceAllowed
  <2>3. \A t \in ToSet(links'[s]) : target[t].is = "row"
    <3>1. \A t \in ToSet(q.chosen) : target[t].is = "row"
      BY <1>4 DEF ReplaceAllowed, ToSet
    <3>2. ToSet(links'[s]) \subseteq ToSet(links[s]) \cup ToSet(q.chosen)
      BY <1>5, <1>6, <1>8
    <3> QED BY <1>2, <3>1, <3>2 DEF SourceInv, BoundAt
  <2> QED BY <1>4, <1>11, <2>1, <2>2, <2>3 DEF BoundAt
<1>15. ASSUME s \notin overlapped'
       PROVE  /\ AskedAt(s)' /\ GateAt(source[s])'
              /\ "targets" \in q.parts => ToSet(links'[s]) = ToSet(q.chosen)
  <2>1. "targets" \in q.parts => ToSet(links'[s]) = ToSet(q.chosen)
    BY <1>5, <1>6, <1>8, <1>12, <1>15
  <2>2. "apis" \in q.parts => kept = {}
    BY <1>0, <1>3, <1>12, <1>15 DEF KeptApis
  <2>3. "apis" \notin q.parts => kept = apiLinks[s] /\ q.apis = {}
    BY <1>0, <1>1, <1>3 DEF KeptApis, Replaces
  <2> QED BY <1>0, <1>2, <1>6, <1>8, <1>11, <1>12, <1>15, <2>1, <2>2, <2>3
          DEF SourceInv, AskedAt, GateAt
<1>16. s \notin overlapped' \cup torn' => AlignedAt(s)'
  <2> SUFFICES ASSUME s \notin overlapped', s \notin torn', row.is = "row"
               PROVE  IF links'[s] = <<>> THEN source'[s].legacy = NoTarget
                      ELSE source'[s].legacy \in ToSet(links'[s])
    BY <1>11 DEF AlignedAt
  <2>1. CASE "targets" \notin q.parts
    BY <1>0, <1>2, <1>4, <1>6, <1>8, <1>11, <1>12, <2>1 DEF SourceInv, AlignedAt
  <2>2. CASE "targets" \in q.parts
    <3>1. source'[s].legacy = FirstOf(q.chosen)
      BY <1>11, <1>12, <2>2 DEF Flush
    <3>2. links'[s] = <<>> <=> q.chosen = <<>>
      BY <1>2, <1>6, <1>8, <1>15, <2>2, ListFacts
    <3> QED BY <1>2, <1>15, <2>2, <3>1, <3>2, ListFacts
  <2> QED BY <2>1, <2>2
<1> QED BY <1>2, <1>4, <1>9, <1>12, <1>13, <1>14, <1>15, <1>16, SourceStep DEF SourceInv

LEMMA CreateTargetStep ==
  ASSUME RegistryInv, NEW r \in Request, NEW t \in Target, NEW want \in BOOLEAN,
         CreateTarget(r, t, want)
  PROVE  RegistryInv'
<1>1. PICK access \in FoundTarget(t) :
        target' = [target EXCEPT ![t] =
          [is |-> "row", enabled |-> want /\ access # "missing", access |-> access,
           permission |-> "unknown"]]
  BY DEF CreateTarget
<1>2. /\ TypeOK /\ target[t].is = "unused" /\ access \in Access
      /\ (want /\ access # "missing") \in BOOLEAN
  BY FoundTypes DEF RegistryInv, CreateTarget
<1>3. target'[t] = [is |-> "row", enabled |-> want /\ access # "missing",
                    access |-> access, permission |-> "unknown"]
  BY <1>1, <1>2 DEF TypeOK
<1>4. target'[t] \in TargetRow
  BY <1>2, <1>3 DEF TargetRow, Access
<1>5. target' \in [Target -> TargetRow] /\ \A x \in Target \ {t} : target'[x] = target[x]
  BY <1>1, <1>2, <1>3, <1>4 DEF TypeOK
<1>6. UNCHANGED <<source, links, apiLinks, dialogs, cached, request, asked, askedApis,
                  overlapped, torn>>
  BY DEF CreateTarget, seen
<1>7. TypeOK'
  BY <1>2, <1>5, <1>6 DEF TypeOK
<1>8. TargetInv(t)'
  <2>1. \A row, b : row = [is |-> "row", enabled |-> b, access |-> access,
                           permission |-> "unknown"]
                    => row.enabled = b /\ row.access = access
    OBVIOUS
  <2>2. target'[t].enabled => target'[t].access # "missing"
    BY <1>3, <2>1, Zenon
  <2>3. target'[t].access = "missing" => t \in TgTarget
    BY <1>1, <1>3 DEF FoundTarget
  <2> QED BY <2>2, <2>3 DEF TargetInv, GateAt
<1> QED BY <1>2, <1>5, <1>6, <1>7, <1>8, TargetStep

LEMMA UpdateTargetStep ==
  ASSUME RegistryInv, NEW r \in Request, UpdateTarget(r)
  PROVE  RegistryInv'
<1>0. PICK q, t, read, row : /\ q = request[r] /\ t = q.t /\ read = q.old.target[t]
                            /\ row = target[t]
  OBVIOUS
<1>1. TypeOK /\ q \in PatchTargets
  BY <1>0, OperationTypes DEF RegistryInv, TypeOK, UpdateTarget
<1>2. t \in Target /\ q.want \in BOOLEAN /\ read \in TargetRow /\ row \in TargetRow
  BY <1>0, <1>1 DEF PatchTargets, Snapshots, RegistryInv, TypeOK
<1>3. PICK access \in TargetAccess(q) :
        target' = [target EXCEPT ![t] =
          [row EXCEPT !.enabled = Flush(q.want, read.enabled, row.enabled),
                      !.access = Flush(access, read.access, row.access)]]
  BY <1>0 DEF UpdateTarget
<1>4. /\ row.is = "row" /\ Commit(r, {t})
      /\ UNCHANGED <<source, links, apiLinks, asked, askedApis, torn>>
  BY <1>0 DEF UpdateTarget
<1>5. read.access \in Access /\ read.enabled \in BOOLEAN
      /\ row.access \in Access /\ row.enabled \in BOOLEAN
  BY <1>2 DEF TargetRow
<1>6. access \in Access
  BY <1>0, <1>3, <1>5, FoundTypes DEF TargetAccess
<1>7. /\ target'[t] = [row EXCEPT !.enabled = Flush(q.want, read.enabled, row.enabled),
                                  !.access = Flush(access, read.access, row.access)]
      /\ \A x \in Target \ {t} : target'[x] = target[x]
  BY <1>1, <1>2, <1>3 DEF TypeOK
<1>8. target'[t] \in TargetRow /\ target'[t].is = "row"
  <2>1. /\ Flush(q.want, read.enabled, row.enabled) \in BOOLEAN
        /\ Flush(access, read.access, row.access) \in Access
    BY <1>2, <1>5, <1>6 DEF Flush
  <2> QED BY <1>2, <1>4, <1>7, <2>1 DEF TargetRow
<1>9. target' \in [Target -> TargetRow]
  BY <1>1, <1>2, <1>7, <1>8, <1>3 DEF TypeOK
<1>10. /\ request' \in [Request -> Requests] /\ overlapped' \subseteq Source \cup Target
       /\ overlapped \subseteq overlapped' /\ UNCHANGED <<dialogs, cached>>
       /\ t \notin overlapped' => t \notin overlapped /\ row = read
  BY <1>0, <1>1, <1>2, <1>4, CommitFacts
<1>11. TypeOK'
  BY <1>1, <1>4, <1>9, <1>10 DEF TypeOK
<1>12. TargetInv(t)'
  <2>1. TargetInv(t) /\ target'[t].access = Flush(access, read.access, row.access)
        /\ target'[t].enabled = Flush(q.want, read.enabled, row.enabled)
    BY <1>2, <1>7 DEF RegistryInv, TargetRow
  <2>2. target'[t].access = "missing" => t \in TgTarget
    BY <1>0, <1>3, <2>1 DEF TargetInv, TargetAccess, Flush
  <2>3. ASSUME t \notin overlapped'  PROVE GateAt(target'[t])
    <3>1. target'[t].enabled = q.want /\ target'[t].access = access
      BY <1>10, <2>1, <2>3 DEF Flush
    <3>2. q.want => access # "missing"
      BY <1>0, <1>3, <2>2, <3>1 DEF TargetAccess
    <3> QED BY <1>2, <3>1, <3>2 DEF GateAt
  <2> QED BY <2>2, <2>3 DEF TargetInv
<1> QED BY <1>2, <1>4, <1>7, <1>8, <1>10, <1>11, <1>12, TargetStep

LEMMA RecordPermissionStep ==
  ASSUME RegistryInv, NEW r \in Request, NEW verdict \in {"ok", "missing", "error"},
         RecordPermission(r, verdict)
  PROVE  RegistryInv'
<1>0. PICK t : t = request[r].t
  OBVIOUS
<1>1. TypeOK /\ request[r] \in Checks
  BY OperationTypes DEF RegistryInv, TypeOK, RecordPermission
<1>2. t \in Target /\ target[t] \in TargetRow
  BY <1>0, <1>1 DEF Checks, TypeOK
<1>3. /\ target' = [target EXCEPT ![t].permission = verdict]
      /\ request' = [request EXCEPT ![r] = Idle]
      /\ UNCHANGED <<source, links, apiLinks, dialogs, cached, asked, askedApis,
                     overlapped, torn>>
  BY <1>0 DEF RecordPermission, End, seen
<1>4. /\ target'[t] \in TargetRow /\ target'[t].is = target[t].is
      /\ target'[t].enabled = target[t].enabled /\ target'[t].access = target[t].access
      /\ \A x \in Target \ {t} : target'[x] = target[x]
  <2>1. target'[t] = [target[t] EXCEPT !.permission = verdict]
        /\ \A x \in Target \ {t} : target'[x] = target[x]
    BY <1>1, <1>2, <1>3 DEF TypeOK
  <2>2. verdict \in Access \cup {"error"}
    BY DEF Access
  <2> QED BY <1>2, <2>1, <2>2 DEF TargetRow
<1>5. target' \in [Target -> TargetRow] /\ request' \in [Request -> Requests]
  BY <1>1, <1>2, <1>3, <1>4 DEF TypeOK, Idle, Requests
<1>6. TypeOK'
  BY <1>1, <1>3, <1>5 DEF TypeOK
<1>7. TargetInv(t)'
  BY <1>2, <1>3, <1>4 DEF RegistryInv, TargetInv, GateAt
<1> QED BY <1>2, <1>3, <1>4, <1>6, <1>7, TargetStep

\* A source that delete_target does not touch had no link to the target when it
\* looked: one that it has now was committed meanwhile.
LEMMA DeleteTargetStep ==
  ASSUME RegistryInv, NEW r \in Request, DeleteTarget(r)
  PROVE  RegistryInv'
<1>0. PICK q, t, W :
        /\ q = request[r] /\ t = q.t
        /\ W = Affected(q) \cup {s \in Source : t \in ToSet(links[s])}
  OBVIOUS
<1>1. TypeOK /\ q \in Drops
  BY <1>0, OperationTypes DEF RegistryInv, TypeOK, DeleteTarget
<1>2. t \in Target /\ q.old \in Snapshots /\ target[t] \in TargetRow
  BY <1>0, <1>1 DEF Drops, TypeOK
<1>3. /\ target' = [target EXCEPT ![t].is = "gone"]
      /\ links' = [s \in Source |-> Without(links[s], {t})]
      /\ source' = [s \in Source |->
                      IF s \in Affected(q) /\ source[s].is = "row"
                      THEN [source[s] EXCEPT !.legacy = FirstOf(Without(links[s], {t}))]
                      ELSE source[s]]
      /\ asked' = [s \in Source |-> asked[s] \ {t}]
      /\ Commit(r, W)
      /\ UNCHANGED <<apiLinks, askedApis, torn>>
  BY <1>0 DEF DeleteTarget
<1>4. /\ target'[t] = [target[t] EXCEPT !.is = "gone"]
      /\ \A x \in Target \ {t} : target'[x] = target[x]
  BY <1>1, <1>2, <1>3 DEF TypeOK
<1>5. target'[t] \in TargetRow /\ target'[t].is = "gone" /\ target'[t].access = target[t].access
  BY <1>2, <1>4 DEF TargetRow
<1>6. /\ request' \in [Request -> Requests] /\ overlapped' \subseteq Source \cup Target
      /\ overlapped \subseteq overlapped' /\ UNCHANGED <<dialogs, cached>>
      /\ \A s \in Source \cap W : s \notin overlapped' => links[s] = q.old.links[s]
  BY <1>0, <1>1, <1>3, CommitFacts
<1>7. \A s \in Source :
        /\ links[s] \in Lists /\ links'[s] \in Lists
        /\ ToSet(links'[s]) = ToSet(links[s]) \ {t}
        /\ links'[s] = Without(links[s], {t})
  BY <1>1, <1>3, WithoutFacts DEF TypeOK
<1>8. ASSUME NEW s \in Source
      PROVE  /\ source'[s] \in SourceRow
             /\ source'[s].is = source[s].is /\ source'[s].enabled = source[s].enabled
             /\ source'[s].access = source[s].access
             /\ source'[s].legacy = IF s \in Affected(q) /\ source[s].is = "row"
                                    THEN FirstOf(links'[s]) ELSE source[s].legacy
  <2>1. source[s] \in SourceRow /\ FirstOf(links'[s]) \in Target \cup {NoTarget}
    BY <1>1, <1>7, ListFacts DEF TypeOK
  <2>2. source'[s] = IF s \in Affected(q) /\ source[s].is = "row"
                     THEN [source[s] EXCEPT !.legacy = FirstOf(links'[s])] ELSE source[s]
    BY <1>3, <1>7
  <2> QED BY <2>1, <2>2 DEF SourceRow
<1>9. TypeOK'
  <2>1. target' \in [Target -> TargetRow]
    BY <1>1, <1>2, <1>3, <1>4, <1>5 DEF TypeOK
  <2>2. source' \in [Source -> SourceRow]
    BY <1>3, <1>8
  <2>3. links' \in [Source -> Lists]
    BY <1>3, <1>7
  <2>4. asked' \in [Source -> SUBSET Target]
    BY <1>1, <1>3 DEF TypeOK
  <2> QED BY <1>1, <1>3, <1>6, <2>1, <2>2, <2>3, <2>4 DEF TypeOK
<1>10. ASSUME NEW s \in Source  PROVE SourceInv(s)'
  <2>0. SourceInv(s)
    BY DEF RegistryInv
  <2>1. BoundAt(s)'
    <3>1. links'[s] # <<>> => links[s] # <<>>
      BY <1>7, ListFacts, EmptyList
    <3>2. \A x \in ToSet(links'[s]) : x \in Target \ {t} /\ x \in ToSet(links[s])
      BY <1>7, ListFacts
    <3> QED BY <1>3, <1>4, <1>8, <2>0, <3>1, <3>2 DEF SourceInv, BoundAt
  <2>2. s \notin overlapped' => AskedAt(s)' /\ GateAt(source[s])'
    BY <1>3, <1>6, <1>7, <1>8, <2>0 DEF SourceInv, AskedAt, GateAt
  <2>3. ASSUME s \notin overlapped', s \notin torn', source'[s].is = "row"
        PROVE  IF links'[s] = <<>> THEN source'[s].legacy = NoTarget
               ELSE source'[s].legacy \in ToSet(links'[s])
    <3>1. CASE s \in Affected(q)
      <4>1. /\ links'[s] = <<>> => FirstOf(links'[s]) = NoTarget
            /\ links'[s] # <<>> => FirstOf(links'[s]) \in ToSet(links'[s])
        BY <1>7, ListFacts
      <4>2. source'[s].legacy = FirstOf(links'[s])
        BY <1>8, <2>3, <3>1
      <4> QED BY <4>1, <4>2
    <3>2. CASE s \notin Affected(q)
      <4>1. t \notin ToSet(q.old.links[s])
        BY <1>0, <3>2 DEF Affected
      <4>2. t \notin ToSet(links[s])
        BY <1>0, <1>6, <2>3, <4>1
      <4>3. ToSet(links'[s]) = ToSet(links[s]) /\ (links'[s] = <<>> <=> links[s] = <<>>)
        BY <1>7, <4>2, ListFacts
      <4>4. AlignedAt(s) /\ source[s].is = "row"
        BY <1>3, <1>6, <1>8, <2>0, <2>3 DEF SourceInv
      <4> QED BY <1>8, <3>2, <4>3, <4>4 DEF AlignedAt
    <3> QED BY <3>1, <3>2
  <2> QED BY <2>1, <2>2, <2>3 DEF SourceInv, AlignedAt
<1>11. ASSUME NEW x \in Target  PROVE TargetInv(x)'
  BY <1>2, <1>4, <1>5, <1>6 DEF RegistryInv, TargetInv, GateAt
<1> QED BY <1>9, <1>10, <1>11 DEF RegistryInv

\* A wanted source that is linked already keeps its links: they are those read.
LEMMA SetTargetSourcesStep ==
  ASSUME RegistryInv, NEW r \in Request, SetTargetSources(r)
  PROVE  RegistryInv'
<1>0. PICK q, t : q = request[r] /\ t = q.t
  OBVIOUS
<1> DEFINE linked == LinkedSources(q)
           W == q.wanted \cup linked
           touched == {s \in W : source[s].is = "row"}
<1>1. TypeOK /\ q \in Binds
  BY <1>0, OperationTypes DEF RegistryInv, TypeOK, SetTargetSources
<1>2. t \in Target /\ q.old \in Snapshots /\ q.wanted \subseteq Source /\ linked \subseteq Source
  BY <1>0, <1>1 DEF Binds, LinkedSources
<1>3. PICK first \in [touched -> Target \cup {NoTarget}] :
        /\ \A s \in touched : IF links'[s] = <<>> THEN first[s] = NoTarget
                              ELSE first[s] \in ToSet(links'[s])
        /\ source' = [s \in Source |->
             IF s \in touched
             THEN [source[s] EXCEPT !.legacy =
                     IF s \in q.wanted
                     THEN Flush(first[s], q.old.source[s].legacy, source[s].legacy)
                     ELSE first[s]]
             ELSE source[s]]
  <2> DEFINE Stamped(p, S) ==
        \E first \in [S -> Target \cup {NoTarget}] :
          /\ \A s \in S : IF links'[s] = <<>> THEN first[s] = NoTarget
                          ELSE first[s] \in ToSet(links'[s])
          /\ source' = [s \in Source |->
               IF s \in S
               THEN [source[s] EXCEPT !.legacy =
                       IF s \in p.wanted
                       THEN Flush(first[s], p.old.source[s].legacy, source[s].legacy)
                       ELSE first[s]]
               ELSE source[s]]
  <2>1. Stamped(request[r], {s \in request[r].wanted \cup LinkedSources(request[r]) :
                               source[s].is = "row"})
    BY DEF SetTargetSources
  <2> HIDE DEF Stamped
  <2>2. Stamped(q, touched)
    BY <1>0, <2>1
  <2> QED BY <2>2 DEF Stamped
<1>4. /\ BindAllowed(q) /\ links' = BoundLinks(q) /\ Commit(r, W)
      /\ asked' = [s \in Source |->
           IF s \in q.wanted THEN asked[s] \cup {t}
           ELSE IF s \in linked THEN asked[s] \ {t} ELSE asked[s]]
      /\ UNCHANGED <<target, apiLinks, askedApis, torn>>
  BY <1>0 DEF SetTargetSources
<1>5. /\ request' \in [Request -> Requests] /\ overlapped' \subseteq Source \cup Target
      /\ overlapped \subseteq overlapped' /\ UNCHANGED <<dialogs, cached>>
      /\ \A s \in Source \cap W : s \notin overlapped' =>
           source[s] = q.old.source[s] /\ links[s] = q.old.links[s]
  BY <1>0, <1>1, <1>4, CommitFacts
<1>6. ASSUME NEW s \in Source
      PROVE  /\ links[s] \in Lists /\ links'[s] \in Lists
             /\ ToSet(links'[s]) = IF s \in linked \ q.wanted THEN ToSet(links[s]) \ {t}
                                   ELSE IF s \in q.wanted \ linked
                                        THEN ToSet(links[s]) \cup {t} ELSE ToSet(links[s])
  <2>1. /\ links[s] \in Lists /\ IsInjective(links'[s])
        /\ links'[s] = IF s \in linked \ q.wanted THEN Without(links[s], {t})
                       ELSE IF s \in q.wanted \ linked THEN Append(links[s], t)
                            ELSE links[s]
    BY <1>0, <1>1, <1>4 DEF BoundLinks, BindAllowed, TypeOK
  <2>2. CASE s \in linked \ q.wanted
    BY <2>1, <2>2, WithoutFacts
  <2>3. CASE s \in q.wanted \ linked
    <3>1. links[s] \in Seq(Target) /\ links'[s] = Append(links[s], t)
      BY <2>1, <2>3, ListsAre
    <3>2. links'[s] \in Seq(Target) /\ ToSet(links'[s]) = ToSet(links[s]) \cup {t}
      BY <1>2, <3>1, AppendProperties, AppendSet
    <3> QED BY <2>1, <2>3, <3>2, ListsAre
  <2>4. CASE s \notin linked \ q.wanted /\ s \notin q.wanted \ linked
    BY <2>1, <2>4
  <2> QED BY <2>2, <2>3, <2>4
<1>7. ASSUME NEW s \in Source
      PROVE  /\ source'[s] \in SourceRow
             /\ source'[s].is = source[s].is /\ source'[s].enabled = source[s].enabled
             /\ source'[s].access = source[s].access
             /\ source'[s].legacy =
                  IF s \in touched
                  THEN IF s \in q.wanted
                       THEN Flush(first[s], q.old.source[s].legacy, source[s].legacy)
                       ELSE first[s]
                  ELSE source[s].legacy
  <2>1. source[s] \in SourceRow /\ (s \in touched => first[s] \in Target \cup {NoTarget})
    BY <1>1 DEF TypeOK
  <2>2. CASE s \notin touched
    BY <1>3, <2>1, <2>2
  <2>3. CASE s \in touched
    <3> DEFINE new == IF s \in q.wanted
                      THEN Flush(first[s], q.old.source[s].legacy, source[s].legacy)
                      ELSE first[s]
    <3>1. new \in Target \cup {NoTarget}
      BY <2>1, <2>3 DEF Flush, SourceRow
    <3>2. source'[s] = [source[s] EXCEPT !.legacy = new]
      BY <1>3, <2>3
    <3> HIDE DEF new
    <3>3. /\ source'[s] \in SourceRow /\ source'[s].legacy = new
          /\ source'[s].is = source[s].is /\ source'[s].enabled = source[s].enabled
          /\ source'[s].access = source[s].access
      BY <2>1, <3>1, <3>2 DEF SourceRow
    <3> QED BY <2>3, <3>3 DEF new
  <2> QED BY <2>2, <2>3
<1>8. TypeOK'
  <2>1. source' \in [Source -> SourceRow]
    BY <1>3, <1>7
  <2>2. links' \in [Source -> Lists]
    BY <1>4, <1>6 DEF BoundLinks
  <2>3. asked' \in [Source -> SUBSET Target]
    BY <1>1, <1>2, <1>4 DEF TypeOK
  <2> QED BY <1>1, <1>4, <1>5, <2>1, <2>2, <2>3 DEF TypeOK
<1>9. ASSUME NEW s \in Source  PROVE SourceInv(s)'
  <2>0. SourceInv(s) /\ (s \in linked <=> t \in ToSet(q.old.links[s]))
    BY <1>0 DEF RegistryInv, LinkedSources
  <2>1. BoundAt(s)'
    <3>1. CASE s \in q.wanted \ linked
      <4>1. target[t].is = "row" /\ source[s].is = "row"
        BY <1>0, <1>4, <3>1 DEF BindAllowed
      <4>2. ToSet(links'[s]) = ToSet(links[s]) \cup {t}
        BY <1>6, <3>1
      <4> QED BY <1>4, <1>7, <2>0, <4>1, <4>2 DEF SourceInv, BoundAt
    <3>2. CASE s \notin q.wanted \ linked
      <4>1. ToSet(links'[s]) \subseteq ToSet(links[s])
        BY <1>6, <3>2
      <4>2. links'[s] # <<>> => links[s] # <<>>
        BY <1>6, <4>1, ListFacts, EmptyList
      <4> QED BY <1>4, <1>7, <2>0, <4>1, <4>2 DEF SourceInv, BoundAt
    <3> QED BY <3>1, <3>2
  <2>2. ASSUME s \notin overlapped'  PROVE AskedAt(s)' /\ GateAt(source[s])'
    <3>1. GateAt(source'[s])
      BY <1>5, <1>7, <2>0, <2>2 DEF SourceInv, GateAt
    <3>2. ToSet(links'[s]) = asked'[s]
      <4>1. ToSet(links[s]) = asked[s]
        BY <1>5, <2>0, <2>2 DEF SourceInv, AskedAt
      <4>2. s \in linked => t \in ToSet(links[s])
        BY <1>0, <1>5, <2>0, <2>2
      <4> QED BY <1>4, <1>6, <4>1, <4>2
    <3> QED BY <1>4, <1>5, <2>0, <2>2, <3>1, <3>2 DEF SourceInv, AskedAt
  <2>3. ASSUME s \notin overlapped', s \notin torn', source'[s].is = "row"
        PROVE  IF links'[s] = <<>> THEN source'[s].legacy = NoTarget
               ELSE source'[s].legacy \in ToSet(links'[s])
    <3>1. CASE s \in touched
      <4>1. source'[s].legacy = first[s]
        BY <1>0, <1>5, <1>7, <2>3, <3>1 DEF Flush
      <4> QED BY <1>3, <3>1, <4>1
    <3>2. CASE s \notin touched
      <4>1. s \notin W /\ source[s].is = "row"
        BY <1>0, <1>7, <2>3, <3>2
      <4>2. links'[s] = links[s]
        BY <1>0, <1>4, <4>1 DEF BoundLinks
      <4> QED BY <1>4, <1>5, <1>7, <2>0, <2>3, <3>2, <4>1, <4>2 DEF SourceInv, AlignedAt
    <3> QED BY <3>1, <3>2
  <2> QED BY <2>1, <2>2, <2>3 DEF SourceInv, AlignedAt
<1>10. ASSUME NEW x \in Target  PROVE TargetInv(x)'
  BY <1>4, <1>5 DEF RegistryInv, TargetInv, GateAt
<1> QED BY <1>8, <1>9, <1>10 DEF RegistryInv

\* What the rescan makes of a row that has not changed since it was read.
LEMMA RescannedFacts ==
  ASSUME NEW x, NEW q, NEW read, NEW row, read.access \in Access, row.access \in Access,
         read.enabled \in BOOLEAN, row.enabled \in BOOLEAN,
         \/ row \in SourceRow /\ read \in SourceRow
         \/ row \in TargetRow /\ read \in TargetRow
  PROVE  LET new == Rescanned(x, read, row, q) IN
         /\ row \in SourceRow => new \in SourceRow /\ new.legacy = row.legacy
         /\ row \in TargetRow => new \in TargetRow
         /\ new.is = row.is
         /\ read = row /\ GateAt(row) => GateAt(new)
         /\ new.access = "missing" => x \in Chats \/ row.access = "missing"
<1> DEFINE access == IF x \in Chats /\ x \notin q.listed THEN "missing"
                     ELSE IF x \in Chats \cup Source THEN "ok" ELSE read.access
           a == Flush(access, read.access, row.access)
           b == IF access = "missing" THEN Flush(FALSE, read.enabled, row.enabled)
                ELSE row.enabled
<1>1. a \in Access /\ b \in BOOLEAN
  BY DEF Flush, Access
<1>2. a = "missing" => x \in Chats \/ row.access = "missing"
  BY DEF Flush
<1>3. read = row => a = access
  BY DEF Flush
<1>4. read = row /\ access = "missing" => b = FALSE
  BY DEF Flush
<1>5. Rescanned(x, read, row, q) = [row EXCEPT !.access = a, !.enabled = b]
  BY DEF Rescanned
<1> HIDE DEF a, b
<1> DEFINE new == Rescanned(x, read, row, q)
<1>6. /\ row \in SourceRow => new \in SourceRow /\ new.legacy = row.legacy
      /\ row \in TargetRow => new \in TargetRow
      /\ new.is = row.is /\ new.access = a /\ new.enabled = b
  BY <1>1, <1>5 DEF SourceRow, TargetRow
<1> HIDE DEF new, access
<1>7. read = row /\ GateAt(row) => GateAt(new)
  BY <1>3, <1>4, <1>6 DEF GateAt
<1> QED BY <1>2, <1>6, <1>7 DEF new

LEMMA RefreshChannelsStep ==
  ASSUME RegistryInv, NEW r \in Request, RefreshChannels(r)
  PROVE  RegistryInv'
<1>0. PICK q : q = request[r]
  OBVIOUS
<1>1. TypeOK /\ q \in Refreshes
  BY <1>0, OperationTypes DEF RegistryInv, TypeOK, RefreshChannels
<1>2. /\ source' = [s \in Source |-> IF s \in Changed(q)
                                     THEN Rescanned(s, q.old.source[s], source[s], q)
                                     ELSE source[s]]
      /\ target' = [t \in Target |-> IF t \in Changed(q)
                                     THEN Rescanned(t, q.old.target[t], target[t], q)
                                     ELSE target[t]]
      /\ Commit(r, Changed(q))
      /\ UNCHANGED <<links, apiLinks, asked, askedApis, torn>>
  BY <1>0 DEF RefreshChannels
<1>3. /\ request' \in [Request -> Requests] /\ overlapped' \subseteq Source \cup Target
      /\ overlapped \subseteq overlapped' /\ UNCHANGED <<dialogs, cached>>
      /\ \A s \in Source \cap Changed(q) : s \notin overlapped' =>
           source[s] = q.old.source[s]
      /\ \A t \in Target \cap Changed(q) : t \notin overlapped' =>
           target[t] = q.old.target[t]
  BY <1>0, <1>1, <1>2, CommitFacts
<1>4. ASSUME NEW s \in Source
      PROVE  /\ source'[s] \in SourceRow /\ source'[s].legacy = source[s].legacy
             /\ source'[s].is = source[s].is
             /\ s \notin overlapped' /\ GateAt(source[s]) => GateAt(source'[s])
  <2>1. source[s] \in SourceRow /\ q.old.source[s] \in SourceRow
    BY <1>1 DEF TypeOK, Refreshes, Snapshots
  <2>2. CASE s \in Changed(q)
    <3>1. source'[s] = Rescanned(s, q.old.source[s], source[s], q)
      BY <1>2, <2>2
    <3>2. /\ source[s].access \in Access /\ source[s].enabled \in BOOLEAN
          /\ q.old.source[s].access \in Access /\ q.old.source[s].enabled \in BOOLEAN
      BY <2>1 DEF SourceRow
    <3> QED BY <1>3, <2>1, <2>2, <3>1, <3>2, RescannedFacts
  <2>3. CASE s \notin Changed(q)
    BY <1>2, <2>1, <2>3
  <2> QED BY <2>2, <2>3
<1>5. ASSUME NEW t \in Target
      PROVE  /\ target'[t] \in TargetRow /\ target'[t].is = target[t].is
             /\ t \notin overlapped' /\ GateAt(target[t]) => GateAt(target'[t])
             /\ target'[t].access = "missing" => t \in TgTarget
  <2>1. target[t] \in TargetRow /\ q.old.target[t] \in TargetRow /\ TargetInv(t)
    BY <1>1 DEF RegistryInv, TypeOK, Refreshes, Snapshots
  <2>2. CASE t \in Changed(q)
    <3>1. target'[t] = Rescanned(t, q.old.target[t], target[t], q)
      BY <1>2, <2>2
    <3>2. /\ target[t].access \in Access /\ target[t].enabled \in BOOLEAN
          /\ q.old.target[t].access \in Access /\ q.old.target[t].enabled \in BOOLEAN
      BY <2>1 DEF TargetRow
    <3>3. t \in Chats => t \in TgTarget
      BY RegistryAssumption DEF Chats
    <3> QED BY <1>3, <2>1, <2>2, <3>1, <3>2, <3>3, RescannedFacts DEF TargetInv
  <2>3. CASE t \notin Changed(q)
    BY <1>2, <2>1, <2>3 DEF TargetInv
  <2> QED BY <2>2, <2>3
<1>6. TypeOK'
  <2>1. source' \in [Source -> SourceRow]
    BY <1>2, <1>4
  <2>2. target' \in [Target -> TargetRow]
    BY <1>2, <1>5
  <2> QED BY <1>1, <1>2, <1>3, <2>1, <2>2 DEF TypeOK
<1>7. ASSUME NEW s \in Source  PROVE SourceInv(s)'
  <2>1. SourceInv(s) /\ ToSet(links[s]) \subseteq Target
    BY <1>1, ListFacts DEF RegistryInv, TypeOK
  <2>2. BoundAt(s)'
    BY <1>2, <1>4, <1>5, <2>1 DEF SourceInv, BoundAt
  <2>3. s \notin overlapped' => AskedAt(s)' /\ GateAt(source[s])'
    BY <1>2, <1>3, <1>4, <2>1 DEF SourceInv, AskedAt
  <2>4. s \notin overlapped' \cup torn' => AlignedAt(s)'
    BY <1>2, <1>3, <1>4, <2>1 DEF SourceInv, AlignedAt
  <2> QED BY <2>2, <2>3, <2>4 DEF SourceInv
<1>8. ASSUME NEW t \in Target  PROVE TargetInv(t)'
  BY <1>3, <1>5 DEF RegistryInv, TargetInv
<1> QED BY <1>6, <1>7, <1>8 DEF RegistryInv

-----------------------------------------------------------------------------
(* The theorems.                                                           *)

LEMMA RegistryInit == Init => RegistryInv
<1> SUFFICES ASSUME Init  PROVE RegistryInv
  OBVIOUS
<1>1. PICK registered \in Registrations : Registers(registered)
  BY DEF Init
<1>2. /\ source \in [Source -> SourceRow] /\ links \in [Source -> Lists]
      /\ target = [t \in Target |-> [is |-> IF t \in registered THEN "row" ELSE "unused",
                                     enabled |-> TRUE, access |-> "unknown",
                                     permission |-> "unknown"]]
      /\ apiLinks = [s \in Source |-> {}] /\ askedApis = [s \in Source |-> {}]
      /\ asked = [s \in Source |-> ToSet(links[s])]
      /\ dialogs = Chats /\ cached = {} /\ overlapped = {} /\ torn = {}
      /\ request = [r \in Request |-> Idle]
  BY <1>1 DEF Init, Registers
<1>3. ASSUME NEW s \in Source
      PROVE  /\ source[s].is = IF s \in registered THEN "row" ELSE "unused"
             /\ source[s].legacy = FirstOf(links[s]) /\ source[s].access # "missing"
             /\ ToSet(links[s]) \subseteq registered
             /\ s \notin registered => links[s] = <<>>
  <2>1. source[s] = [is |-> IF s \in registered THEN "row" ELSE "unused",
                     enabled |-> source[s].enabled, legacy |-> FirstOf(links[s]),
                     access |-> IF s \in TgSource THEN "unknown" ELSE "ok"]
        /\ ToSet(links[s]) \subseteq registered
        /\ (s \notin registered => links[s] = <<>>)
    BY <1>1 DEF Registers
  <2>2. \A e : LET row == [is |-> IF s \in registered THEN "row" ELSE "unused",
                           enabled |-> e, legacy |-> FirstOf(links[s]),
                           access |-> IF s \in TgSource THEN "unknown" ELSE "ok"]
               IN /\ row.is = IF s \in registered THEN "row" ELSE "unused"
                  /\ row.legacy = FirstOf(links[s]) /\ row.access # "missing"
    OBVIOUS
  <2> QED BY <2>1, <2>2, Zenon
<1>4. ASSUME NEW t \in Target
      PROVE  /\ target[t] \in TargetRow /\ target[t].access = "unknown"
             /\ t \in registered => target[t].is = "row"
  BY <1>2 DEF TargetRow, Access
<1>5. TypeOK
  <2>1. target \in [Target -> TargetRow] /\ Idle \in Requests
    BY <1>2, <1>4 DEF Idle, Requests
  <2>2. asked \in [Source -> SUBSET Target]
    BY <1>2, ListFacts
  <2> QED BY <1>2, <2>1, <2>2 DEF TypeOK
<1>6. ASSUME NEW s \in Source  PROVE SourceInv(s)
  <2>0. links[s] \in Lists /\ ToSet(links[s]) \subseteq Target
    BY <1>2, ListFacts
  <2>1. BoundAt(s)
    BY <1>2, <1>3, <1>4, <2>0 DEF BoundAt
  <2>2. AskedAt(s) /\ GateAt(source[s])
    BY <1>2, <1>3 DEF AskedAt, GateAt
  <2>3. AlignedAt(s)
    BY <1>3, <2>0, ListFacts DEF AlignedAt
  <2> QED BY <2>1, <2>2, <2>3 DEF SourceInv
<1>7. ASSUME NEW t \in Target  PROVE TargetInv(t)
  BY <1>4 DEF TargetInv, GateAt
<1> QED BY <1>5, <1>6, <1>7 DEF RegistryInv

LEMMA HandleStep ==
  ASSUME RegistryInv, NEW r \in Request, Handle(r)
  PROVE  RegistryInv'
<1>1. CASE AddFromAccount(r)
  <2>1. <<>> \in Lists /\ TgSource \subseteq Source /\ TgTarget \subseteq Target
        /\ \A x : (x \in dialogs) \in BOOLEAN
    BY EmptyList, RegistryAssumption
  <2> QED BY <1>1, <2>1, CreateSourceStep, CreateTargetStep DEF AddFromAccount
<1>2. CASE CreateChannel(r) \/ DeleteChannel(r) \/ AddTarget(r)
  BY <1>2, CreateSourceStep, DeleteSourceStep, CreateTargetStep
     DEF CreateChannel, DeleteChannel, AddTarget
<1>3. CASE CreateSourceLinks(r) \/ Aborts(r)
  BY <1>3, QuietActions
<1>4. CASE PatchChannel(r)
  BY <1>4, BeginsStep, UpdateSourceStep DEF PatchChannel
<1>5. CASE PutChannelTargets(r) \/ PutChannelApiEndpoints(r) \/ PutChannelDestinations(r)
  BY <1>5, BeginsStep DEF PutChannelTargets, PutChannelApiEndpoints
<1>6. CASE Replace(r)
  BY <1>6, ReplaceStep
<1>7. CASE PatchTargetRow(r)
  BY <1>7, BeginsStep, UpdateTargetStep DEF PatchTargetRow
<1>8. CASE PutTargetSources(r)
  BY <1>8, BeginsStep, SetTargetSourcesStep DEF PutTargetSources
<1>9. CASE RemoveTarget(r)
  BY <1>9, BeginsStep, DeleteTargetStep DEF RemoveTarget
<1>10. CASE Refresh(r)
  BY <1>10, BeginsStep, QuietActions, RefreshChannelsStep DEF Refresh
<1>11. CASE CheckTarget(r)
  BY <1>11, BeginsStep, RecordPermissionStep DEF CheckTarget
<1> QED BY <1>1, <1>2, <1>3, <1>4, <1>5, <1>6, <1>7, <1>8, <1>9, <1>10, <1>11 DEF Handle

LEMMA RegistryStep == RegistryInv /\ [Next]_vars => RegistryInv'
<1> SUFFICES ASSUME RegistryInv, [Next]_vars  PROVE RegistryInv'
  OBVIOUS
<1>1. CASE Next
  BY <1>1, HandleStep, RegisterConversationStep, QuietActions DEF Next
<1>2. CASE UNCHANGED vars
  BY <1>2, QuietStep DEF vars, RegistryInv, TypeOK
<1> QED BY <1>1, <1>2

LEMMA RegistryInvHolds == Spec => []RegistryInv
  BY RegistryInit, RegistryStep, PTL DEF Spec

\* Every row, snapshot and list of links is a legal one, and no binding names a row
\* that is gone, whatever create, patch, replace, bind, delete and rescan do to the
\* same rows at the same time: channel_service.py with its foreign keys.
THEOREM RegistryWellFormed == Spec => []WellFormed
  BY RegistryInvHolds, RegistryInvShows, PTL

\* A source that no two operations overlapped on has exactly the destinations that
\* the operators asked for last, from its side or from a target's.
THEOREM DestinationsAsAsked == Spec => []ExactlyWhatWasAsked
  BY RegistryInvHolds, RegistryInvShows, PTL

\* A row recorded as missing is disabled, through creations, patches and rescans, as
\* long as no two operations overlapped on it.
THEOREM MissingIsDisabled == Spec => []AccessGate
  BY RegistryInvHolds, RegistryInvShows, PTL

\* The legacy target_channel_id names one of the links, and nothing without links,
\* except inside create_source and after overlapping operations.
THEOREM LegacyNamesALink == Spec => []LegacyAligned
  BY RegistryInvHolds, RegistryInvShows, PTL
=============================================================================
