------------------------------ MODULE RuleBookProofs ------------------------------
(***************************************************************************)
(* Proofs about RuleBook: for any rules, groups, messages, seed file and   *)
(* number of operators and workers.                                        *)
(***************************************************************************)
EXTENDS RuleBook, SequenceTheorems, FiniteSetTheorems, WellFoundedInduction, TLAPS

-----------------------------------------------------------------------------
(* Recursion over the positions of a list.                                 *)

\* A set of numbers that is closed under the successor has every number: one it
\* does not have would have a least one, and that one a predecessor.
LEMMA Induction ==
  ASSUME NEW S \in SUBSET Nat, 0 \in S, \A n \in S : n + 1 \in S
  PROVE  S = Nat
<1> SUFFICES ASSUME Nat \ S # {}  PROVE FALSE
  OBVIOUS
<1>1. PICK n \in Nat \ S : \A m \in Nat \ S : ~(<<m, n>> \in OpToRel(<, Nat))
  <2> DEFINE T == Nat \ S
  <2>1. T \subseteq Nat /\ T # {}
    OBVIOUS
  <2> HIDE DEF T
  <2>2. \E n \in T : \A m \in T : ~(<<m, n>> \in OpToRel(<, Nat))
    BY <2>1, NatLessThanWellFounded, WFMin
  <2> QED BY <2>2 DEF T
<1>2. n # 0 /\ n - 1 \in Nat /\ n - 1 < n /\ (n - 1) + 1 = n
  OBVIOUS
<1>3. n - 1 \in S
  BY <1>1, <1>2 DEF OpToRel
<1> QED BY <1>1, <1>2, <1>3

\* What each step of a recursive function keeps holds at every position.
LEMMA UpTo ==
  ASSUME NEW m \in Nat, NEW D, NEW f, f[0] \in D[0],
         \A n \in 1..m : f[n - 1] \in D[n - 1] => f[n] \in D[n]
  PROVE  \A n \in 0..m : f[n] \in D[n]
<1> DEFINE S == {n \in Nat : n <= m => f[n] \in D[n]}
<1>1. 0 \in S
  OBVIOUS
<1>2. ASSUME NEW n \in S  PROVE n + 1 \in S
  <2>1. n \in Nat /\ (n <= m => f[n] \in D[n])
    BY <1>2
  <2>2. CASE n + 1 <= m
    <3>1. n + 1 \in 1..m /\ (n + 1) - 1 = n /\ n <= m
      BY <2>1, <2>2
    <3>2. f[n + 1] \in D[n + 1]
      BY <2>1, <3>1
    <3> QED BY <2>1, <3>2
  <2>3. CASE ~(n + 1 <= m)
    BY <2>1, <2>3
  <2> QED BY <2>2, <2>3
<1>3. S \subseteq Nat
  OBVIOUS
<1> HIDE DEF S
<1>4. S = Nat
  BY <1>1, <1>2, <1>3, Induction
<1>5. \A n \in 0..m : n \in Nat /\ n <= m
  OBVIOUS
<1> QED BY <1>4, <1>5 DEF S

\* A recursive function whose steps stay in a set exists.
Runs(f, a, step, m) == f[0] = a /\ \A n \in 1..m : f[n] = step[f[n - 1], n]

LEMMA Recursion ==
  ASSUME NEW m \in Nat, NEW D, NEW a \in D, NEW step \in [D \X (1..m) -> D]
  PROVE  \E f \in [0..m -> D] : Runs(f, a, step, m)
<1> DEFINE S == {k \in Nat : k <= m => \E f \in [0..k -> D] : Runs(f, a, step, k)}
<1>1. 0 \in S
  <2> DEFINE f == [n \in 0..0 |-> a]
  <2>1. f \in [0..0 -> D] /\ Runs(f, a, step, 0)
    BY DEF Runs
  <2> HIDE DEF f
  <2> QED BY <2>1
<1> HIDE DEF S
<1>2. ASSUME NEW k \in S  PROVE k + 1 \in S
  <2>1. k \in Nat /\ (k <= m => \E f \in [0..k -> D] : Runs(f, a, step, k))
    BY DEF S
  <2>2. CASE k + 1 <= m
    <3>1. PICK f \in [0..k -> D] : Runs(f, a, step, k)
      BY <2>1, <2>2
    <3> DEFINE g == [n \in 0..(k + 1) |-> IF n = k + 1 THEN step[f[k], k + 1] ELSE f[n]]
    <3>2. k \in 0..k /\ k + 1 \in 1..m /\ (k + 1) - 1 = k /\ k + 1 \in 0..(k + 1)
      BY <2>1, <2>2
    <3>3. step[f[k], k + 1] \in D
      BY <3>2
    <3>4. \A n \in 0..k : n # k + 1 /\ n \in 0..(k + 1)
      BY <2>1
    <3>5. \A n \in 0..(k + 1) : n = k + 1 \/ n \in 0..k
      BY <2>1
    <3>6. g \in [0..(k + 1) -> D]
      BY <3>3, <3>5
    <3>7. g[k + 1] = step[f[k], k + 1] /\ \A n \in 0..k : g[n] = f[n]
      BY <3>2, <3>4
    <3> HIDE DEF g
    <3>8. ASSUME NEW n \in 1..(k + 1)  PROVE g[n] = step[g[n - 1], n]
      <4>1. n = k + 1 \/ (n \in 1..k /\ n \in 0..k /\ n - 1 \in 0..k)
        BY <2>1
      <4>2. CASE n = k + 1
        BY <3>2, <3>7, <4>2
      <4>3. CASE n \in 1..k /\ n \in 0..k /\ n - 1 \in 0..k
        BY <3>1, <3>7, <4>3 DEF Runs
      <4> QED BY <4>1, <4>2, <4>3
    <3>9. Runs(g, a, step, k + 1)
      <4>1. 0 \in 0..k
        BY <2>1
      <4> QED BY <3>1, <3>7, <3>8, <4>1 DEF Runs
    <3> QED BY <2>1, <3>6, <3>9 DEF S
  <2>3. CASE ~(k + 1 <= m)
    BY <2>1, <2>3 DEF S
  <2> QED BY <2>2, <2>3
<1>3. S \subseteq Nat
  BY DEF S
<1>4. m \in S
  BY <1>1, <1>2, <1>3, Induction
<1> QED BY <1>4 DEF S

-----------------------------------------------------------------------------
(* Texts, and what the processors make of them.                            *)

LEMMA AppendFacts ==
  ASSUME NEW T, NEW l \in Seq(T), NEW e \in T
  PROVE  /\ Append(l, e) \in Seq(T) /\ Len(Append(l, e)) = Len(l) + 1
         /\ DOMAIN Append(l, e) = 1..(Len(l) + 1)
         /\ Append(l, e)[Len(l) + 1] = e
         /\ \A k \in 1..Len(l) : Append(l, e)[k] = l[k]
<1>1. /\ Append(l, e) \in Seq(T) /\ Len(Append(l, e)) = Len(l) + 1
      /\ Append(l, e)[Len(l) + 1] = e
      /\ \A k \in 1..Len(l) : Append(l, e)[k] = l[k]
  BY AppendProperties
<1>2. DOMAIN Append(l, e) = 1..Len(Append(l, e))
  BY <1>1, LenProperties
<1> QED BY <1>1, <1>2

\* The recursive function that Picked defines.
Picks(picked, seq, I) ==
  picked = [n \in 0..Len(seq) |->
              IF n = 0 THEN <<>>
              ELSE IF n \in I THEN Append(picked[n - 1], seq[n]) ELSE picked[n - 1]]

LEMMA PicksExists ==
  ASSUME NEW T, NEW seq \in Seq(T), NEW I
  PROVE  \E picked : Picks(picked, seq, I)
<1> DEFINE m == Len(seq)
           D == Seq(T)
           step == [x \in D \X (1..m) |->
                      IF x[2] \in I THEN Append(x[1], seq[x[2]]) ELSE x[1]]
<1>1. m \in Nat /\ <<>> \in D /\ \A n \in 1..m : seq[n] \in T
  OBVIOUS
<1>2. \A l \in D, n \in 1..m :
        step[l, n] = IF n \in I THEN Append(l, seq[n]) ELSE l
  OBVIOUS
<1>3. step \in [D \X (1..m) -> D]
  <2>1. \A l \in D, n \in 1..m : (IF n \in I THEN Append(l, seq[n]) ELSE l) \in D
    BY <1>1
  <2> QED BY <2>1
<1> HIDE DEF m, D, step
<1>4. PICK f \in [0..m -> D] : Runs(f, <<>>, step, m)
  BY <1>1, <1>3, Recursion
<1>5. \A n \in 0..m : n = 0 \/ (n \in 1..m /\ n - 1 \in 0..m)
  BY <1>1
<1>6. ASSUME NEW n \in 0..m
      PROVE  f[n] = IF n = 0 THEN <<>>
                    ELSE IF n \in I THEN Append(f[n - 1], seq[n]) ELSE f[n - 1]
  <2>1. CASE n = 0
    BY <1>4, <2>1 DEF Runs
  <2>2. CASE n # 0
    <3>1. n \in 1..m /\ f[n - 1] \in D
      BY <1>5, <2>2
    <3>2. f[n] = step[f[n - 1], n]
      BY <1>4, <3>1 DEF Runs
    <3> QED BY <1>2, <2>2, <3>1, <3>2
  <2> QED BY <2>1, <2>2
<1>7. f = [n \in 0..m |-> f[n]]
  OBVIOUS
<1>8. f = [n \in 0..m |-> IF n = 0 THEN <<>>
                          ELSE IF n \in I THEN Append(f[n - 1], seq[n]) ELSE f[n - 1]]
  BY <1>6, <1>7, Zenon
<1> QED BY <1>8 DEF Picks, m

\* Picked returns what is at the positions of I, all of it and nothing else.
LEMMA PickedFacts ==
  ASSUME NEW T, NEW seq \in Seq(T), NEW I
  PROVE  /\ Picked(seq, I) \in Seq(T)
         /\ Len(Picked(seq, I)) = Cardinality(I \cap DOMAIN seq)
         /\ \A k \in DOMAIN Picked(seq, I) :
              \E i \in I \cap DOMAIN seq : Picked(seq, I)[k] = seq[i]
<1> DEFINE f == CHOOSE picked : Picks(picked, seq, I)
           m == Len(seq)
           Of(l, n) == \A k \in DOMAIN l : \E i \in I \cap (1..n) : l[k] = seq[i]
           D == [n \in 0..m |-> {l \in Seq(T) : /\ Len(l) = Cardinality(I \cap (1..n))
                                                /\ Of(l, n)}]
<1>0. \E picked : Picks(picked, seq, I)
  BY PicksExists
<1>1. Picks(f, seq, I) /\ Picked(seq, I) = f[m]
  BY <1>0, Zenon DEF Picked, Picks
<1>2. m \in Nat /\ DOMAIN seq = 1..m /\ m \in 0..m /\ 0 \in 0..m
  OBVIOUS
<1> HIDE DEF f, m
<1>3. /\ f[0] = <<>>
      /\ \A n \in 1..m : f[n] = IF n \in I THEN Append(f[n - 1], seq[n]) ELSE f[n - 1]
  <2>1. \A n \in 1..m : n \in 0..m /\ n # 0
    BY <1>2
  <2> QED BY <1>1, <1>2, <2>1 DEF Picks, m
<1>4. f[0] \in D[0]
  <2>1. I \cap (1..0) = {} /\ Cardinality({}) = 0
    BY FS_EmptySet
  <2>2. <<>> \in Seq(T) /\ Len(<<>>) = 0 /\ Of(<<>>, 0)
    OBVIOUS
  <2> HIDE DEF Of
  <2> QED BY <1>2, <1>3, <2>1, <2>2
<1>5. ASSUME NEW n \in 1..m, f[n - 1] \in D[n - 1]  PROVE f[n] \in D[n]
  <2>1. n - 1 \in 0..m /\ n \in 0..m /\ n \in Nat /\ n - 1 \in Nat
    BY <1>2
  <2>2. /\ f[n - 1] \in Seq(T) /\ Len(f[n - 1]) = Cardinality(I \cap (1..(n - 1)))
        /\ Of(f[n - 1], n - 1)
    BY <1>5, <2>1
  <2>3. 1..n = (1..(n - 1)) \cup {n} /\ n \notin 1..(n - 1)
    BY <2>1
  <2>4. CASE n \in I
    <3>1. PICK l \in Seq(T) : l = f[n - 1]
      BY <2>2
    <3>2. PICK next : next = Append(l, seq[n]) /\ next = f[n]
      BY <1>3, <2>4, <3>1
    <3>3. seq[n] \in T
      BY <1>2
    <3>4. /\ next \in Seq(T) /\ Len(next) = Len(l) + 1 /\ DOMAIN next = 1..(Len(l) + 1)
          /\ next[Len(l) + 1] = seq[n] /\ \A k \in 1..Len(l) : next[k] = l[k]
      <4>1. PICK e \in T : e = seq[n]
        BY <3>3
      <4>2. /\ Append(l, e) \in Seq(T) /\ Len(Append(l, e)) = Len(l) + 1
            /\ DOMAIN Append(l, e) = 1..(Len(l) + 1) /\ Append(l, e)[Len(l) + 1] = e
            /\ \A k \in 1..Len(l) : Append(l, e)[k] = l[k]
        BY AppendFacts, <3>1, <4>1, SMT
      <4>3. next = Append(l, e)
        BY <3>2, <4>1
      <4> QED BY <4>1, <4>2, <4>3, Zenon
    <3>5. IsFiniteSet(I \cap (1..(n - 1)))
      <4>1. IsFiniteSet(1..(n - 1))
        BY <2>1, FS_Interval
      <4> QED BY <4>1, FS_Subset
    <3>6. Cardinality(I \cap (1..n)) = Cardinality(I \cap (1..(n - 1))) + 1
      <4>1. I \cap (1..n) = (I \cap (1..(n - 1))) \cup {n} /\ n \notin I \cap (1..(n - 1))
        BY <2>3, <2>4
      <4> QED BY <3>5, <4>1, FS_AddElement
    <3>7. Of(next, n)
      <4>1. ASSUME NEW k \in DOMAIN next
            PROVE  \E i \in I \cap (1..n) : next[k] = seq[i]
        <5>1. Len(l) \in Nat /\ DOMAIN l = 1..Len(l)
          BY <3>1
        <5>2. k = Len(l) + 1 \/ k \in 1..Len(l)
          BY <3>4, <5>1
        <5>3. CASE k = Len(l) + 1
          BY <2>3, <2>4, <3>4, <5>3
        <5>4. CASE k \in 1..Len(l)
          <6>1. PICK i \in I \cap (1..(n - 1)) : l[k] = seq[i]
            BY <2>2, <3>1, <5>1, <5>4
          <6> QED BY <2>3, <3>4, <5>4, <6>1
        <5> QED BY <5>2, <5>3, <5>4
      <4> QED BY <4>1
    <3> HIDE DEF Of
    <3> QED BY <2>1, <2>2, <3>1, <3>2, <3>4, <3>6, <3>7
  <2>5. CASE n \notin I
    <3>1. f[n] = f[n - 1]
      BY <1>3, <2>5
    <3>2. I \cap (1..n) = I \cap (1..(n - 1))
      BY <2>3, <2>5
    <3>3. Of(f[n], n)
      BY <2>2, <3>1, <3>2
    <3> HIDE DEF Of
    <3> QED BY <2>1, <2>2, <3>1, <3>2, <3>3
  <2> QED BY <2>4, <2>5
<1>6. f[m] \in D[m]
  <2> HIDE DEF D
  <2>1. \A n \in 0..m : f[n] \in D[n]
    BY <1>2, <1>4, <1>5, UpTo
  <2> QED BY <1>2, <2>1
<1> QED BY <1>1, <1>2, <1>6

\* A hit begins in front of its end, or is one on media: at the start of the text.
Hit == {h \in [start : Int, end : Nat \ {0}] : h.start < h.end \/ h.start = 1}

\* The recursive function that Hits defines.
Scans(upto, text, needle) ==
  LET n == Len(needle) IN
  upto = [i \in 0..Len(text) |->
            IF i = 0 THEN [hits |-> <<>>, next |-> 1]
            ELSE LET found == upto[i - 1] IN
                 IF \/ i < found.next \/ i + n > Len(text) + 1
                    \/ SubSeq(text, i, i + n - 1) # needle
                 THEN found
                 ELSE [hits |-> Append(found.hits, [start |-> i, end |-> i + n]),
                       next |-> i + n]]

\* One position of that search.
Scanned(text, needle, found, i) ==
  LET n == Len(needle) IN
  IF \/ i < found.next \/ i + n > Len(text) + 1
     \/ SubSeq(text, i, i + n - 1) # needle
  THEN found
  ELSE [hits |-> Append(found.hits, [start |-> i, end |-> i + n]), next |-> i + n]

LEMMA ScannedType ==
  ASSUME NEW text, NEW needle, Len(needle) \in Nat \ {0},
         NEW found \in [hits : Seq(Hit), next : Nat], NEW i \in Nat \ {0}
  PROVE  Scanned(text, needle, found, i) \in [hits : Seq(Hit), next : Nat]
<1>1. PICK n \in Nat \ {0} : n = Len(needle)
  OBVIOUS
<1>2. [start |-> i, end |-> i + n] \in Hit /\ i + n \in Nat
  BY <1>1 DEF Hit
<1>3. Append(found.hits, [start |-> i, end |-> i + n]) \in Seq(Hit)
  BY <1>2, AppendProperties
<1>4. Scanned(text, needle, found, i)
        \in {found, [hits |-> Append(found.hits, [start |-> i, end |-> i + n]), next |-> i + n]}
  BY <1>1 DEF Scanned
<1>5. \A hits \in Seq(Hit), next \in Nat :
        [hits |-> hits, next |-> next] \in [hits : Seq(Hit), next : Nat]
  OBVIOUS
<1> QED BY <1>2, <1>3, <1>4, <1>5

\* The search of Hits, position by position.
Search(upto, text, needle) ==
  /\ upto[0] = [hits |-> <<>>, next |-> 1]
  /\ \A i \in 1..Len(text) : upto[i] = Scanned(text, needle, upto[i - 1], i)

LEMMA HitsSearch ==
  ASSUME NEW text, Len(text) \in Nat, NEW needle, Len(needle) \in Nat \ {0}
  PROVE  \E upto : Search(upto, text, needle) /\ Hits(text, needle) = upto[Len(text)].hits
<1> DEFINE m == Len(text)
           T == [hits : Seq(Hit), next : Nat]
           none == [hits |-> <<>>, next |-> 1]
           step == [x \in T \X (1..m) |-> Scanned(text, needle, x[1], x[2])]
<1>1. none \in T /\ m \in Nat /\ \A i \in 1..m : i \in Nat \ {0}
  OBVIOUS
<1>2. \A found \in T, i \in 1..m : Scanned(text, needle, found, i) \in T
  BY <1>1, ScannedType
<1>3. step \in [T \X (1..m) -> T]
  BY <1>2
<1>4. \A found \in T, i \in 1..m : step[found, i] = Scanned(text, needle, found, i)
  OBVIOUS
<1> HIDE DEF m, T, none, step
<1>5. \E upto : upto = [i \in 0..m |-> IF i = 0 THEN none ELSE Scanned(text, needle, upto[i - 1], i)]
  <2>1. PICK f \in [0..m -> T] : Runs(f, none, step, m)
    BY <1>1, <1>3, Recursion
  <2>2. \A n \in 0..m : n = 0 \/ (n \in 1..m /\ n - 1 \in 0..m)
    BY <1>1
  <2>3. \A n \in 0..m : f[n] = IF n = 0 THEN none ELSE Scanned(text, needle, f[n - 1], n)
    BY <1>4, <2>1, <2>2 DEF Runs
  <2>4. f = [n \in 0..m |-> IF n = 0 THEN none ELSE Scanned(text, needle, f[n - 1], n)]
    BY <2>3
  <2> QED BY <2>4
<1>6. PICK upto : /\ upto = [i \in 0..m |-> IF i = 0 THEN none
                                            ELSE Scanned(text, needle, upto[i - 1], i)]
                  /\ Hits(text, needle) = upto[m].hits
  <2> DEFINE f == CHOOSE f : Scans(f, text, needle)
  <2>1. \E f_1 : Scans(f_1, text, needle)
    BY <1>5, Zenon DEF Scans, Scanned, m, none
  <2>2. Scans(f, text, needle) /\ Hits(text, needle) = f[m].hits
    BY <2>1, Zenon DEF Hits, Scans, m
  <2>3. f = [i \in 0..m |-> IF i = 0 THEN none ELSE Scanned(text, needle, f[i - 1], i)]
    BY <2>2, Zenon DEF Scans, Scanned, m, none
  <2> HIDE DEF f
  <2> QED BY <2>2, <2>3
<1>7. upto[0] = none /\ \A i \in 1..m : upto[i] = Scanned(text, needle, upto[i - 1], i)
  <2>1. 0 \in 0..m /\ \A i \in 1..m : i \in 0..m /\ i # 0
    BY <1>1
  <2> QED BY <1>6, <2>1
<1> QED BY <1>6, <1>7 DEF m, none, Search

LEMMA HitsType ==
  ASSUME NEW text, Len(text) \in Nat, NEW needle, Len(needle) \in Nat \ {0}
  PROVE  Hits(text, needle) \in Seq(Hit)
<1>1. PICK upto : Search(upto, text, needle) /\ Hits(text, needle) = upto[Len(text)].hits
  BY HitsSearch
<1>2. PICK m \in Nat : m = Len(text)
  OBVIOUS
<1> DEFINE T == [hits : Seq(Hit), next : Nat]
           D == [i \in 0..m |-> T]
<1>3. /\ 0 \in 0..m /\ m \in 0..m
      /\ \A i \in 1..m : i \in 0..m /\ i - 1 \in 0..m /\ i \in Nat \ {0}
  BY <1>2
<1>4. upto[0] \in D[0]
  BY <1>1, <1>3 DEF Search
<1>5. ASSUME NEW i \in 1..m, upto[i - 1] \in D[i - 1]  PROVE upto[i] \in D[i]
  <2>1. upto[i - 1] \in T /\ i \in Nat \ {0}
    BY <1>3, <1>5
  <2>2. Scanned(text, needle, upto[i - 1], i) \in T
    BY <2>1, ScannedType
  <2> QED BY <1>1, <1>2, <1>3, <2>2 DEF Search
<1>6. upto[m] \in T
  <2> HIDE DEF D
  <2>1. \A i \in 0..m : upto[i] \in D[i]
    BY <1>2, <1>4, <1>5, UpTo
  <2> QED BY <1>3, <2>1 DEF D
<1> QED BY <1>1, <1>2, <1>6

\* Needle stands at position i of text.
StandsAt(text, needle, i) ==
  /\ 1 <= i
  /\ i + Len(needle) <= Len(text) + 1 /\ SubSeq(text, i, i + Len(needle) - 1) = needle

\* The hit at position k of a list reaches over position i.
Reaches(hits, k, i) == hits[k].start <= i /\ i < hits[k].end

\* What the search has found up to position i: every hit is an occurrence, none begins before
\* the one in front of it ends, and where needle stands up to here, a hit reaches.
FoundUpTo(found, text, needle, i) ==
  /\ found.hits = <<>> => found.next = 1
  /\ found.hits # <<>> => /\ found.hits[Len(found.hits)].end = found.next
                          /\ found.hits[Len(found.hits)].start <= i
  /\ \A k \in DOMAIN found.hits : /\ StandsAt(text, needle, found.hits[k].start)
                                  /\ found.hits[k].end = found.hits[k].start + Len(needle)
  /\ \A k \in 2..Len(found.hits) : found.hits[k - 1].end <= found.hits[k].start
  /\ \A j \in 1..i : StandsAt(text, needle, j)
                       => \E k \in DOMAIN found.hits : Reaches(found.hits, k, j)

LEMMA ScannedFinds ==
  ASSUME NEW text, Len(text) \in Nat, NEW needle, Len(needle) \in Nat \ {0},
         NEW found \in [hits : Seq(Hit), next : Nat], NEW i \in Nat \ {0},
         FoundUpTo(found, text, needle, i - 1)
  PROVE  FoundUpTo(Scanned(text, needle, found, i), text, needle, i)
<1>1. PICK n \in Nat \ {0} : n = Len(needle)
  OBVIOUS
<1>2. PICK hits \in Seq(Hit), next \in Nat : found = [hits |-> hits, next |-> next]
  OBVIOUS
<1>3. /\ Len(hits) \in Nat /\ DOMAIN hits = 1..Len(hits)
      /\ \A k \in 1..Len(hits) : hits[k] \in Hit /\ hits[k].start \in Int /\ hits[k].end \in Int
  BY <1>2 DEF Hit
<1>4. /\ hits = <<>> => next = 1
      /\ hits # <<>> => hits[Len(hits)].end = next /\ hits[Len(hits)].start <= i - 1
      /\ \A k \in 1..Len(hits) : /\ StandsAt(text, needle, hits[k].start)
                                 /\ hits[k].end = hits[k].start + n
      /\ \A k \in 2..Len(hits) : hits[k - 1].end <= hits[k].start
      /\ \A j \in 1..(i - 1) : StandsAt(text, needle, j)
                                 => \E k \in 1..Len(hits) : Reaches(hits, k, j)
  BY <1>1, <1>2, <1>3 DEF FoundUpTo
<1>5. \A j \in 1..i : j = i \/ j \in 1..(i - 1)
  OBVIOUS
<1>6. hits # <<>> => Len(hits) \in 1..Len(hits)
  BY <1>2, <1>3, EmptySeq
<1>7. CASE i < next \/ ~StandsAt(text, needle, i)
  <2>1. Scanned(text, needle, found, i) = found
    BY <1>1, <1>2, <1>7 DEF Scanned, StandsAt
  <2>2. StandsAt(text, needle, i) => \E k \in 1..Len(hits) : Reaches(hits, k, i)
    <3>1. ASSUME StandsAt(text, needle, i)  PROVE Reaches(hits, Len(hits), i) /\ hits # <<>>
      <4>1. i < next /\ hits # <<>>
        BY <1>4, <1>7, <3>1
      <4>2. hits[Len(hits)].end = next /\ hits[Len(hits)].start <= i - 1
        BY <1>4, <4>1
      <4>3. hits[Len(hits)].start \in Int
        BY <1>3, <1>6, <4>1
      <4>4. hits[Len(hits)].start <= i /\ i < hits[Len(hits)].end
        BY <4>1, <4>2, <4>3
      <4> QED BY <4>1, <4>4 DEF Reaches
    <3> QED BY <1>6, <3>1
  <2>3. ASSUME hits # <<>>  PROVE hits[Len(hits)].start <= i
    <3>1. hits[Len(hits)].start \in Int
      BY <1>3, <1>6, <2>3
    <3>2. hits[Len(hits)].start <= i - 1
      BY <1>4, <2>3
    <3> QED BY <3>1, <3>2
  <2>4. \A j \in 1..i : StandsAt(text, needle, j)
                          => \E k \in 1..Len(hits) : Reaches(hits, k, j)
    BY <1>4, <1>5, <2>2
  <2>5. found.hits = hits /\ found.next = next
    BY <1>2
  <2>6. FoundUpTo(found, text, needle, i)
    BY <1>1, <1>3, <1>4, <2>3, <2>4, <2>5 DEF FoundUpTo
  <2> QED BY <2>1, <2>6
<1>8. CASE ~(i < next) /\ StandsAt(text, needle, i)
  <2>1. PICK h : h = [start |-> i, end |-> i + n]
    OBVIOUS
  <2>2. h \in Hit /\ h.start = i /\ h.end = i + n
    BY <1>1, <2>1 DEF Hit
  <2>3. PICK more : more = Append(hits, h)
    OBVIOUS
  <2>4. /\ more \in Seq(Hit) /\ Len(more) = Len(hits) + 1 /\ DOMAIN more = 1..(Len(hits) + 1)
        /\ more[Len(hits) + 1] = h /\ \A k \in 1..Len(hits) : more[k] = hits[k]
    <3>1. /\ Append(hits, h) \in Seq(Hit) /\ Len(Append(hits, h)) = Len(hits) + 1
          /\ DOMAIN Append(hits, h) = 1..(Len(hits) + 1) /\ Append(hits, h)[Len(hits) + 1] = h
          /\ \A k \in 1..Len(hits) : Append(hits, h)[k] = hits[k]
      BY AppendFacts, <1>2, <2>2, SMT
    <3> QED BY <2>3, <3>1, Zenon
  <2>5. Scanned(text, needle, found, i) = [hits |-> more, next |-> i + n]
    BY <1>1, <1>2, <1>8, <2>1, <2>3 DEF Scanned, StandsAt
  <2>6. \A k \in 1..Len(more) : k = Len(hits) + 1 \/ k \in 1..Len(hits)
    BY <1>3, <2>4
  <2>7. Len(hits) + 1 \in 1..Len(more)
    BY <1>3, <2>4
  <2>8. \A k \in 1..Len(more) : /\ StandsAt(text, needle, more[k].start)
                                /\ more[k].end = more[k].start + n
    BY <1>4, <1>8, <2>2, <2>4, <2>6
  <2>9. ASSUME NEW k \in 2..Len(more)  PROVE more[k - 1].end <= more[k].start
    <3>1. CASE k \in 2..Len(hits)
      <4>1. k \in 1..Len(hits) /\ k - 1 \in 1..Len(hits)
        BY <1>3, <3>1
      <4> QED BY <1>4, <2>4, <3>1, <4>1
    <3>2. CASE k = Len(hits) + 1
      <4>1. k - 1 = Len(hits) /\ Len(hits) \in 1..Len(hits)
        BY <1>3, <2>4, <2>9, <3>2
      <4>2. hits # <<>>
        BY <4>1
      <4>3. more[k - 1].end = next /\ more[k].start = i
        BY <1>4, <2>2, <2>4, <3>2, <4>1, <4>2
      <4> QED BY <1>8, <4>3
    <3>3. k = Len(hits) + 1 \/ k \in 2..Len(hits)
      BY <1>3, <2>4
    <3> QED BY <3>1, <3>2, <3>3
  <2>10. ASSUME NEW j \in 1..i, StandsAt(text, needle, j)
         PROVE  \E k \in 1..Len(more) : Reaches(more, k, j)
    <3>1. CASE j = i
      <4>1. Reaches(more, Len(hits) + 1, j)
        BY <1>1, <2>2, <2>4, <3>1 DEF Reaches
      <4> QED BY <2>7, <4>1
    <3>2. CASE j \in 1..(i - 1)
      <4>1. PICK k \in 1..Len(hits) : Reaches(hits, k, j)
        BY <1>4, <2>10, <3>2
      <4>2. k \in 1..Len(more)
        BY <1>3, <2>4
      <4>3. Reaches(more, k, j)
        BY <2>4, <4>1 DEF Reaches
      <4> QED BY <4>2, <4>3
    <3> QED BY <1>5, <3>1, <3>2
  <2>11. more # <<>> /\ more[Len(more)].end = i + n /\ more[Len(more)].start <= i
    <3>1. more # <<>>
      BY <1>3, <2>4, EmptySeq
    <3> QED BY <2>2, <2>4, <3>1
  <2>12. PICK now : now = Scanned(text, needle, found, i)
    OBVIOUS
  <2>13. now.hits = more /\ now.next = i + n
    BY <2>5, <2>12
  <2>14. FoundUpTo(now, text, needle, i)
    BY <1>1, <2>4, <2>8, <2>9, <2>10, <2>11, <2>13 DEF FoundUpTo
  <2> QED BY <2>12, <2>14
<1>9. ~(i < next) \/ i < next
  OBVIOUS
<1> QED BY <1>7, <1>8, <1>9

\* Hits finds occurrences of the needle only, one after the other without overlap, and leaves
\* none aside that it does not overlap (str.find and re.finditer, from left to right).
THEOREM HitsAreExact ==
  ASSUME NEW text, Len(text) \in Nat, NEW needle, Len(needle) \in Nat \ {0}
  PROVE  LET hits == Hits(text, needle) IN
         /\ \A k \in DOMAIN hits : /\ StandsAt(text, needle, hits[k].start)
                                   /\ hits[k].end = hits[k].start + Len(needle)
         /\ \A k \in 2..Len(hits) : hits[k - 1].end <= hits[k].start
         /\ \A i \in 1..Len(text) : StandsAt(text, needle, i)
                                      => \E k \in DOMAIN hits : Reaches(hits, k, i)
<1>1. PICK upto : Search(upto, text, needle) /\ Hits(text, needle) = upto[Len(text)].hits
  BY HitsSearch
<1>2. PICK m \in Nat : m = Len(text)
  OBVIOUS
<1> DEFINE T == [hits : Seq(Hit), next : Nat]
           D == [i \in 0..m |-> {found \in T : FoundUpTo(found, text, needle, i)}]
<1>3. /\ 0 \in 0..m /\ m \in 0..m
      /\ \A i \in 1..m : i \in 0..m /\ i - 1 \in 0..m /\ i \in Nat \ {0}
  BY <1>2
<1>4. upto[0] \in D[0]
  <2>1. PICK none : none = [hits |-> <<>>, next |-> 1]
    OBVIOUS
  <2>2. none \in T /\ none.hits = <<>> /\ none.next = 1 /\ Len(none.hits) = 0
    BY <2>1
  <2>3. DOMAIN none.hits = {} /\ 1..0 = {} /\ 2..0 = {}
    BY <2>2
  <2>4. FoundUpTo(none, text, needle, 0)
    BY <2>2, <2>3 DEF FoundUpTo
  <2>5. upto[0] = none
    BY <1>1, <2>1 DEF Search
  <2> QED BY <1>3, <2>2, <2>4, <2>5
<1>5. ASSUME NEW i \in 1..m, upto[i - 1] \in D[i - 1]  PROVE upto[i] \in D[i]
  <2>1. PICK found \in T : found = upto[i - 1] /\ FoundUpTo(found, text, needle, i - 1)
    BY <1>3, <1>5
  <2>2. PICK now : now = Scanned(text, needle, found, i)
    OBVIOUS
  <2>3. now \in T
    BY <1>3, <2>1, <2>2, ScannedType
  <2>4. FoundUpTo(now, text, needle, i)
    BY <1>3, <2>1, <2>2, ScannedFinds
  <2>5. upto[i] = now
    BY <1>1, <1>2, <2>1, <2>2 DEF Search
  <2> QED BY <1>3, <2>3, <2>4, <2>5
<1>6. upto[m] \in T /\ FoundUpTo(upto[m], text, needle, m)
  <2> HIDE DEF D
  <2>1. \A i \in 0..m : upto[i] \in D[i]
    BY <1>2, <1>4, <1>5, UpTo
  <2> QED BY <1>3, <2>1 DEF D
<1> QED BY <1>1, <1>2, <1>6 DEF FoundUpTo

LEMMA OccursWhereItStands ==
  ASSUME NEW text, Len(text) \in Nat, NEW needle, Len(needle) \in Nat \ {0}
  PROVE  Occurs(needle, text) <=> \E i \in 1..Len(text) : StandsAt(text, needle, i)
<1>1. PICK hits : hits = Hits(text, needle)
  OBVIOUS
<1>2. hits \in Seq(Hit) /\ DOMAIN hits = 1..Len(hits) /\ Len(hits) \in Nat
  <2>1. hits \in Seq(Hit)
    BY <1>1, HitsType
  <2> QED BY <2>1, LenProperties
<1>3. /\ \A k \in DOMAIN hits : StandsAt(text, needle, hits[k].start)
      /\ \A i \in 1..Len(text) : StandsAt(text, needle, i)
                                   => \E k \in DOMAIN hits : Reaches(hits, k, i)
  BY <1>1, HitsAreExact
<1>4. ASSUME hits # <<>>  PROVE \E i \in 1..Len(text) : StandsAt(text, needle, i)
  <2>1. 1 \in DOMAIN hits /\ hits[1] \in Hit
    BY <1>2, <1>4, EmptySeq
  <2>2. StandsAt(text, needle, hits[1].start) /\ hits[1].start \in Int
    BY <1>3, <2>1 DEF Hit
  <2>3. hits[1].start \in 1..Len(text)
    BY <2>2 DEF StandsAt
  <2> QED BY <2>2, <2>3
<1>5. ASSUME NEW i \in 1..Len(text), StandsAt(text, needle, i)  PROVE hits # <<>>
  BY <1>2, <1>3, <1>5
<1> QED BY <1>1, <1>4, <1>5 DEF Occurs

\* A symbol of a text is that of a keyword, in either case when the settings say so.
SameSymbol(x, y) == IF Settings.caseSensitive THEN x = y ELSE Lower[x] = Lower[y]

\* Keyword k appears somewhere in text.
Appears(k, text) ==
  /\ k # <<>>
  /\ \E i \in 1..Len(text) : /\ i + Len(k) <= Len(text) + 1
                             /\ \A j \in 1..Len(k) : SameSymbol(text[i + j - 1], k[j])

LEMMA LoweredText ==
  ASSUME NEW text \in Seq(STRING)
  PROVE  /\ Lowered(text) \in Seq({Lower[x] : x \in STRING})
         /\ Len(Lowered(text)) = Len(text)
         /\ \A i \in 1..Len(text) : Lowered(text)[i] = Lower[text[i]]
<1>1. DOMAIN text = 1..Len(text) /\ Len(text) \in Nat /\ \A i \in 1..Len(text) : text[i] \in STRING
  OBVIOUS
<1>2. PICK low : low = Lowered(text)
  OBVIOUS
<1>3. low = [i \in 1..Len(text) |-> Lower[text[i]]]
  BY <1>1, <1>2 DEF Lowered
<1>4. \A i \in 1..Len(text) : Lower[text[i]] \in {Lower[x] : x \in STRING}
  BY <1>1
<1>5. low \in Seq({Lower[x] : x \in STRING}) /\ Len(low) = Len(text)
  BY <1>1, <1>3, <1>4
<1> QED BY <1>2, <1>3, <1>5

\* A sequence stands where its symbols do, one by one.
LEMMA StandsSymbolwise ==
  ASSUME NEW S, NEW text \in Seq(S), NEW k \in Seq(S), NEW i \in 1..Len(text)
  PROVE  StandsAt(text, k, i) <=> /\ i + Len(k) <= Len(text) + 1
                                  /\ \A j \in 1..Len(k) : text[i + j - 1] = k[j]
<1>1. CASE i + Len(k) <= Len(text) + 1
  <2>1. PICK n \in Nat, e \in Int : n = Len(k) /\ e = i + n - 1 /\ e - i + 1 = n
    OBVIOUS
  <2>2. PICK part : part = SubSeq(text, i, e)
    OBVIOUS
  <2>3. \A j \in i..e : text[j] \in S
    BY <1>1, <2>1
  <2>4. /\ part \in Seq(S) /\ Len(part) = IF i <= e THEN n ELSE 0
        /\ \A j \in 1..n : part[j] = text[i + j - 1]
    BY <2>1, <2>2, <2>3, SubSeqProperties
  <2>5. Len(part) = n
    BY <2>1, <2>4
  <2>6. part = k <=> \A j \in 1..n : text[i + j - 1] = k[j]
    BY <2>1, <2>4, <2>5, SeqEqual
  <2>7. StandsAt(text, k, i) <=> part = k
    <3>1. SubSeq(text, i, i + Len(k) - 1) = part /\ 1 <= i
      BY <2>1, <2>2
    <3> QED BY <1>1, <3>1 DEF StandsAt
  <2> QED BY <1>1, <2>1, <2>6, <2>7
<1>2. CASE ~(i + Len(k) <= Len(text) + 1)
  BY <1>2 DEF StandsAt
<1> QED BY <1>1, <1>2

\* KeywordFilterProcessor finds a keyword exactly where it appears: a text that is not blank is
\* dropped when it has a blocked keyword, or none of the allowed ones, and only then.
THEOREM KeywordsAreExact ==
  ASSUME NEW text \in Seq(STRING),
         Settings.blocked \subseteq Seq(STRING), Settings.allowed \subseteq Seq(STRING)
  PROVE  KeywordDrop(text) <=>
           IF \A i \in 1..Len(text) : text[i] = " " THEN ~Settings.allowEmpty
           ELSE \/ \E k \in Settings.blocked : Appears(k, text)
                \/ Settings.allowed # {} /\ \A k \in Settings.allowed : ~Appears(k, text)
<1> DEFINE Cased(t) == IF Settings.caseSensitive THEN t ELSE Lowered(t)
           Has(k) == k # <<>> /\ Occurs(Cased(k), Cased(text))
           S == IF Settings.caseSensitive THEN STRING ELSE {Lower[x] : x \in STRING}
<1>1. ASSUME NEW t \in Seq(STRING)
      PROVE  /\ Cased(t) \in Seq(S) /\ Len(Cased(t)) = Len(t)
             /\ \A i \in 1..Len(t) : Cased(t)[i] = IF Settings.caseSensitive THEN t[i]
                                                   ELSE Lower[t[i]]
  BY <1>1, LoweredText
<1>2. ASSUME NEW k \in Seq(STRING)  PROVE Has(k) <=> Appears(k, text)
  <2>1. CASE k = <<>>
    BY <2>1 DEF Appears
  <2>2. CASE k # <<>>
    <3>1. PICK w \in Seq(S) : /\ w = Cased(k) /\ Len(w) = Len(k)
                              /\ \A i \in 1..Len(k) : w[i] = IF Settings.caseSensitive THEN k[i]
                                                             ELSE Lower[k[i]]
      BY <1>1
    <3>2. PICK t \in Seq(S) : /\ t = Cased(text) /\ Len(t) = Len(text)
                              /\ \A i \in 1..Len(text) :
                                   t[i] = IF Settings.caseSensitive THEN text[i] ELSE Lower[text[i]]
      BY <1>1
    <3>3. Len(t) \in Nat /\ Len(w) \in Nat \ {0}
      BY <2>2, <3>1, <3>2, EmptySeq
    <3>4. Occurs(w, t) <=> \E i \in 1..Len(t) : StandsAt(t, w, i)
      BY <3>3, OccursWhereItStands
    <3> HIDE DEF S
    <3>5. ASSUME NEW i \in 1..Len(text)
          PROVE  StandsAt(t, w, i) <=> /\ i + Len(k) <= Len(text) + 1
                                       /\ \A j \in 1..Len(k) : SameSymbol(text[i + j - 1], k[j])
      <4>1. StandsAt(t, w, i) <=> /\ i + Len(k) <= Len(text) + 1
                                  /\ \A j \in 1..Len(k) : t[i + j - 1] = w[j]
        BY <3>1, <3>2, StandsSymbolwise
      <4>2. ASSUME i + Len(k) <= Len(text) + 1, NEW j \in 1..Len(k)
            PROVE  t[i + j - 1] = w[j] <=> SameSymbol(text[i + j - 1], k[j])
        <5>1. PICK p : p = i + j - 1 /\ p \in 1..Len(text)
          BY <3>2, <3>3, <4>2
        <5> QED BY <3>1, <3>2, <5>1 DEF SameSymbol
      <4> QED BY <4>1, <4>2
    <3>6. Occurs(w, t) <=> \E i \in 1..Len(text) :
                              /\ i + Len(k) <= Len(text) + 1
                              /\ \A j \in 1..Len(k) : SameSymbol(text[i + j - 1], k[j])
      BY <3>2, <3>4, <3>5
    <3> QED BY <2>2, <3>1, <3>2, <3>6 DEF Appears
  <2> QED BY <2>1, <2>2
<1>3. DOMAIN text = 1..Len(text)
  OBVIOUS
<1>4. KeywordDrop(text) <=>
        IF \A i \in DOMAIN text : text[i] = " " THEN ~Settings.allowEmpty
        ELSE \/ \E k \in Settings.blocked : Has(k)
             \/ Settings.allowed # {} /\ \A k \in Settings.allowed : ~Has(k)
  BY DEF KeywordDrop
<1> HIDE DEF Has
<1> QED BY <1>2, <1>3, <1>4

\* One replacement of ApplyReplacements, from the right.
Put(left, h, new) ==
  IF h.end > left.last THEN left
  ELSE [text |-> SubSeq(left.text, 1, h.start - 1) \o new
                 \o SubSeq(left.text, h.end, Len(left.text)),
        last |-> h.start]

\* Up to where the text was rewritten, it is as long as it was.
PutInto == {left \in [text : Seq(STRING), last : Int] : left.last <= Len(left.text) + 2}

LEMMA PutType ==
  ASSUME NEW left \in PutInto, NEW h \in Hit, NEW new \in Seq(STRING)
  PROVE  Put(left, h, new) \in PutInto
<1>1. PICK text \in Seq(STRING), last \in Int :
        left.text = text /\ left.last = last /\ last <= Len(text) + 2
  BY DEF PutInto
<1>2. PICK start \in Int, end \in Nat \ {0} :
        h.start = start /\ h.end = end /\ (start < end \/ start = 1)
  BY DEF Hit
<1>3. CASE end > last
  BY <1>1, <1>2, <1>3 DEF Put
<1>4. CASE ~(end > last)
  <2>1. Len(text) \in Nat /\ DOMAIN text = 1..Len(text)
        /\ \A i \in 1..Len(text) : text[i] \in STRING
    BY <1>1
  <2>2. start - 1 \in Int /\ start - 1 <= Len(text)
    BY <1>1, <1>2, <1>4, <2>1
  <2>3. PICK l : l = SubSeq(text, 1, start - 1)
    OBVIOUS
  <2>4. PICK r : r = SubSeq(text, end, Len(text))
    OBVIOUS
  <2>5. l \in Seq(STRING) /\ Len(l) = IF 1 <= start - 1 THEN start - 1 ELSE 0
    <3>1. \A i \in 1..(start - 1) : text[i] \in STRING
      BY <2>1, <2>2
    <3>2. (start - 1) - 1 + 1 = start - 1
      BY <1>2
    <3> QED BY <2>2, <2>3, <3>1, <3>2, SubSeqProperties
  <2>6. r \in Seq(STRING)
    <3>1. \A i \in end..Len(text) : text[i] \in STRING
      BY <1>2, <2>1
    <3> QED BY <1>2, <2>1, <2>4, <3>1, SubSeqProperties
  <2>7. PICK both : both = l \o new \o r
    OBVIOUS
  <2>8. both \in Seq(STRING) /\ Len(both) = Len(l) + Len(new) + Len(r)
        /\ Len(l) \in Nat /\ Len(new) \in Nat /\ Len(r) \in Nat
    <3>1. PICK front : front = l \o new
      OBVIOUS
    <3>2. front \in Seq(STRING) /\ Len(front) = Len(l) + Len(new)
      BY <2>5, <3>1, ConcatProperties
    <3>3. both = front \o r
      BY <2>7, <3>1
    <3>4. both \in Seq(STRING) /\ Len(both) = Len(front) + Len(r)
      BY <2>6, <3>2, <3>3, ConcatProperties
    <3>5. Len(l) \in Nat /\ Len(new) \in Nat /\ Len(r) \in Nat
      BY <2>5, <2>6, LenProperties
    <3> QED BY <3>2, <3>4, <3>5
  <2>9. Put(left, h, new) = [text |-> both, last |-> start]
    BY <1>1, <1>2, <1>4, <2>3, <2>4, <2>7 DEF Put
  <2>10. start <= Len(both) + 2
    BY <1>2, <2>5, <2>8
  <2> QED BY <1>2, <2>8, <2>9, <2>10 DEF PutInto
<1> QED BY <1>3, <1>4

\* What one replacement does to a text: nothing in front of the hit changes, the replacement
\* stands where the hit began, and what followed the hit is moved.
Moves(put, text, start, end, new, longer) ==
  /\ put.last = start /\ put.text \in Seq(STRING) /\ Len(put.text) = Len(text) + longer
  /\ longer \in Int /\ start + Len(new) = end + longer
  /\ \A p \in 1..(start - 1) : put.text[p] = text[p]
  /\ \A j \in 1..Len(new) : put.text[start + j - 1] = new[j]
  /\ \A p \in end..Len(text) : put.text[p + longer] = text[p]

LEMMA PutMoves ==
  ASSUME NEW text \in Seq(STRING), NEW new \in Seq(STRING), NEW last \in Int,
         NEW start \in Nat \ {0}, NEW end \in Nat, start < end, end <= last, end <= Len(text) + 1
  PROVE  Moves(Put([text |-> text, last |-> last], [start |-> start, end |-> end], new),
               text, start, end, new, Len(new) - (end - start))
<1> DEFINE longer == Len(new) - (end - start)
<1>0. PICK put : put = Put([text |-> text, last |-> last], [start |-> start, end |-> end], new)
  OBVIOUS
<1>1. Len(text) \in Nat /\ Len(new) \in Nat /\ \A p \in 1..Len(text) : text[p] \in STRING
  OBVIOUS
<1>2. PICK l : l = SubSeq(text, 1, start - 1)
  OBVIOUS
<1>3. PICK r : r = SubSeq(text, end, Len(text))
  OBVIOUS
<1>4. l \in Seq(STRING) /\ Len(l) = start - 1 /\ \A p \in 1..(start - 1) : l[p] = text[p]
  <2>1. \A p \in 1..(start - 1) : text[p] \in STRING
    BY <1>1
  <2>2. /\ l \in Seq(STRING) /\ Len(l) = IF 1 <= start - 1 THEN (start - 1) - 1 + 1 ELSE 0
        /\ \A p \in 1..((start - 1) - 1 + 1) : l[p] = text[1 + p - 1]
    BY <1>2, <2>1, SubSeqProperties
  <2>3. (start - 1) - 1 + 1 = start - 1 /\ \A p \in 1..(start - 1) : 1 + p - 1 = p
    OBVIOUS
  <2> QED BY <2>2, <2>3
<1>5. PICK n \in Nat : n = Len(text) - end + 1
  <2>1. Len(text) - end + 1 \in Nat
    BY <1>1
  <2> QED BY <2>1
<1>6. r \in Seq(STRING) /\ Len(r) = n /\ \A p \in 1..n : r[p] = text[end + p - 1]
  <2>1. \A p \in end..Len(text) : text[p] \in STRING
    BY <1>1
  <2>2. /\ r \in Seq(STRING) /\ Len(r) = IF end <= Len(text) THEN n ELSE 0
        /\ \A p \in 1..n : r[p] = text[end + p - 1]
    BY <1>1, <1>3, <1>5, <2>1, SubSeqProperties
  <2> QED BY <1>1, <1>5, <2>2
<1>7. PICK front : front = l \o new
  OBVIOUS
<1>8. /\ front \in Seq(STRING) /\ Len(front) = start - 1 + Len(new)
      /\ \A p \in 1..(start - 1 + Len(new)) :
           front[p] = IF p <= start - 1 THEN l[p] ELSE new[p - (start - 1)]
  <2>1. /\ front \in Seq(STRING) /\ Len(front) = Len(l) + Len(new)
        /\ \A p \in 1..(Len(l) + Len(new)) :
             front[p] = IF p <= Len(l) THEN l[p] ELSE new[p - Len(l)]
    BY <1>4, <1>7, ConcatProperties
  <2> QED BY <1>4, <2>1
<1>9. PICK both : both = front \o r
  OBVIOUS
<1>10. /\ both \in Seq(STRING) /\ Len(both) = Len(front) + n
       /\ \A p \in 1..(Len(front) + n) :
            both[p] = IF p <= Len(front) THEN front[p] ELSE r[p - Len(front)]
  <2>1. /\ both \in Seq(STRING) /\ Len(both) = Len(front) + Len(r)
        /\ \A p \in 1..(Len(front) + Len(r)) :
             both[p] = IF p <= Len(front) THEN front[p] ELSE r[p - Len(front)]
    BY <1>6, <1>8, <1>9, ConcatProperties
  <2> QED BY <1>6, <2>1
<1>11. put.text = both /\ put.last = start
  <2>1. put = [text |-> both, last |-> start]
    BY <1>0, <1>2, <1>3, <1>7, <1>9 DEF Put
  <2> QED BY <2>1
<1>12. longer \in Int /\ start + Len(new) = end + longer /\ Len(both) = Len(text) + longer
  <2>1. Len(both) = Len(front) + n /\ Len(front) = start - 1 + Len(new)
    BY <1>8, <1>10
  <2> QED BY <1>1, <1>5, <2>1
<1>13. ASSUME NEW p \in 1..(start - 1)  PROVE both[p] = text[p]
  <2>1. p \in 1..Len(front) /\ p \in 1..(Len(front) + n) /\ p \in 1..(start - 1 + Len(new))
    BY <1>1, <1>5, <1>8
  <2>2. p <= Len(front) /\ p <= start - 1
    BY <2>1
  <2>3. both[p] = front[p]
    BY <1>10, <2>1, <2>2
  <2>4. front[p] = l[p]
    BY <1>8, <2>1, <2>2
  <2> QED BY <1>4, <2>3, <2>4
<1>14. ASSUME NEW j \in 1..Len(new)  PROVE both[start + j - 1] = new[j]
  <2>1. PICK p : p = start + j - 1 /\ p \in 1..Len(front) /\ ~(p <= start - 1)
                 /\ p - (start - 1) = j
    BY <1>1, <1>8
  <2>2. both[p] = front[p] /\ front[p] = new[j]
    <3>1. p \in 1..(Len(front) + n) /\ p <= Len(front) /\ p \in 1..(start - 1 + Len(new))
      BY <1>1, <1>5, <1>8, <2>1
    <3>2. both[p] = front[p]
      BY <1>10, <3>1
    <3>3. front[p] = new[p - (start - 1)]
      BY <1>8, <2>1, <3>1
    <3> QED BY <2>1, <3>2, <3>3
  <2> QED BY <2>1, <2>2
<1>15. ASSUME NEW p \in end..Len(text)  PROVE both[p + longer] = text[p]
  <2>1. PICK q : q = p + longer /\ q \in Int /\ q - Len(front) = p - end + 1
    BY <1>1, <1>8, <1>12
  <2>2. PICK j \in 1..n : j = p - end + 1 /\ end + j - 1 = p
    BY <1>1, <1>5
  <2>3. q \in 1..(Len(front) + n) /\ ~(q <= Len(front))
    BY <1>1, <1>8, <2>1, <2>2
  <2>4. both[q] = r[j]
    BY <1>10, <2>1, <2>2, <2>3
  <2> QED BY <1>6, <2>1, <2>2, <2>4
<1> HIDE DEF longer
<1>16. Moves(put, text, start, end, new, longer)
  BY <1>10, <1>11, <1>12, <1>13, <1>14, <1>15 DEF Moves
<1> QED BY <1>0, <1>16 DEF longer

\* The recursive function that ApplyReplacements defines.
Puts(after, text, hits, new) ==
  after = [n \in 0..Len(hits) |->
             IF n = 0 THEN [text |-> text, last |-> Len(text) + 2]
             ELSE LET left == after[n - 1]
                      h == hits[Len(hits) + 1 - n]
                  IN IF h.end > left.last THEN left
                     ELSE [text |-> SubSeq(left.text, 1, h.start - 1) \o new
                                    \o SubSeq(left.text, h.end, Len(left.text)),
                           last |-> h.start]]

\* The replacements of ApplyReplacements, one after the other.
PutsInTurn(after, text, hits, new) ==
  /\ after[0] = [text |-> text, last |-> Len(text) + 2]
  /\ \A i \in 1..Len(hits) : after[i] = Put(after[i - 1], hits[Len(hits) + 1 - i], new)

LEMMA ReplacementsRun ==
  ASSUME NEW text \in Seq(STRING), NEW hits \in Seq(Hit), NEW new \in Seq(STRING)
  PROVE  \E after : /\ PutsInTurn(after, text, hits, new)
                    /\ ApplyReplacements(text, hits, new) = after[Len(hits)].text
<1> DEFINE m == Len(hits)
           start == [text |-> text, last |-> Len(text) + 2]
           step == [x \in PutInto \X (1..m) |-> Put(x[1], hits[m + 1 - x[2]], new)]
<1>1. start \in PutInto /\ m \in Nat /\ \A i \in 1..m : hits[m + 1 - i] \in Hit
  BY DEF PutInto
<1>2. \A left \in PutInto, i \in 1..m : Put(left, hits[m + 1 - i], new) \in PutInto
  BY <1>1, PutType
<1>3. step \in [PutInto \X (1..m) -> PutInto]
  BY <1>2
<1>4. \A left \in PutInto, i \in 1..m : step[left, i] = Put(left, hits[m + 1 - i], new)
  OBVIOUS
<1> HIDE DEF m, start, step
<1>5. \E after : after = [n \in 0..m |-> IF n = 0 THEN start
                                         ELSE Put(after[n - 1], hits[m + 1 - n], new)]
  <2>1. PICK f \in [0..m -> PutInto] : Runs(f, start, step, m)
    BY <1>1, <1>3, Recursion
  <2>2. \A n \in 0..m : n = 0 \/ (n \in 1..m /\ n - 1 \in 0..m)
    BY <1>1
  <2>3. \A n \in 0..m : f[n] = IF n = 0 THEN start ELSE Put(f[n - 1], hits[m + 1 - n], new)
    BY <1>4, <2>1, <2>2 DEF Runs
  <2>4. f = [n \in 0..m |-> IF n = 0 THEN start ELSE Put(f[n - 1], hits[m + 1 - n], new)]
    BY <2>3
  <2> QED BY <2>4
<1>6. PICK after : /\ after = [n \in 0..m |-> IF n = 0 THEN start
                                              ELSE Put(after[n - 1], hits[m + 1 - n], new)]
                   /\ ApplyReplacements(text, hits, new) = after[m].text
  <2> DEFINE f == CHOOSE f : Puts(f, text, hits, new)
  <2>1. \E g : Puts(g, text, hits, new)
    BY <1>5, Zenon DEF Puts, Put, m, start
  <2>2. Puts(f, text, hits, new) /\ ApplyReplacements(text, hits, new) = f[m].text
    BY <2>1, Zenon DEF ApplyReplacements, Puts, m
  <2>3. f = [n \in 0..m |-> IF n = 0 THEN start ELSE Put(f[n - 1], hits[m + 1 - n], new)]
    BY <2>2, Zenon DEF Puts, Put, m, start
  <2> HIDE DEF f
  <2> QED BY <2>2, <2>3
<1>7. after[0] = start /\ \A i \in 1..m : after[i] = Put(after[i - 1], hits[m + 1 - i], new)
  <2>1. 0 \in 0..m /\ \A i \in 1..m : i \in 0..m /\ i # 0
    BY <1>1
  <2> QED BY <1>6, <2>1
<1> QED BY <1>6, <1>7 DEF m, start, PutsInTurn

LEMMA ApplyReplacementsType ==
  ASSUME NEW text \in Seq(STRING), NEW hits \in Seq(Hit), NEW new \in Seq(STRING)
  PROVE  ApplyReplacements(text, hits, new) \in Seq(STRING)
<1>1. PICK after : /\ PutsInTurn(after, text, hits, new)
                   /\ ApplyReplacements(text, hits, new) = after[Len(hits)].text
  BY ReplacementsRun
<1>2. PICK m \in Nat : m = Len(hits)
  OBVIOUS
<1> DEFINE D == [i \in 0..m |-> PutInto]
<1>3. /\ 0 \in 0..m /\ m \in 0..m
      /\ \A i \in 1..m : i \in 0..m /\ i - 1 \in 0..m /\ hits[m + 1 - i] \in Hit
  BY <1>2
<1>4. after[0] \in D[0]
  <2>1. [text |-> text, last |-> Len(text) + 2] \in PutInto
    BY DEF PutInto
  <2> QED BY <1>1, <1>3, <2>1 DEF PutsInTurn
<1>5. ASSUME NEW i \in 1..m, after[i - 1] \in D[i - 1]  PROVE after[i] \in D[i]
  <2>1. after[i - 1] \in PutInto
    BY <1>3, <1>5
  <2>2. Put(after[i - 1], hits[m + 1 - i], new) \in PutInto
    BY <1>3, <2>1, PutType
  <2> QED BY <1>1, <1>2, <1>3, <2>2 DEF PutsInTurn
<1>6. after[m] \in PutInto
  <2> HIDE DEF D
  <2>1. \A i \in 0..m : after[i] \in D[i]
    BY <1>2, <1>4, <1>5, UpTo
  <2> QED BY <1>3, <2>1 DEF D
<1> QED BY <1>1, <1>2, <1>6 DEF PutInto

\* Hits that lie in the text one after the other, each of n symbols.
Disjoint(hits, text, n) ==
  /\ \A k \in 1..Len(hits) : /\ 1 <= hits[k].start
                             /\ hits[k].end = hits[k].start + n /\ hits[k].end <= Len(text) + 1
  /\ \A k \in 2..Len(hits) : hits[k - 1].end <= hits[k].start

\* Position i lies between hit k and the one behind it.
Between(hits, k, i) ==
  /\ k = 0 \/ hits[k].end <= i
  /\ k = Len(hits) \/ i < hits[k + 1].start

\* Position p of the text holds x, and is not in front of position first.
Holds(text, p, x, first) == p \in 1..Len(text) /\ first <= p /\ text[p] = x

\* What is left of the text when the hits behind hit c are replaced: the text in front of
\* them, each replacement where its hit was moved to, and the text between them, moved too.
PartRewritten(left, c, text, hits, new, longer) ==
  /\ left.text \in Seq(STRING) /\ Len(left.text) = Len(text) + (Len(hits) - c) * longer
  /\ c = Len(hits) => left.last = Len(text) + 2
  /\ c < Len(hits) => left.last = hits[c + 1].start /\ left.last <= Len(left.text) + 1
  /\ \A i \in 1..Len(text) :
       c = Len(hits) \/ i < hits[c + 1].start => Holds(left.text, i, text[i], 1)
  /\ \A k \in (c + 1)..Len(hits) : \A j \in 1..Len(new) :
       Holds(left.text, hits[k].start + (k - c - 1) * longer + j - 1, new[j], hits[c + 1].start)
  /\ \A k \in (c + 1)..Len(hits) : \A i \in 1..Len(text) :
       Between(hits, k, i)
         => Holds(left.text, i + (k - c) * longer, text[i], hits[c + 1].start)

LEMMA OneMore ==
  ASSUME NEW a \in Int, NEW d \in Int
  PROVE  /\ a * d \in Int /\ (a + 1) * d = a * d + d
         /\ 0 * d = 0 /\ 1 * d = d
OBVIOUS

LEMMA PutRewrites ==
  ASSUME NEW text \in Seq(STRING), NEW new \in Seq(STRING), NEW n \in Nat \ {0},
         NEW hits \in Seq(Hit), Disjoint(hits, text, n),
         NEW longer, longer = Len(new) - n, NEW c \in 1..Len(hits),
         NEW left \in [text : Seq(STRING), last : Int],
         PartRewritten(left, c, text, hits, new, longer)
  PROVE  /\ Put(left, hits[c], new) \in [text : Seq(STRING), last : Int]
         /\ PartRewritten(Put(left, hits[c], new), c - 1, text, hits, new, longer)
<1>0. PICK was \in Seq(STRING), last \in Int : left = [text |-> was, last |-> last]
  OBVIOUS
<1>1. PICK m \in Nat : m = Len(hits) /\ c \in 1..m
  OBVIOUS
<1>2. PICK start \in Nat \ {0}, end \in Nat :
        /\ hits[c] = [start |-> start, end |-> end] /\ hits[c].start = start /\ hits[c].end = end
        /\ end = start + n /\ start < end /\ end <= Len(text) + 1
  <2>1. hits[c] \in Hit
    BY <1>1
  <2>2. PICK start \in Int, end \in Nat : /\ hits[c] = [start |-> start, end |-> end]
                                          /\ hits[c].start = start /\ hits[c].end = end
    BY <2>1 DEF Hit
  <2>3. 1 <= start /\ end = start + n /\ end <= Len(text) + 1
    BY <1>1, <2>2 DEF Disjoint
  <2>4. start \in Nat \ {0} /\ start < end
    BY <2>3
  <2> QED BY <2>2, <2>3, <2>4, Zenon
<1>3. left.text = was /\ left.last = last /\ Len(was) \in Nat /\ Len(text) \in Nat
      /\ Len(new) \in Nat /\ longer \in Int
  BY <1>0
<1>4. c < m => /\ hits[c + 1].start \in Int /\ end <= hits[c + 1].start
               /\ last = hits[c + 1].start /\ last <= Len(was) + 1
  <2>1. ASSUME c < m
        PROVE  hits[c + 1].start \in Int /\ hits[(c + 1) - 1].end <= hits[c + 1].start
    <3>1. c + 1 \in 2..m /\ c + 1 \in 1..m
      BY <1>1, <2>1
    <3>2. hits[c + 1] \in Hit
      BY <1>1, <3>1
    <3> QED BY <1>1, <3>1, <3>2 DEF Disjoint, Hit
  <2>2. c < m => last = hits[c + 1].start /\ last <= Len(was) + 1
    BY <1>1, <1>3 DEF PartRewritten
  <2>3. (c + 1) - 1 = c
    BY <1>1
  <2> QED BY <1>2, <2>1, <2>2, <2>3
<1>5. Len(was) = Len(text) + (m - c) * longer
  BY <1>1, <1>3 DEF PartRewritten
<1>6. c = m => last = Len(text) + 2 /\ Len(was) = Len(text)
  <2>1. c = m => last = Len(text) + 2
    BY <1>1, <1>3 DEF PartRewritten
  <2>2. c = m => (m - c) * longer = 0
    BY <1>1, <1>3, OneMore
  <2> QED BY <1>3, <1>5, <2>1, <2>2
<1>7. end <= last /\ end <= Len(was) + 1
  <2>1. CASE c = m
    BY <1>2, <1>3, <1>6, <2>1
  <2>2. CASE c < m
    BY <1>2, <1>3, <1>4, <2>2
  <2> QED BY <1>1, <2>1, <2>2
<1>8. PICK put : put = Put(left, hits[c], new)
  OBVIOUS
<1>9. PICK now : now = put.text
  OBVIOUS
<1>10. /\ put.last = start /\ now \in Seq(STRING) /\ Len(now) = Len(was) + longer
       /\ start + Len(new) = end + longer
       /\ \A p \in 1..(start - 1) : now[p] = was[p]
       /\ \A j \in 1..Len(new) : now[start + j - 1] = new[j]
       /\ \A p \in end..Len(was) : now[p + longer] = was[p]
  <2>1. put = Put([text |-> was, last |-> last], [start |-> start, end |-> end], new)
    BY <1>0, <1>2, <1>8
  <2>2. longer = Len(new) - (end - start)
    BY <1>2, <1>3
  <2>3. start \in Nat \ {0} /\ end \in Nat /\ start < end /\ end <= last /\ end <= Len(was) + 1
    BY <1>2, <1>7
  <2>4. /\ put.last = start /\ put.text \in Seq(STRING) /\ Len(put.text) = Len(was) + longer
        /\ longer \in Int /\ start + Len(new) = end + longer
        /\ \A p \in 1..(start - 1) : put.text[p] = was[p]
        /\ \A j \in 1..Len(new) : put.text[start + j - 1] = new[j]
        /\ \A p \in end..Len(was) : put.text[p + longer] = was[p]
    <3>1. Moves(put, was, start, end, new, longer)
      BY <2>1, <2>2, <2>3, PutMoves
    <3> QED BY <3>1 DEF Moves
  <2> QED BY <1>9, <2>4
<1>11. Len(now) \in Nat /\ start <= Len(now) + 1 /\ start + Len(new) <= Len(now) + 1
  <2>1. PICK a \in Nat, b \in Nat, l \in Nat : a = Len(was) /\ b = Len(new) /\ l = Len(now)
    <3>1. Len(now) \in Nat
      BY <1>10, LenProperties
    <3> QED BY <1>3, <3>1, Zenon
  <2>2. l = a + longer /\ start + b = end + longer /\ end <= a + 1
    BY <1>7, <1>10, <2>1
  <2>3. start <= l + 1 /\ start + b <= l + 1
    BY <1>3, <2>2
  <2> QED BY <2>1, <2>3
<1>12. Len(now) = Len(text) + (m - (c - 1)) * longer
  <2>1. m - (c - 1) = (m - c) + 1 /\ m - c \in Int
    BY <1>1
  <2>2. (m - (c - 1)) * longer = (m - c) * longer + longer /\ (m - c) * longer \in Int
    BY <1>3, <2>1, OneMore
  <2> QED BY <1>3, <1>5, <1>10, <2>2
\* What was moved already is moved once more.
<1>13. ASSUME NEW p \in Int, NEW x, NEW first \in Int, end <= first, Holds(was, p, x, first)
       PROVE  Holds(now, p + longer, x, start)
  <2>1. p \in end..Len(was) /\ was[p] = x
    BY <1>2, <1>3, <1>13 DEF Holds
  <2>2. p + longer \in 1..Len(now) /\ start <= p + longer
    BY <1>2, <1>3, <1>10, <2>1
  <2> QED BY <1>10, <2>1, <2>2 DEF Holds
<1>14. ASSUME NEW i \in 1..Len(text), i < start  PROVE Holds(now, i, text[i], 1)
  <2>1. c = m \/ i < hits[c + 1].start
    BY <1>1, <1>2, <1>4, <1>14
  <2>2. Holds(was, i, text[i], 1)
    BY <1>1, <1>3, <2>1 DEF PartRewritten
  <2>3. i \in 1..(start - 1) /\ i \in 1..Len(now)
    BY <1>2, <1>3, <1>11, <1>14
  <2> QED BY <1>10, <2>2, <2>3 DEF Holds
<1>15. ASSUME NEW k \in c..m, NEW j \in 1..Len(new)
       PROVE  Holds(now, hits[k].start + (k - (c - 1) - 1) * longer + j - 1, new[j], start)
  <2>1. CASE k = c
    <3>1. (k - (c - 1) - 1) * longer = 0
      <4>1. k - (c - 1) - 1 = 0
        BY <1>1, <2>1
      <4> QED BY <1>3, <4>1, OneMore
    <3>2. PICK p \in Int : p = start + j - 1
      OBVIOUS
    <3>3. j <= Len(new) /\ 1 <= j /\ start <= p /\ p <= Len(now)
      BY <1>3, <1>11, <3>2
    <3>4. p \in 1..Len(now)
      BY <3>2, <3>3
    <3>5. hits[k].start + (k - (c - 1) - 1) * longer + j - 1 = p
      <4>1. start + 0 + j - 1 = p
        BY <3>2
      <4>2. hits[k].start = start
        BY <1>2, <2>1
      <4> QED BY <3>1, <4>1, <4>2, Zenon
    <3> QED BY <1>10, <3>2, <3>3, <3>4, <3>5 DEF Holds
  <2>2. CASE k \in (c + 1)..m
    <3>1. PICK a \in Int : a = k - c - 1 /\ k - (c - 1) - 1 = a + 1
      BY <1>1, <2>2
    <3>2. a * longer \in Int /\ (a + 1) * longer = a * longer + longer
      BY <1>3, OneMore
    <3>3. hits[k].start \in Int
      <4>1. hits[k] \in Hit
        BY <1>1, <2>2
      <4> QED BY <4>1 DEF Hit
    <3>4. PICK p \in Int : p = hits[k].start + a * longer + j - 1
      BY <3>2, <3>3
    <3>5. Holds(was, p, new[j], hits[c + 1].start)
      BY <1>1, <1>3, <2>2, <3>1, <3>4 DEF PartRewritten
    <3>6. c < m
      BY <1>1, <2>2
    <3>7. Holds(now, p + longer, new[j], start)
      BY <1>4, <1>13, <3>5, <3>6
    <3>8. hits[k].start + (k - (c - 1) - 1) * longer + j - 1 = p + longer
      <4>1. (k - (c - 1) - 1) * longer = a * longer + longer
        BY <3>1, <3>2
      <4>2. PICK s \in Int, b \in Int : s = hits[k].start /\ b = a * longer
        BY <3>2, <3>3
      <4>3. longer \in Int /\ j \in Int
        BY <1>3
      <4>4. s + (b + longer) + j - 1 = (s + b + j - 1) + longer
        BY <4>3
      <4> QED BY <3>4, <4>1, <4>2, <4>4
    <3> QED BY <3>7, <3>8
  <2> QED BY <1>1, <2>1, <2>2
<1>16. ASSUME NEW k \in c..m, NEW i \in 1..Len(text), Between(hits, k, i)
       PROVE  Holds(now, i + (k - (c - 1)) * longer, text[i], start)
  <2>1. CASE k = c
    <3>1. (k - (c - 1)) * longer = longer
      <4>1. k - (c - 1) = 1
        BY <1>1, <2>1
      <4> QED BY <1>3, <4>1, OneMore
    <3>2. end <= i /\ (c = m \/ i < hits[c + 1].start)
      BY <1>1, <1>2, <1>16, <2>1 DEF Between
    <3>3. Holds(was, i, text[i], 1)
      BY <1>1, <1>3, <3>2 DEF PartRewritten
    <3>4. Holds(was, i, text[i], end)
      BY <3>2, <3>3 DEF Holds
    <3>5. Holds(now, i + longer, text[i], start)
      BY <1>2, <1>13, <3>4
    <3> QED BY <3>1, <3>5
  <2>2. CASE k \in (c + 1)..m
    <3>1. PICK a \in Int : a = k - c /\ k - (c - 1) = a + 1
      BY <1>1, <2>2
    <3>2. a * longer \in Int /\ (a + 1) * longer = a * longer + longer
      BY <1>3, OneMore
    <3>3. PICK p \in Int : p = i + a * longer
      BY <3>2
    <3>4. Holds(was, p, text[i], hits[c + 1].start)
      BY <1>1, <1>3, <1>16, <2>2, <3>1, <3>3 DEF PartRewritten
    <3>5. c < m
      BY <1>1, <2>2
    <3>6. Holds(now, p + longer, text[i], start)
      BY <1>4, <1>13, <3>4, <3>5
    <3>7. i + (k - (c - 1)) * longer = p + longer
      BY <1>3, <3>1, <3>2, <3>3
    <3> QED BY <3>6, <3>7
  <2> QED BY <1>1, <2>1, <2>2
<1>17. (c - 1) + 1 = c /\ c - 1 # m /\ c - 1 < m
  BY <1>1
<1>18. PartRewritten(put, c - 1, text, hits, new, longer)
  <2>1. put.text = now /\ put.last = start /\ start <= Len(put.text) + 1
    BY <1>9, <1>10, <1>11
  <2>2. hits[(c - 1) + 1].start = start
    BY <1>2, <1>17
  <2>3. ((c - 1) + 1)..m = c..m
    BY <1>17
  <2>4. \A i \in 1..Len(text) : i < start => Holds(now, i, text[i], 1)
    BY <1>14
  <2>5. /\ now \in Seq(STRING) /\ Len(now) = Len(text) + (m - (c - 1)) * longer
        /\ c - 1 = m => put.last = Len(text) + 2
        /\ c - 1 < m => put.last = start /\ put.last <= Len(now) + 1
    BY <1>10, <1>12, <1>17, <2>1
  <2>6. \A i \in 1..Len(text) :
          c - 1 = m \/ i < hits[(c - 1) + 1].start => Holds(now, i, text[i], 1)
    BY <1>17, <2>2, <2>4
  <2>7. \A k \in ((c - 1) + 1)..m : \A j \in 1..Len(new) :
          Holds(now, hits[k].start + (k - (c - 1) - 1) * longer + j - 1, new[j],
                hits[(c - 1) + 1].start)
    BY <1>15, <2>2, <2>3
  <2>8. \A k \in ((c - 1) + 1)..m : \A i \in 1..Len(text) :
          Between(hits, k, i)
            => Holds(now, i + (k - (c - 1)) * longer, text[i], hits[(c - 1) + 1].start)
    BY <1>16, <2>2, <2>3
  <2>9. put.last = hits[(c - 1) + 1].start
    BY <2>1, <2>2
  <2> QED BY <1>1, <2>1, <2>5, <2>6, <2>7, <2>8, <2>9 DEF PartRewritten
<1>19. put = [text |-> now, last |-> start]
  <2>1. put = [text |-> SubSeq(was, 1, start - 1) \o new \o SubSeq(was, end, Len(was)),
               last |-> start]
    BY <1>2, <1>3, <1>7, <1>8 DEF Put
  <2> QED BY <1>9, <2>1
<1> QED BY <1>2, <1>8, <1>10, <1>18, <1>19

\* The replacements of a text, done from right to left so that positions stay valid, rewrite
\* every hit and nothing else: what stood between two hits stands between their replacements.
THEOREM ReplacementsAreExact ==
  ASSUME NEW text \in Seq(STRING), NEW old \in Seq(STRING), old # <<>>, NEW new \in Seq(STRING)
  PROVE  LET hits == Hits(text, old)
             all == ApplyReplacements(text, hits, new)
             longer == Len(new) - Len(old)
         IN /\ Len(all) = Len(text) + Len(hits) * longer
            /\ \A k \in 1..Len(hits) : \A j \in 1..Len(new) :
                 all[hits[k].start + (k - 1) * longer + j - 1] = new[j]
            /\ \A k \in 0..Len(hits) : \A i \in 1..Len(text) :
                 Between(hits, k, i) => all[i + k * longer] = text[i]
<1>1. Len(text) \in Nat /\ Len(old) \in Nat \ {0}
  BY EmptySeq
<1>2. PICK hits, all, longer, n :
        /\ hits = Hits(text, old) /\ all = ApplyReplacements(text, hits, new)
        /\ longer = Len(new) - Len(old) /\ n = Len(old)
  OBVIOUS
<1>3. /\ hits \in Seq(Hit) /\ Len(hits) \in Nat /\ DOMAIN hits = 1..Len(hits)
      /\ longer \in Int /\ n \in Nat \ {0}
  <2>1. hits \in Seq(Hit)
    BY <1>1, <1>2, HitsType
  <2> QED BY <1>1, <1>2, <2>1, LenProperties
<1>4. PICK m \in Nat : m = Len(hits)
  BY <1>3, Zenon
<1>5. Disjoint(hits, text, n)
  <2>1. /\ \A k \in 1..m : /\ StandsAt(text, old, hits[k].start)
                           /\ hits[k].end = hits[k].start + n
        /\ \A k \in 2..m : hits[k - 1].end <= hits[k].start
    BY <1>1, <1>2, <1>3, <1>4, HitsAreExact
  <2>2. \A k \in 1..m : 1 <= hits[k].start /\ hits[k].start + n <= Len(text) + 1
    BY <1>2, <2>1 DEF StandsAt
  <2> QED BY <1>4, <2>1, <2>2 DEF Disjoint
<1>6. PICK after : PutsInTurn(after, text, hits, new) /\ all = after[m].text
  BY <1>2, <1>3, <1>4, ReplacementsRun
<1> DEFINE T == [text : Seq(STRING), last : Int]
           D == [i \in 0..m |-> {left \in T : PartRewritten(left, m - i, text, hits, new, longer)}]
<1>7. /\ 0 \in 0..m /\ m \in 0..m /\ m - 0 = m /\ m - m = 0
      /\ \A i \in 1..m : /\ i \in 0..m /\ i - 1 \in 0..m /\ m - (i - 1) \in 1..m
                         /\ (m - (i - 1)) - 1 = m - i /\ m + 1 - i = m - (i - 1)
  BY <1>4
<1>8. after[0] \in D[0]
  <2>1. PICK left : left = [text |-> text, last |-> Len(text) + 2]
    OBVIOUS
  <2>2. left \in T /\ left.text = text /\ left.last = Len(text) + 2
    BY <1>1, <2>1
  <2>3. (m - m) * longer = 0
    BY <1>3, <1>7, OneMore
  <2>4. (m + 1)..m = {} /\ ~(m < m)
    BY <1>4
  <2>5. PartRewritten(left, m, text, hits, new, longer)
    BY <1>1, <1>4, <2>2, <2>3, <2>4 DEF PartRewritten, Holds
  <2>6. after[0] = left
    BY <1>6, <2>1 DEF PutsInTurn
  <2> QED BY <1>7, <2>2, <2>5, <2>6
<1>9. ASSUME NEW i \in 1..m, after[i - 1] \in D[i - 1]  PROVE after[i] \in D[i]
  <2>1. PICK c \in 1..m : c = m - (i - 1) /\ c - 1 = m - i /\ m + 1 - i = c
    BY <1>7
  <2>2. after[i - 1] \in T /\ PartRewritten(after[i - 1], c, text, hits, new, longer)
    BY <1>7, <1>9, <2>1
  <2>3. longer = Len(new) - n /\ c \in 1..Len(hits) /\ n \in Nat \ {0} /\ hits \in Seq(Hit)
    BY <1>2, <1>3, <1>4
  <2>4. PICK put : put = Put(after[i - 1], hits[c], new)
    OBVIOUS
  <2>5. PartRewritten(put, c - 1, text, hits, new, longer) /\ put \in T
    BY <1>5, <2>2, <2>3, <2>4, PutRewrites
  <2>6. after[i] = put
    BY <1>4, <1>6, <2>1, <2>4 DEF PutsInTurn
  <2> QED BY <1>7, <2>1, <2>5, <2>6
<1>10. PartRewritten(after[m], 0, text, hits, new, longer)
  <2> HIDE DEF D
  <2>1. \A i \in 0..m : after[i] \in D[i]
    BY <1>4, <1>8, <1>9, UpTo
  <2> QED BY <1>7, <2>1 DEF D
<1>11. Len(all) = Len(text) + m * longer
  BY <1>4, <1>6, <1>10 DEF PartRewritten
<1>12. ASSUME NEW k \in 1..m, NEW j \in 1..Len(new)
       PROVE  all[hits[k].start + (k - 1) * longer + j - 1] = new[j]
  <2>1. k - 0 - 1 = k - 1 /\ k \in (0 + 1)..m
    BY <1>4
  <2>2. Holds(after[m].text, hits[k].start + (k - 0 - 1) * longer + j - 1, new[j],
              hits[0 + 1].start)
    BY <1>4, <1>10, <2>1 DEF PartRewritten
  <2> QED BY <1>6, <2>1, <2>2 DEF Holds
<1>13. ASSUME NEW k \in 0..m, NEW i \in 1..Len(text), Between(hits, k, i)
       PROVE  all[i + k * longer] = text[i]
  <2>1. CASE k = 0
    <3>1. 0 = m \/ i < hits[0 + 1].start
      BY <1>4, <1>13, <2>1 DEF Between
    <3>2. Holds(after[m].text, i, text[i], 1)
      BY <1>4, <1>10, <3>1 DEF PartRewritten
    <3>3. i + k * longer = i
      BY <1>1, <1>3, <2>1, OneMore
    <3> QED BY <1>6, <3>2, <3>3 DEF Holds
  <2>2. CASE k # 0
    <3>1. k \in (0 + 1)..m /\ k - 0 = k
      BY <1>4, <2>2
    <3>2. Holds(after[m].text, i + (k - 0) * longer, text[i], hits[0 + 1].start)
      BY <1>4, <1>10, <1>13, <3>1 DEF PartRewritten
    <3> QED BY <1>6, <3>1, <3>2 DEF Holds
  <2> QED BY <2>1, <2>2
<1> QED BY <1>2, <1>4, <1>11, <1>12, <1>13

\* The recursive function that AllReplaced defines.
ReplacesAll(after, text) ==
  after = [n \in 0..Len(Settings.replacements) |->
             IF n = 0 THEN text
             ELSE LET old == Settings.replacements[n][1]
                      new == Settings.replacements[n][2]
                      t == after[n - 1]
                  IN IF old = <<>> THEN t ELSE ApplyReplacements(t, Hits(t, old), new)]

\* One replacement of AllReplaced.
Replace(t, n) ==
  LET old == Settings.replacements[n][1]
      new == Settings.replacements[n][2]
  IN IF old = <<>> THEN t ELSE ApplyReplacements(t, Hits(t, old), new)

LEMMA ReplaceType ==
  ASSUME NEW t \in Seq(STRING), NEW n \in 1..Len(Settings.replacements)
  PROVE  Replace(t, n) \in Seq(STRING)
<1>1. PICK old, new : /\ old = Settings.replacements[n][1] /\ old \in Seq(STRING)
                      /\ new = Settings.replacements[n][2] /\ new \in Seq(STRING)
  <2>1. Settings.replacements[n] \in Seq(STRING) \X Seq(STRING)
    BY TextAssumption
  <2> QED BY <2>1
<1>2. Replace(t, n) = IF old = <<>> THEN t ELSE ApplyReplacements(t, Hits(t, old), new)
  BY <1>1 DEF Replace
<1>3. CASE old = <<>>
  BY <1>2, <1>3
<1>4. CASE old # <<>>
  <2>1. Len(t) \in Nat /\ Len(old) \in Nat \ {0}
    BY <1>1, <1>4, EmptySeq
  <2>2. Hits(t, old) \in Seq(Hit)
    BY <2>1, HitsType
  <2> QED BY <1>1, <1>2, <1>4, <2>2, ApplyReplacementsType
<1> QED BY <1>3, <1>4

LEMMA AllReplacedType ==
  ASSUME NEW text \in Seq(STRING)
  PROVE  AllReplaced(text) \in Seq(STRING)
<1> DEFINE m == Len(Settings.replacements)
           T == Seq(STRING)
           step == [x \in T \X (1..m) |-> Replace(x[1], x[2])]
<1>1. m \in Nat /\ text \in T
  BY TextAssumption
<1>2. \A t \in T, i \in 1..m : Replace(t, i) \in T
  BY ReplaceType
<1>3. step \in [T \X (1..m) -> T]
  BY <1>2
<1>4. \A t \in T, i \in 1..m : step[t, i] = Replace(t, i)
  OBVIOUS
<1> HIDE DEF m, T, step
<1>5. \E after : after = [n \in 0..m |-> IF n = 0 THEN text ELSE Replace(after[n - 1], n)]
  <2>1. PICK f \in [0..m -> T] : Runs(f, text, step, m)
    BY <1>1, <1>3, Recursion
  <2>2. \A n \in 0..m : n = 0 \/ (n \in 1..m /\ n - 1 \in 0..m)
    BY <1>1
  <2>3. \A n \in 0..m : f[n] = IF n = 0 THEN text ELSE Replace(f[n - 1], n)
    BY <1>4, <2>1, <2>2 DEF Runs
  <2>4. f = [n \in 0..m |-> IF n = 0 THEN text ELSE Replace(f[n - 1], n)]
    BY <2>3
  <2> QED BY <2>4
<1>6. PICK after : /\ after = [n \in 0..m |-> IF n = 0 THEN text ELSE Replace(after[n - 1], n)]
                   /\ AllReplaced(text) = after[m]
  <2> DEFINE f == CHOOSE f : ReplacesAll(f, text)
  <2>1. \E g : ReplacesAll(g, text)
    BY <1>5, Zenon DEF ReplacesAll, Replace, m
  <2>2. ReplacesAll(f, text) /\ AllReplaced(text) = f[m]
    BY <2>1, Zenon DEF AllReplaced, ReplacesAll, m
  <2>3. f = [n \in 0..m |-> IF n = 0 THEN text ELSE Replace(f[n - 1], n)]
    BY <2>2, Zenon DEF ReplacesAll, Replace, m
  <2> HIDE DEF f
  <2> QED BY <2>2, <2>3
<1>7. after[0] = text /\ \A i \in 1..m : after[i] = Replace(after[i - 1], i)
  <2>1. 0 \in 0..m /\ \A i \in 1..m : i \in 0..m /\ i # 0
    BY <1>1
  <2> QED BY <1>6, <2>1
<1> DEFINE D == [i \in 0..m |-> T]
<1>8. \A i \in 0..m : after[i] \in D[i]
  <2>1. 0 \in 0..m /\ \A i \in 1..m : i \in 0..m /\ i - 1 \in 0..m
    BY <1>1
  <2>2. after[0] \in D[0]
    BY <1>1, <1>7, <2>1
  <2>3. ASSUME NEW i \in 1..m, after[i - 1] \in D[i - 1]  PROVE after[i] \in D[i]
    BY <1>2, <1>7, <2>1, <2>3
  <2> HIDE DEF D
  <2> QED BY <1>1, <2>2, <2>3, UpTo
<1>9. after[m] \in T
  <2>1. m \in 0..m
    BY <1>1
  <2> QED BY <1>8, <2>1
<1> QED BY <1>6, <1>9 DEF T

LEMMA TruncatedType ==
  ASSUME NEW text \in Seq(STRING), NEW limit \in Nat
  PROVE  Truncated(text, limit) \in Seq(STRING)
<1>1. CASE Len(text) <= limit
  BY <1>1 DEF Truncated
<1>2. CASE ~(Len(text) <= limit)
  <2>1. \A i \in 1..(limit - 1) : text[i] \in STRING
    BY <1>2
  <2>2. SubSeq(text, 1, limit - 1) \in Seq(STRING)
    BY <2>1, SubSeqProperties
  <2>3. SubSeq(text, 1, limit - 1) \o Ellipsis \in Seq(STRING)
    BY <2>2, TextAssumption, ConcatProperties
  <2> QED BY <1>2, <2>3 DEF Truncated
<1> QED BY <1>1, <1>2

\* What the first processors leave of a message is a text.
LEMMA ReplacedType ==
  ASSUME NEW m \in Message
  PROVE  TextReplaced(Content[m]).text \in Seq(STRING)
<1>1. PICK c : /\ c = Content[m] /\ c.text \in Seq(STRING) /\ "text" \in DOMAIN c
  BY RuleAssumption
<1>2. CASE Settings.replacements = <<>>
  BY <1>1, <1>2 DEF TextReplaced
<1>3. CASE Settings.replacements # <<>>
  <2>1. PICK kept : kept = Truncated(AllReplaced(c.text), Limit(c.type))
    OBVIOUS
  <2>2. TextReplaced(c).text = kept
    BY <1>1, <1>3, <2>1 DEF TextReplaced
  <2>3. Limit(c.type) \in Nat
    BY TextAssumption DEF Limit
  <2> QED BY <1>1, <2>1, <2>2, <2>3, AllReplacedType, TruncatedType
<1> QED BY <1>2, <1>3

LEMMA FilteredType ==
  ASSUME NEW m \in Message
  PROVE  LinkFiltered(TextReplaced(Content[m])) \in Seq(STRING)
<1>1. PICK r : r = TextReplaced(Content[m]) /\ r.text \in Seq(STRING)
  BY ReplacedType
<1>2. \A I : Picked(r.text, I) \in Seq(STRING)
  BY <1>1, PickedFacts
<1> QED BY <1>1, <1>2 DEF LinkFiltered

-----------------------------------------------------------------------------
(* Where a rule of the database hits.                                      *)

LEMMA LoweredLength ==
  ASSUME NEW text \in Seq(STRING)
  PROVE  Len(Lowered(text)) = Len(text)
<1> DEFINE S == {Lower[x] : x \in STRING}
<1>1. Len(text) \in Nat /\ DOMAIN text = 1..Len(text) /\ \A i \in 1..Len(text) : text[i] \in STRING
  OBVIOUS
<1>2. Lowered(text) \in [1..Len(text) -> S]
  BY <1>1 DEF Lowered
<1> HIDE DEF S
<1>3. Lowered(text) \in Seq(S)
  BY <1>1, <1>2, SeqDef
<1> QED BY <1>1, <1>2, <1>3, LenProperties

LEMMA MatchesType ==
  ASSUME NEW text \in Seq(STRING), NEW d, d.pattern \in Seq(STRING), d.pattern # <<>>, NEW slow
  PROVE  Matches(text, d, slow) \in Seq(Hit)
<1> DEFINE Cased(t) == IF d.caseSensitive THEN t ELSE Lowered(t)
           hay == Cased(text)
           needle == Cased(d.pattern)
           n == Len(needle)
           Whole(h) == /\ h.start = 1 \/ text[h.start - 1] \notin WordSymbol
                       /\ h.end > Len(text) \/ text[h.end] \notin WordSymbol
           Keep(h) == d.wholeWord => Whole(h)
           Kept(hits) == Picked(hits, {k \in DOMAIN hits : Keep(hits[k])})
           One(ok, i, j) == IF ok THEN Kept(<<[start |-> i, end |-> j]>>) ELSE <<>>
           equal == One(hay = needle, 1, Len(text) + 1)
           first == One(IsPrefix(needle, hay), 1, n + 1)
           last == One(IsSuffix(needle, hay), Len(text) - n + 1, Len(text) + 1)
           any == Kept(Hits(hay, needle))
<1>1. Matches(text, d, slow) =
        IF text = <<>> THEN <<>>
        ELSE IF UsesRegex(d)
             THEN IF d.id \in slow THEN <<>> ELSE Hits(hay, needle)
        ELSE CASE d.match = "equals" -> equal
               [] d.match = "starts_with" -> first
               [] d.match = "ends_with" -> last
               [] OTHER -> any
  BY Zenon DEF Matches
<1>2. Len(hay) = Len(text) /\ n = Len(d.pattern)
  BY LoweredLength
<1>3. Len(text) \in Nat /\ n \in Nat \ {0}
  BY <1>2, EmptySeq
<1>4. Hits(hay, needle) \in Seq(Hit)
  BY <1>2, <1>3, HitsType
<1>5. \A hits \in Seq(Hit) : Kept(hits) \in Seq(Hit)
  BY PickedFacts
<1>6. <<>> \in Seq(Hit) /\ \A h \in Hit : <<h>> \in Seq(Hit)
  OBVIOUS
<1> HIDE DEF Kept, hay, needle, n
<1>7. \A ok, i, j : [start |-> i, end |-> j] \in Hit => One(ok, i, j) \in Seq(Hit)
  BY <1>5, <1>6
<1>8. any \in Seq(Hit)
  BY <1>4, <1>5
<1> HIDE DEF One, any
<1>9. ASSUME text # <<>>  PROVE equal \in Seq(Hit) /\ first \in Seq(Hit) /\ last \in Seq(Hit)
  <2>1. Len(text) # 0
    BY <1>9, EmptySeq
  <2>2. /\ [start |-> 1, end |-> Len(text) + 1] \in Hit
        /\ [start |-> 1, end |-> n + 1] \in Hit
        /\ [start |-> Len(text) - n + 1, end |-> Len(text) + 1] \in Hit
    BY <1>3, <2>1 DEF Hit
  <2> QED BY <1>7, <2>2
<1> HIDE DEF equal, first, last
<1> QED BY <1>1, <1>4, <1>6, <1>8, <1>9

-----------------------------------------------------------------------------
(* The order of the rules.                                                 *)

\* What the engine is given: finitely many rules, told apart by their ids.
Definitions(R) ==
  /\ IsFiniteSet(R)
  /\ \A d \in R : /\ d.id \in RuleId /\ d.priority \in Int /\ d.stop \in BOOLEAN
                  /\ d.pattern \in Seq(STRING) /\ d.replacement \in Seq(STRING)
  /\ \A d, e \in R : d.id = e.id => d = e

LEMMA BeforeIsTotal ==
  ASSUME NEW R, Definitions(R)
  PROVE  /\ \A d \in R : ~Before(d, d)
         /\ \A d, e \in R : d # e => Before(d, e) \/ Before(e, d)
         /\ \A d, e, c \in R : Before(d, e) /\ Before(e, c) => Before(d, c)
         /\ \A d, e \in R : Before(d, e) => ~Before(e, d)
<1>1. \A d \in R : d.id \in Nat /\ d.priority \in Int
  BY RuleAssumption DEF Definitions
<1>2. \A d, e \in R : d # e => d.id # e.id
  BY DEF Definitions
<1> QED BY <1>1, <1>2 DEF Before

\* One rule of several comes after the others.
LEMMA LastExists ==
  ASSUME NEW R, Definitions(R), NEW n \in Nat, NEW Q \in SUBSET R, Cardinality(Q) = n + 1
  PROVE  \E e \in Q : \A d \in Q \ {e} : Before(d, e)
<1> DEFINE HasLast(P) == \E e \in P : \A d \in P \ {e} : Before(d, e)
           S == {k \in Nat : \A P \in SUBSET R : Cardinality(P) = k + 1 => HasLast(P)}
<1>0. \A P \in SUBSET R : IsFiniteSet(P)
  BY FS_Subset DEF Definitions
<1>1. 0 \in S
  <2>1. ASSUME NEW P \in SUBSET R, Cardinality(P) = 0 + 1  PROVE HasLast(P)
    <3>1. PICK e : P = {e}
      BY <1>0, <2>1, FS_Singleton
    <3> QED BY <3>1
  <2> HIDE DEF HasLast
  <2> QED BY <2>1
<1> HIDE DEF S
<1>2. ASSUME NEW k \in S  PROVE k + 1 \in S
  <2>1. k \in Nat /\ \A P \in SUBSET R : Cardinality(P) = k + 1 => HasLast(P)
    BY DEF S
  <2>2. ASSUME NEW P \in SUBSET R, Cardinality(P) = (k + 1) + 1  PROVE HasLast(P)
    <3>1. IsFiniteSet(P) /\ Cardinality(P) # 0
      BY <1>0, <2>1, <2>2
    <3>2. PICK x \in P : TRUE
      BY <3>1, FS_EmptySet
    <3>3. Cardinality(P \ {x}) = k + 1
      <4>1. Cardinality(P \ {x}) = Cardinality(P) - 1
        BY <3>1, <3>2, FS_RemoveElement
      <4> QED BY <2>1, <2>2, <4>1
    <3>4. PICK e \in P \ {x} : \A d \in (P \ {x}) \ {e} : Before(d, e)
      BY <2>1, <3>3
    <3>5. /\ Before(x, e) \/ Before(e, x)
          /\ \A d, c \in P : Before(d, e) /\ Before(e, c) => Before(d, c)
      BY <3>2, <3>4, BeforeIsTotal
    <3>6. CASE Before(x, e)
      BY <3>2, <3>4, <3>6
    <3>7. CASE Before(e, x)
      <4>1. \A d \in P \ {x} : Before(d, x)
        BY <3>2, <3>4, <3>5, <3>7
      <4> QED BY <3>2, <4>1
    <3> QED BY <3>5, <3>6, <3>7
  <2> HIDE DEF HasLast
  <2> QED BY <2>1, <2>2 DEF S
<1>3. S \subseteq Nat
  BY DEF S
<1>4. n \in S
  BY <1>1, <1>2, <1>3, Induction
<1> QED BY <1>4 DEF S

Sorts(l, Q, n) ==
  l \in [1..n -> Q] /\ \A i, j \in 1..n : i < j => Before(l[i], l[j])

LEMMA SortExists ==
  ASSUME NEW R, Definitions(R), NEW n \in Nat, NEW Q \in SUBSET R, Cardinality(Q) = n
  PROVE  \E l : Sorts(l, Q, n)
<1> DEFINE S == {k \in Nat : \A P \in SUBSET R : Cardinality(P) = k => \E l : Sorts(l, P, k)}
<1>0. \A P \in SUBSET R : IsFiniteSet(P)
  BY FS_Subset DEF Definitions
<1>1. 0 \in S
  <2>1. ASSUME NEW P \in SUBSET R  PROVE Sorts([i \in 1..0 |-> P], P, 0)
    BY DEF Sorts
  <2> QED BY <2>1
<1> HIDE DEF S
<1>2. ASSUME NEW k \in S  PROVE k + 1 \in S
  <2>1. k \in Nat /\ \A P \in SUBSET R : Cardinality(P) = k => \E l : Sorts(l, P, k)
    BY DEF S
  <2>2. ASSUME NEW P \in SUBSET R, Cardinality(P) = k + 1  PROVE \E l : Sorts(l, P, k + 1)
    <3>1. PICK e \in P : \A d \in P \ {e} : Before(d, e)
      BY <2>1, <2>2, LastExists
    <3>2. Cardinality(P \ {e}) = k
      <4>1. Cardinality(P \ {e}) = Cardinality(P) - 1
        BY <1>0, <3>1, FS_RemoveElement
      <4> QED BY <2>1, <2>2, <4>1
    <3>3. PICK l : Sorts(l, P \ {e}, k)
      BY <2>1, <3>2
    <3> DEFINE more == [i \in 1..(k + 1) |-> IF i = k + 1 THEN e ELSE l[i]]
    <3>4. \A i \in 1..(k + 1) : i = k + 1 \/ i \in 1..k
      BY <2>1
    <3>5. \A i \in 1..k : l[i] \in P \ {e}
      BY <3>3 DEF Sorts
    <3>6. more \in [1..(k + 1) -> P]
      BY <3>1, <3>4, <3>5
    <3>7. more[k + 1] = e /\ \A i \in 1..k : more[i] = l[i]
      BY <2>1
    <3> HIDE DEF more
    <3>8. ASSUME NEW i \in 1..(k + 1), NEW j \in 1..(k + 1), i < j
          PROVE  Before(more[i], more[j])
      <4>1. i \in 1..k /\ (j = k + 1 \/ j \in 1..k)
        BY <2>1, <3>8
      <4>2. CASE j = k + 1
        BY <3>1, <3>5, <3>7, <4>1, <4>2
      <4>3. CASE j \in 1..k
        BY <3>3, <3>7, <3>8, <4>1, <4>3 DEF Sorts
      <4> QED BY <4>1, <4>2, <4>3
    <3> QED BY <3>6, <3>8 DEF Sorts
  <2> QED BY <2>1, <2>2 DEF S
<1>3. S \subseteq Nat
  BY DEF S
<1>4. n \in S
  BY <1>1, <1>2, <1>3, Induction
<1> QED BY <1>4 DEF S

\* Ordered lists every rule once, in the order in which rules are applied.
LEMMA OrderedFacts ==
  ASSUME NEW R, Definitions(R)
  PROVE  /\ Ordered(R) \in Seq(R) /\ Len(Ordered(R)) \in Nat
         /\ \A i, j \in 1..Len(Ordered(R)) :
              /\ i < j <=> Before(Ordered(R)[i], Ordered(R)[j])
              /\ Ordered(R)[i] = Ordered(R)[j] => i = j
         /\ \A d \in R : \E i \in 1..Len(Ordered(R)) : Ordered(R)[i] = d
<1> DEFINE n == Cardinality(R)
           l == Ordered(R)
<1>1. n \in Nat /\ R \in SUBSET R
  BY FS_CardinalityType DEF Definitions
<1>2. \E f \in [1..n -> R] : \A i, j \in DOMAIN f : i < j => Before(f[i], f[j])
  <2>1. PICK f : Sorts(f, R, n)
    BY <1>1, SortExists
  <2> HIDE DEF n
  <2> QED BY <2>1 DEF Sorts
<1>3. l \in [1..n -> R] /\ \A i, j \in DOMAIN l : i < j => Before(l[i], l[j])
  BY <1>2 DEF Ordered
<1> HIDE DEF l, n
<1>4. l \in Seq(R) /\ Len(l) = n /\ DOMAIN l = 1..n
  <2>1. l \in Seq(R)
    BY <1>1, <1>3, SeqDef
  <2> QED BY <1>1, <1>3, <2>1, LenProperties
<1>5. ASSUME NEW i \in 1..n, NEW j \in 1..n
      PROVE  (i < j <=> Before(l[i], l[j])) /\ (l[i] = l[j] => i = j)
  <2>1. i < j \/ j < i \/ i = j
    OBVIOUS
  <2>2. l[i] \in R /\ l[j] \in R
    BY <1>3
  <2>3. (i < j => Before(l[i], l[j])) /\ (j < i => Before(l[j], l[i]))
    BY <1>3
  <2> QED BY <1>3, <2>1, <2>2, BeforeIsTotal
<1>6. ASSUME NEW d \in R  PROVE \E i \in 1..n : l[i] = d
  <2>1. l \in Injection(1..n, R)
    BY <1>3, <1>5 DEF Injection, IsInjective
  <2>2. Cardinality(1..n) = Cardinality(R)
    <3>1. Cardinality(1..n) = IF 1 > n THEN 0 ELSE n - 1 + 1
      BY <1>1, FS_Interval
    <3> QED BY <1>1, <3>1 DEF n
  <2>3. l \in Surjection(1..n, R)
    BY <2>1, <2>2, FS_Injection DEF Definitions
  <2> QED BY <2>3 DEF Surjection
<1> QED BY <1>1, <1>4, <1>5, <1>6 DEF l

-----------------------------------------------------------------------------
(* The engine.                                                             *)

HitCount == [rule : RuleId, count : Nat]

Applied ==
  [text : Seq(STRING), hits : Seq(HitCount), errors : SUBSET RuleId, review : BOOLEAN,
   reject : BOOLEAN, done : BOOLEAN]

Found(text, d, m, slow) ==
  IF d.type = "has_media" THEN MediaHits(d, m.type, m.count) ELSE Matches(text, d, slow)

Stops(d) == d.stop \/ d.action = "reject"

LEMMA FoundType ==
  ASSUME NEW text \in Seq(STRING), NEW d, d.pattern \in Seq(STRING), ValidRule(d), NEW m, NEW slow
  PROVE  Found(text, d, m, slow) \in Seq(Hit)
<1>1. CASE d.type = "has_media"
  <2>1. [start |-> 1, end |-> 1] \in Hit
    BY DEF Hit
  <2>2. <<[start |-> 1, end |-> 1]>> \in Seq(Hit) /\ <<>> \in Seq(Hit)
    BY <2>1
  <2> QED BY <1>1, <2>2 DEF Found, MediaHits
<1>2. CASE d.type # "has_media"
  BY <1>2, MatchesType DEF Found, ValidRule
<1> QED BY <1>1, <1>2

LEMMA RewrittenType ==
  ASSUME NEW text \in Seq(STRING), NEW hits \in Seq(Hit), NEW d, d.replacement \in Seq(STRING)
  PROVE  Rewritten(text, hits, d) \in Seq(STRING)
<1>1. /\ ApplyReplacements(text, hits, d.replacement) \in Seq(STRING)
      /\ ApplyReplacements(text, hits, <<>>) \in Seq(STRING)
  <2>1. <<>> \in Seq(STRING)
    OBVIOUS
  <2> QED BY <2>1, ApplyReplacementsType
<1> QED BY <1>1 DEF Rewritten

\* What one rule does when it does not hit, and when it does.
NoHit(acc, d, m, found, next) ==
  /\ next.text = acc.text /\ next.hits = acc.hits /\ next.done = acc.done
  /\ next.review = acc.review /\ next.reject = acc.reject
  /\ acc.done \/ ~RuleApplies(d, m) \/ ~ValidRule(d) \/ found = <<>>

Hitting(acc, d, found, next) ==
  /\ ~acc.done
  /\ next.text = Rewritten(acc.text, found, d)
  /\ next.hits = Append(acc.hits, [rule |-> d.id, count |-> Len(found)])
  /\ next.review = (acc.review \/ d.action = "require_review")
  /\ next.reject = (d.action = "reject")
  /\ next.done = Stops(d)

LEMMA EngineStepIs ==
  ASSUME NEW acc \in Applied, NEW R, Definitions(R), NEW d \in R, NEW m, NEW slow,
         NEW next, next = EngineStep(acc, d, m, slow),
         NEW found, found = Found(acc.text, d, m, slow)
  PROVE  next \in Applied /\ (NoHit(acc, d, m, found, next) \/ Hitting(acc, d, found, next))
<1>0. /\ acc.text \in Seq(STRING) /\ acc.hits \in Seq(HitCount) /\ acc.errors \in SUBSET RuleId
      /\ d.id \in RuleId /\ d.pattern \in Seq(STRING) /\ d.replacement \in Seq(STRING)
      /\ d.stop \in BOOLEAN
  BY DEF Applied, Definitions
<1>1. CASE acc.done \/ ~RuleApplies(d, m)
  <2>1. next = acc
    BY <1>1, Zenon DEF EngineStep
  <2> QED BY <1>1, <2>1, Zenon DEF NoHit
<1>2. CASE ~(acc.done \/ ~RuleApplies(d, m)) /\ ~ValidRule(d)
  <2>1. next = [acc EXCEPT !.errors = acc.errors \cup {d.id}]
    BY <1>2, Zenon DEF EngineStep
  <2>2. next \in Applied
    BY <1>0, <2>1 DEF Applied
  <2>3. /\ next.text = acc.text /\ next.hits = acc.hits /\ next.done = acc.done
        /\ next.review = acc.review /\ next.reject = acc.reject
    BY <2>1 DEF Applied
  <2> QED BY <1>2, <2>2, <2>3, Zenon DEF NoHit
<1>3. CASE ~(acc.done \/ ~RuleApplies(d, m)) /\ ValidRule(d) /\ found = <<>>
  <2>1. next = acc
    BY <1>3, Zenon DEF EngineStep, Found
  <2> QED BY <1>3, <2>1, Zenon DEF NoHit
<1>4. CASE ~(acc.done \/ ~RuleApplies(d, m)) /\ ValidRule(d) /\ found # <<>>
  <2>1. found \in Seq(Hit)
    BY <1>0, <1>4, FoundType
  <2>2. PICK hits, text, review, reject, done :
          /\ hits = Append(acc.hits, [rule |-> d.id, count |-> Len(found)])
          /\ text = Rewritten(acc.text, found, d)
          /\ review = (acc.review \/ d.action = "require_review")
          /\ reject = (d.action = "reject") /\ done = (d.stop \/ d.action = "reject")
    OBVIOUS
  <2>3. next = [acc EXCEPT !.text = text, !.hits = hits, !.review = review, !.reject = reject,
                           !.done = done]
    BY <1>4, <2>2, Zenon DEF EngineStep, Found
  <2>4. text \in Seq(STRING) /\ hits \in Seq(HitCount)
    <3>1. [rule |-> d.id, count |-> Len(found)] \in HitCount
      BY <1>0, <2>1 DEF HitCount
    <3> QED BY <1>0, <2>1, <2>2, <3>1, RewrittenType, AppendProperties
  <2>5. review \in BOOLEAN /\ reject \in BOOLEAN /\ done \in BOOLEAN
    BY <2>2
  <2>6. next \in Applied
    BY <2>3, <2>4, <2>5 DEF Applied
  <2>7. /\ next.text = text /\ next.hits = hits /\ next.review = review
        /\ next.reject = reject /\ next.done = done
    BY <2>3 DEF Applied
  <2> QED BY <1>4, <2>2, <2>6, <2>7, Zenon DEF Hitting, Stops
<1> QED BY <1>1, <1>2, <1>3, <1>4

\* The recursive function that ApplyRules defines.
Applies(after, R, text, m, slow) ==
  LET order == Ordered(R) IN
  after = [n \in 0..Len(order) |->
             IF n = 0 THEN NothingApplied(text) ELSE EngineStep(after[n - 1], order[n], m, slow)]

LEMMA AppliesExists ==
  ASSUME NEW R, Definitions(R), NEW text \in Seq(STRING), NEW m, NEW slow
  PROVE  \E after : /\ Applies(after, R, text, m, slow)
                    /\ ApplyRules(R, text, m, slow) = after[Len(Ordered(R))]
<1> DEFINE order == Ordered(R)
           k == Len(order)
           none == NothingApplied(text)
           step == [x \in Applied \X (1..k) |-> EngineStep(x[1], order[x[2]], m, slow)]
<1>1. k \in Nat /\ \A n \in 1..k : order[n] \in R
  BY OrderedFacts
<1>2. none \in Applied
  <2>1. <<>> \in Seq(HitCount) /\ {} \in SUBSET RuleId
    OBVIOUS
  <2> QED BY <2>1 DEF NothingApplied, Applied
<1>3. \A acc \in Applied, n \in 1..k : EngineStep(acc, order[n], m, slow) \in Applied
  BY <1>1, EngineStepIs
<1>4. step \in [Applied \X (1..k) -> Applied]
  BY <1>3
<1>5. \A acc \in Applied, n \in 1..k : step[acc, n] = EngineStep(acc, order[n], m, slow)
  OBVIOUS
<1> HIDE DEF k, none, step
<1>6. \E after : after = [n \in 0..k |-> IF n = 0 THEN none
                                         ELSE EngineStep(after[n - 1], order[n], m, slow)]
  <2>1. PICK f \in [0..k -> Applied] : Runs(f, none, step, k)
    BY <1>1, <1>2, <1>4, Recursion
  <2>2. \A n \in 0..k : n = 0 \/ (n \in 1..k /\ n - 1 \in 0..k)
    BY <1>1
  <2>3. \A n \in 0..k : f[n] = IF n = 0 THEN none ELSE EngineStep(f[n - 1], order[n], m, slow)
    BY <1>5, <2>1, <2>2 DEF Runs
  <2>4. f = [n \in 0..k |-> IF n = 0 THEN none ELSE EngineStep(f[n - 1], order[n], m, slow)]
    BY <2>3
  <2> QED BY <2>4
<1> DEFINE f == CHOOSE f : Applies(f, R, text, m, slow)
<1>7. \E g : Applies(g, R, text, m, slow)
  BY <1>6, Zenon DEF Applies, k, none
<1>8. Applies(f, R, text, m, slow) /\ ApplyRules(R, text, m, slow) = f[k]
  BY <1>7, Zenon DEF ApplyRules, Applies, k
<1> QED BY <1>8, Zenon DEF k

\* Hit k is one of the rule at position j.
HitAt(hits, R, k, j) == hits[k].rule = Ordered(R)[j].id

\* The rules up to position n were applied: those that hit are in order, and a rule
\* stops the others when it is the last that hit and the engine is done.
HitsInOrder(acc, R, n) ==
  /\ \A k \in 1..Len(acc.hits) : \E j \in 1..n : HitAt(acc.hits, R, k, j)
  /\ \A k, l \in 1..Len(acc.hits) : \A i, j \in 1..n :
       k < l /\ HitAt(acc.hits, R, k, i) /\ HitAt(acc.hits, R, l, j) => i < j
  /\ \A k \in 1..Len(acc.hits), j \in 1..n :
       HitAt(acc.hits, R, k, j) =>
         (Stops(Ordered(R)[j]) <=> acc.done /\ k = Len(acc.hits))
  /\ acc.done => acc.hits # <<>>

\* The last hit rejects, any hit asks for a review.
MarksOfHits(acc, R, n) ==
  /\ acc.reject <=> \E j \in 1..n : /\ acc.hits # <<>>
                                     /\ HitAt(acc.hits, R, Len(acc.hits), j)
                                     /\ Ordered(R)[j].action = "reject"
  /\ acc.review <=> \E k \in 1..Len(acc.hits), j \in 1..n :
       HitAt(acc.hits, R, k, j) /\ Ordered(R)[j].action = "require_review"

\* A rule that did not hit a text that nothing rewrote does not match it, unless another
\* one stopped the engine in front of it.
OthersDoNotMatch(acc, R, text, m, slow, n) ==
  (\A k \in 1..Len(acc.hits), j \in 1..n :
     HitAt(acc.hits, R, k, j) => Ordered(R)[j].action \notin {"replace", "remove"})
  => /\ acc.text = text
     /\ \A j \in 1..n :
          /\ RuleApplies(Ordered(R)[j], m) /\ ValidRule(Ordered(R)[j])
          /\ \A k \in 1..Len(acc.hits) : ~HitAt(acc.hits, R, k, j)
          /\ acc.done => \E i \in 1..n : HitAt(acc.hits, R, Len(acc.hits), i) /\ j < i
          => Found(text, Ordered(R)[j], m, slow) = <<>>

AppliedUpTo(acc, R, text, m, slow, n) ==
  HitsInOrder(acc, R, n) /\ MarksOfHits(acc, R, n) /\ OthersDoNotMatch(acc, R, text, m, slow, n)

LEMMA OrderedIds ==
  ASSUME NEW R, Definitions(R), NEW i \in 1..Len(Ordered(R)), NEW j \in 1..Len(Ordered(R)),
         Ordered(R)[i].id = Ordered(R)[j].id
  PROVE  i = j
<1>1. Ordered(R)[i] \in R /\ Ordered(R)[j] \in R
  BY OrderedFacts
<1>2. Ordered(R)[i] = Ordered(R)[j]
  BY <1>1 DEF Definitions
<1> QED BY <1>2, OrderedFacts

\* The rule at position n did not hit.
LEMMA AppliedSame ==
  ASSUME NEW R, Definitions(R), NEW n \in 1..Len(Ordered(R)), NEW text, NEW m, NEW slow,
         NEW acc \in Applied, AppliedUpTo(acc, R, text, m, slow, n - 1), NEW next \in Applied,
         NoHit(acc, Ordered(R)[n], m, Found(acc.text, Ordered(R)[n], m, slow), next)
  PROVE  AppliedUpTo(next, R, text, m, slow, n)
<1> DEFINE hits == acc.hits
<1>0. /\ next.text = acc.text /\ next.hits = acc.hits /\ next.done = acc.done
      /\ next.review = acc.review /\ next.reject = acc.reject
      /\ \/ acc.done \/ ~RuleApplies(Ordered(R)[n], m) \/ ~ValidRule(Ordered(R)[n])
         \/ Found(acc.text, Ordered(R)[n], m, slow) = <<>>
  BY Zenon DEF NoHit
<1>1. /\ 1..n = (1..(n - 1)) \cup {n} /\ 1..n \subseteq 1..Len(Ordered(R))
      /\ n \in 1..n /\ n \notin 1..(n - 1) /\ \A i \in 1..n : ~(n < i)
  BY OrderedFacts
<1>2. \A k \in 1..Len(hits) : ~HitAt(hits, R, k, n)
  <2>1. ASSUME NEW k \in 1..Len(hits), HitAt(hits, R, k, n)  PROVE FALSE
    <3>1. PICK j \in 1..(n - 1) : HitAt(hits, R, k, j)
      BY DEF AppliedUpTo, HitsInOrder
    <3>2. j = n
      BY <1>1, <2>1, <3>1, OrderedIds DEF HitAt
    <3> QED BY <1>1, <3>1, <3>2
  <2> QED BY <2>1
<1>3. acc.done \in BOOLEAN /\ next.done \in BOOLEAN
  BY DEF Applied
<1>4. hits # <<>> => Len(hits) \in 1..Len(hits)
  <2>1. hits \in Seq(HitCount)
    BY DEF Applied
  <2> QED BY <2>1, EmptySeq
<1>5. HitsInOrder(next, R, n)
  <2>1. HitsInOrder(acc, R, n - 1)
    BY DEF AppliedUpTo
  <2>2. \A k \in 1..Len(hits) : \E j \in 1..n : HitAt(hits, R, k, j)
    BY <1>1, <2>1 DEF HitsInOrder
  <2>3. \A k, l \in 1..Len(hits) : \A i, j \in 1..n :
          k < l /\ HitAt(hits, R, k, i) /\ HitAt(hits, R, l, j) => i < j
    BY <1>1, <1>2, <2>1 DEF HitsInOrder
  <2>4. \A k \in 1..Len(hits), j \in 1..n :
          HitAt(hits, R, k, j) => (Stops(Ordered(R)[j]) <=> acc.done /\ k = Len(hits))
    BY <1>1, <1>2, <2>1 DEF HitsInOrder
  <2>5. acc.done => hits # <<>>
    BY <2>1 DEF HitsInOrder
  <2> QED BY <1>0, <2>2, <2>3, <2>4, <2>5 DEF HitsInOrder
<1>6. MarksOfHits(next, R, n)
  BY <1>0, <1>1, <1>2, <1>4 DEF AppliedUpTo, MarksOfHits
<1>7. OthersDoNotMatch(next, R, text, m, slow, n)
  <2>1. ASSUME \A k \in 1..Len(hits), j \in 1..n :
                 HitAt(hits, R, k, j) => Ordered(R)[j].action \notin {"replace", "remove"}
        PROVE  /\ next.text = text
               /\ \A j \in 1..n :
                    /\ RuleApplies(Ordered(R)[j], m) /\ ValidRule(Ordered(R)[j])
                    /\ \A k \in 1..Len(hits) : ~HitAt(hits, R, k, j)
                    /\ acc.done => \E i \in 1..n : HitAt(hits, R, Len(hits), i) /\ j < i
                    => Found(text, Ordered(R)[j], m, slow) = <<>>
    <3>1. /\ acc.text = text
          /\ \A j \in 1..(n - 1) :
               /\ RuleApplies(Ordered(R)[j], m) /\ ValidRule(Ordered(R)[j])
               /\ \A k \in 1..Len(hits) : ~HitAt(hits, R, k, j)
               /\ acc.done => \E i \in 1..(n - 1) : HitAt(hits, R, Len(hits), i) /\ j < i
               => Found(text, Ordered(R)[j], m, slow) = <<>>
      BY <1>1, <2>1 DEF AppliedUpTo, OthersDoNotMatch
    <3>2. ASSUME NEW j \in 1..n, RuleApplies(Ordered(R)[j], m), ValidRule(Ordered(R)[j]),
                 \A k \in 1..Len(hits) : ~HitAt(hits, R, k, j),
                 acc.done => \E i \in 1..n : HitAt(hits, R, Len(hits), i) /\ j < i
          PROVE  Found(text, Ordered(R)[j], m, slow) = <<>>
      <4>1. CASE j = n
        BY <1>0, <1>1, <3>1, <3>2, <4>1
      <4>2. CASE j # n
        <5>1. acc.done => \E i \in 1..(n - 1) : HitAt(hits, R, Len(hits), i) /\ j < i
          <6>1. acc.done => hits # <<>>
            BY DEF AppliedUpTo, HitsInOrder
          <6> QED BY <1>1, <1>2, <1>4, <3>2, <6>1
        <5> QED BY <1>1, <3>1, <3>2, <4>2, <5>1
      <4> QED BY <4>1, <4>2
    <3> QED BY <1>0, <3>1, <3>2
  <2> QED BY <1>0, <2>1 DEF OthersDoNotMatch
<1> QED BY <1>5, <1>6, <1>7 DEF AppliedUpTo

\* The rule at position n hit.
LEMMA AppliedHit ==
  ASSUME NEW R, Definitions(R), NEW n \in 1..Len(Ordered(R)), NEW text, NEW m, NEW slow,
         NEW acc \in Applied, AppliedUpTo(acc, R, text, m, slow, n - 1), NEW next \in Applied,
         NEW d, d = Ordered(R)[n], NEW found, Hitting(acc, d, found, next)
  PROVE  AppliedUpTo(next, R, text, m, slow, n)
<1> DEFINE hits == acc.hits
           more == next.hits
<1>0. /\ ~acc.done /\ next.text = Rewritten(acc.text, found, d)
      /\ next.review = (acc.review \/ d.action = "require_review")
      /\ next.reject = (d.action = "reject") /\ next.done = Stops(d)
  BY Zenon DEF Hitting
<1>1. /\ 1..n = (1..(n - 1)) \cup {n} /\ 1..n \subseteq 1..Len(Ordered(R))
      /\ n \in 1..n /\ n \notin 1..(n - 1) /\ \A i \in 1..n : ~(n < i)
      /\ \A i \in 1..(n - 1) : i < n
  BY OrderedFacts
<1>2. PICK len \in Nat :
        /\ len = Len(hits) /\ Len(more) = len + 1 /\ more[len + 1].rule = d.id
        /\ \A k \in 1..len : more[k] = hits[k]
        /\ more # <<>>
  <2>1. hits \in Seq(HitCount) /\ more \in Seq(HitCount)
    BY DEF Applied
  <2>2. PICK e : e = [rule |-> d.id, count |-> Len(found)]
    OBVIOUS
  <2>3. Len(hits) \in Nat /\ more = Append(hits, e) /\ e.rule = d.id
    BY <2>1, <2>2 DEF Hitting
  <2>4. Len(more) = Len(hits) + 1 /\ more[Len(hits) + 1] = e
        /\ \A k \in 1..Len(hits) : more[k] = hits[k]
    BY <2>1, <2>3
  <2>5. more # <<>>
    BY <2>1, <2>3, <2>4, EmptySeq
  <2> QED BY <2>3, <2>4, <2>5
<1>3. /\ 1..(len + 1) = (1..len) \cup {len + 1} /\ len + 1 \in 1..(len + 1)
      /\ len + 1 \notin 1..len /\ \A k \in 1..len : k < len + 1 /\ ~(len + 1 < k)
      /\ ~(len + 1 < len + 1)
  OBVIOUS
<1>4. /\ \A k \in 1..len, j \in 1..n : HitAt(more, R, k, j) <=> j # n /\ HitAt(hits, R, k, j)
      /\ \A j \in 1..n : HitAt(more, R, len + 1, j) <=> j = n
  <2>1. ASSUME NEW k \in 1..len, NEW j \in 1..n
        PROVE  HitAt(more, R, k, j) <=> j # n /\ HitAt(hits, R, k, j)
    <3>1. PICK i \in 1..(n - 1) : HitAt(hits, R, k, i)
      BY <1>2 DEF AppliedUpTo, HitsInOrder
    <3>2. HitAt(hits, R, k, j) => i = j
      BY <1>1, <3>1, OrderedIds DEF HitAt
    <3> QED BY <1>1, <1>2, <3>1, <3>2 DEF HitAt
  <2>2. ASSUME NEW j \in 1..n  PROVE HitAt(more, R, len + 1, j) <=> j = n
    BY <1>1, <1>2, OrderedIds DEF HitAt
  <2> QED BY <2>1, <2>2
<1> HIDE DEF hits, more
<1>5. HitsInOrder(acc, R, n - 1) /\ MarksOfHits(acc, R, n - 1)
      /\ OthersDoNotMatch(acc, R, text, m, slow, n - 1)
  BY DEF AppliedUpTo
<1>6. HitsInOrder(next, R, n)
  <2>1. \A k \in 1..(len + 1) : \E j \in 1..n : HitAt(more, R, k, j)
    <3>1. \A k \in 1..len : \E j \in 1..(n - 1) : HitAt(hits, R, k, j)
      BY <1>2, <1>5 DEF HitsInOrder, hits
    <3>2. \A j \in 1..(n - 1) : j \in 1..n /\ j # n
      BY <1>1
    <3> QED BY <1>1, <1>3, <1>4, <3>1, <3>2
  <2>2. \A k, l \in 1..(len + 1) : \A i, j \in 1..n :
          k < l /\ HitAt(more, R, k, i) /\ HitAt(more, R, l, j) => i < j
    <3>1. \A k, l \in 1..len : \A i, j \in 1..(n - 1) :
            k < l /\ HitAt(hits, R, k, i) /\ HitAt(hits, R, l, j) => i < j
      BY <1>2, <1>5 DEF HitsInOrder, hits
    <3>2. ASSUME NEW k \in 1..(len + 1), NEW l \in 1..(len + 1), NEW i \in 1..n, NEW j \in 1..n,
                 k < l, HitAt(more, R, k, i), HitAt(more, R, l, j)
          PROVE  i < j
      <4>1. k \in 1..len
        BY <3>2
      <4>2. i \in 1..(n - 1) /\ HitAt(hits, R, k, i)
        BY <1>1, <1>4, <3>2, <4>1
      <4>3. CASE l = len + 1
        BY <1>1, <1>4, <3>2, <4>2, <4>3
      <4>4. CASE l \in 1..len
        BY <1>1, <1>4, <3>1, <3>2, <4>1, <4>2, <4>4
      <4> QED BY <1>3, <4>3, <4>4
    <3> QED BY <3>2
  <2>3. \A k \in 1..(len + 1), j \in 1..n :
          HitAt(more, R, k, j) => (Stops(Ordered(R)[j]) <=> next.done /\ k = len + 1)
    <3>1. ASSUME NEW k \in 1..len, NEW j \in 1..n, HitAt(more, R, k, j)
          PROVE  ~Stops(Ordered(R)[j])
      BY <1>0, <1>1, <1>2, <1>4, <1>5, <3>1 DEF HitsInOrder, hits
    <3> QED BY <1>0, <1>3, <1>4, <3>1
  <2> QED BY <1>0, <1>2, <2>1, <2>2, <2>3 DEF HitsInOrder, more
<1>7. MarksOfHits(next, R, n)
  <2>1. next.reject <=> \E j \in 1..n : /\ more # <<>> /\ HitAt(more, R, len + 1, j)
                                         /\ Ordered(R)[j].action = "reject"
    BY <1>0, <1>1, <1>2, <1>4
  <2>2. next.review <=> \E k \in 1..(len + 1), j \in 1..n :
          HitAt(more, R, k, j) /\ Ordered(R)[j].action = "require_review"
    <3>1. acc.review <=> \E k \in 1..len, j \in 1..(n - 1) :
            HitAt(hits, R, k, j) /\ Ordered(R)[j].action = "require_review"
      BY <1>2, <1>5 DEF MarksOfHits, hits
    <3>2. next.review <=> acc.review \/ d.action = "require_review"
      BY <1>0, Zenon
    <3>3. (\E k \in 1..(len + 1), j \in 1..n :
             HitAt(more, R, k, j) /\ Ordered(R)[j].action = "require_review")
          <=> \/ \E k \in 1..len, j \in 1..(n - 1) :
                   HitAt(hits, R, k, j) /\ Ordered(R)[j].action = "require_review"
              \/ d.action = "require_review"
      BY <1>1, <1>3, <1>4
    <3> QED BY <3>1, <3>2, <3>3, Zenon
  <2> QED BY <1>2, <2>1, <2>2 DEF MarksOfHits, more
<1>8. OthersDoNotMatch(next, R, text, m, slow, n)
  <2>1. ASSUME \A k \in 1..(len + 1), j \in 1..n :
                 HitAt(more, R, k, j) => Ordered(R)[j].action \notin {"replace", "remove"}
        PROVE  /\ next.text = text
               /\ \A j \in 1..n :
                    /\ RuleApplies(Ordered(R)[j], m) /\ ValidRule(Ordered(R)[j])
                    /\ \A k \in 1..(len + 1) : ~HitAt(more, R, k, j)
                    => Found(text, Ordered(R)[j], m, slow) = <<>>
    <3>1. d.action \notin {"replace", "remove"}
      BY <1>1, <1>3, <1>4, <2>1
    <3>2. \A k \in 1..len, j \in 1..(n - 1) :
            HitAt(hits, R, k, j) => Ordered(R)[j].action \notin {"replace", "remove"}
      BY <1>1, <1>3, <1>4, <2>1
    <3>3. /\ acc.text = text
          /\ \A j \in 1..(n - 1) :
               /\ RuleApplies(Ordered(R)[j], m) /\ ValidRule(Ordered(R)[j])
               /\ \A k \in 1..len : ~HitAt(hits, R, k, j)
               => Found(text, Ordered(R)[j], m, slow) = <<>>
      BY <1>0, <1>2, <1>5, <3>2 DEF OthersDoNotMatch, hits
    <3>4. next.text = text
      BY <1>0, <3>1, <3>3 DEF Rewritten
    <3> QED BY <1>1, <1>3, <1>4, <3>3, <3>4
  <2> QED BY <1>2, <2>1 DEF OthersDoNotMatch, more
<1> QED BY <1>6, <1>7, <1>8 DEF AppliedUpTo

LEMMA ApplyRulesFacts ==
  ASSUME NEW R, Definitions(R), NEW text \in Seq(STRING), NEW m, NEW slow
  PROVE  /\ ApplyRules(R, text, m, slow) \in Applied
         /\ AppliedUpTo(ApplyRules(R, text, m, slow), R, text, m, slow, Len(Ordered(R)))
<1> DEFINE order == Ordered(R)
           K == Len(order)
           D == [n \in 0..K |-> {acc \in Applied : AppliedUpTo(acc, R, text, m, slow, n)}]
<1>1. PICK after : /\ Applies(after, R, text, m, slow)
                   /\ ApplyRules(R, text, m, slow) = after[K]
  BY AppliesExists
<1>2. K \in Nat /\ \A n \in 1..K : order[n] \in R
  BY OrderedFacts
<1>3. /\ 0 \in 0..K /\ K \in 0..K
      /\ \A n \in 1..K : n \in 0..K /\ n # 0 /\ n - 1 \in 0..K
  BY <1>2
<1> HIDE DEF K
<1>4. /\ after[0] = NothingApplied(text)
      /\ \A n \in 1..K : after[n] = EngineStep(after[n - 1], order[n], m, slow)
  BY <1>1, <1>3 DEF Applies, K
<1>5. after[0] \in D[0]
  <2>1. PICK acc : acc = NothingApplied(text)
    OBVIOUS
  <2>2. /\ acc.text = text /\ acc.hits = <<>> /\ ~acc.done /\ ~acc.reject /\ ~acc.review
        /\ acc \in Applied /\ Len(<<>>) = 0 /\ 1..0 = {}
    <3>1. <<>> \in Seq(HitCount) /\ {} \in SUBSET RuleId
      OBVIOUS
    <3> QED BY <2>1, <3>1 DEF NothingApplied, Applied
  <2>3. HitsInOrder(acc, R, 0) /\ MarksOfHits(acc, R, 0)
        /\ OthersDoNotMatch(acc, R, text, m, slow, 0)
    BY <2>2 DEF HitsInOrder, MarksOfHits, OthersDoNotMatch
  <2> QED BY <1>3, <1>4, <2>1, <2>2, <2>3 DEF AppliedUpTo
<1>6. ASSUME NEW n \in 1..K, after[n - 1] \in D[n - 1]  PROVE after[n] \in D[n]
  <2>1. PICK acc \in Applied : acc = after[n - 1] /\ AppliedUpTo(acc, R, text, m, slow, n - 1)
    BY <1>3, <1>6
  <2>2. PICK d \in R : d = order[n]
    BY <1>2
  <2>3. PICK next : next = EngineStep(acc, d, m, slow) /\ next = after[n]
    BY <1>4, <2>1, <2>2
  <2>4. PICK found : found = Found(acc.text, d, m, slow)
    OBVIOUS
  <2>5. next \in Applied /\ (NoHit(acc, d, m, found, next) \/ Hitting(acc, d, found, next))
    BY <2>1, <2>2, <2>3, <2>4, EngineStepIs
  <2>6. n \in 1..Len(Ordered(R))
    BY DEF K
  <2>7. AppliedUpTo(next, R, text, m, slow, n)
    BY <2>1, <2>2, <2>4, <2>5, <2>6, AppliedSame, AppliedHit
  <2> QED BY <1>3, <2>3, <2>5, <2>7
<1> HIDE DEF D
<1>7. \A n \in 0..K : after[n] \in D[n]
  BY <1>2, <1>5, <1>6, UpTo
<1> QED BY <1>1, <1>3, <1>7 DEF D, K

\* What EngineKeepsOrder says of one pass.
InOrder(p, m) ==
  LET hits == p.out.hits
      D(i) == CHOOSE d \in p.rules : d.id = i
      Stop(d) == d.stop \/ d.action = "reject"
      Rewrites(d) == d.action \in {"replace", "remove"}
      Passed(d) == hits = <<>> \/ ~Stop(D(Last(hits).rule)) \/ Before(d, D(Last(hits).rule))
  IN /\ \A k \in 1..Len(hits) - 1 :
          /\ Before(D(hits[k].rule), D(hits[k + 1].rule))
          /\ ~Stop(D(hits[k].rule))
     /\ p.out.reject = (hits # <<>> /\ D(Last(hits).rule).action = "reject")
     /\ p.out.review = \E k \in DOMAIN hits : D(hits[k].rule).action = "require_review"
     /\ (\A k \in DOMAIN hits : ~Rewrites(D(hits[k].rule))) =>
          /\ p.out.text = p.in
          /\ \A d \in p.rules :
               /\ RuleApplies(d, m) /\ ValidRule(d) /\ Passed(d) /\ d.id \notin HitBy(p)
               => IF d.type = "has_media" THEN MediaHits(d, m.type, m.count) = <<>>
                  ELSE Matches(p.in, d, p.slow) = <<>>

LEMMA EngineInOrder ==
  ASSUME NEW R, Definitions(R), NEW text \in Seq(STRING), NEW m, NEW slow, NEW p,
         p.rules = R, p.in = text, p.slow = slow, p.out = ApplyRules(R, text, m, slow)
  PROVE  InOrder(p, m)
<1> DEFINE hits == p.out.hits
           order == Ordered(R)
           K == Len(order)
           D(i) == CHOOSE d \in p.rules : d.id = i
           Stop(d) == d.stop \/ d.action = "reject"
           Rewrites(d) == d.action \in {"replace", "remove"}
           Passed(d) == hits = <<>> \/ ~Stop(D(Last(hits).rule)) \/ Before(d, D(Last(hits).rule))
<1>1. PICK acc \in Applied : acc = p.out /\ AppliedUpTo(acc, R, text, m, slow, K)
  BY ApplyRulesFacts
<1>2. /\ K \in Nat /\ \A j \in 1..K : order[j] \in R
      /\ \A i, j \in 1..K : i < j <=> Before(order[i], order[j])
      /\ \A d \in R : \E j \in 1..K : order[j] = d
  BY OrderedFacts
<1>3. PICK len \in Nat : /\ len = Len(hits) /\ DOMAIN hits = 1..len
                         /\ hits # <<>> => len \in 1..len /\ Last(hits) = hits[len]
                         /\ hits = <<>> => len = 0
  <2>1. hits \in Seq(HitCount)
    BY <1>1 DEF Applied
  <2>2. Len(hits) \in Nat /\ DOMAIN hits = 1..Len(hits)
        /\ (hits # <<>> => Len(hits) \in 1..Len(hits)) /\ (hits = <<>> => Len(hits) = 0)
    BY <2>1, EmptySeq
  <2> QED BY <2>2 DEF Last
<1>4. ASSUME NEW k \in 1..len, NEW j \in 1..K, HitAt(acc.hits, R, k, j)
      PROVE  D(hits[k].rule) = order[j]
  <2>1. hits[k].rule = order[j].id
    BY <1>1, <1>4 DEF HitAt
  <2>2. order[j] \in R /\ \A d \in R : d.id = order[j].id => d = order[j]
    BY <1>2 DEF Definitions
  <2> QED BY <2>1, <2>2
<1>5. ASSUME NEW k \in 1..len  PROVE \E j \in 1..K : HitAt(acc.hits, R, k, j)
  BY <1>1, <1>3 DEF AppliedUpTo, HitsInOrder
<1> HIDE DEF K, D
<1>6. \A d : Stop(d) <=> Stops(d)
  BY DEF Stops
<1>7. ASSUME NEW k \in 1..Len(hits) - 1
      PROVE  Before(D(hits[k].rule), D(hits[k + 1].rule)) /\ ~Stop(D(hits[k].rule))
  <2>1. k \in 1..len /\ k + 1 \in 1..len /\ k < k + 1 /\ k # len
    BY <1>3
  <2>2. PICK i \in 1..K : HitAt(acc.hits, R, k, i)
    BY <1>5, <2>1
  <2>3. PICK j \in 1..K : HitAt(acc.hits, R, k + 1, j)
    BY <1>5, <2>1
  <2>4. i < j /\ ~Stops(order[i])
    BY <1>1, <1>3, <2>1, <2>2, <2>3 DEF AppliedUpTo, HitsInOrder
  <2>5. D(hits[k].rule) = order[i] /\ D(hits[k + 1].rule) = order[j]
    BY <1>4, <2>1, <2>2, <2>3
  <2> QED BY <1>2, <1>6, <2>4, <2>5
<1>8. p.out.reject <=> (hits # <<>> /\ D(Last(hits).rule).action = "reject")
  <2>1. acc.reject <=> \E j \in 1..K : /\ hits # <<>> /\ HitAt(acc.hits, R, len, j)
                                        /\ order[j].action = "reject"
    BY <1>1, <1>3 DEF AppliedUpTo, MarksOfHits
  <2>2. CASE hits = <<>>
    BY <1>1, <2>1, <2>2
  <2>3. CASE hits # <<>>
    <3>1. PICK j \in 1..K : HitAt(acc.hits, R, len, j)
      BY <1>3, <1>5, <2>3
    <3>2. \A i \in 1..K : HitAt(acc.hits, R, len, i) => D(Last(hits).rule) = order[i]
      BY <1>3, <1>4, <2>3
    <3> QED BY <1>1, <2>1, <2>3, <3>1, <3>2
  <2> QED BY <2>2, <2>3
<1>9. p.out.review <=> \E k \in DOMAIN hits : D(hits[k].rule).action = "require_review"
  <2>1. acc.review <=> \E k \in 1..len, j \in 1..K :
          HitAt(acc.hits, R, k, j) /\ order[j].action = "require_review"
    <3>1. MarksOfHits(acc, R, K) /\ Len(acc.hits) = len
      BY <1>1, <1>3 DEF AppliedUpTo
    <3> QED BY <3>1, Zenon DEF MarksOfHits
  <2>2. ASSUME acc.review
        PROVE  \E k \in DOMAIN hits : D(hits[k].rule).action = "require_review"
    <3>1. PICK k \in 1..len, j \in 1..K :
            HitAt(acc.hits, R, k, j) /\ order[j].action = "require_review"
      BY <2>1, <2>2
    <3>2. D(hits[k].rule).action = "require_review"
      BY <1>4, <3>1
    <3> QED BY <1>3, <3>2
  <2>3. ASSUME NEW k \in DOMAIN hits, D(hits[k].rule).action = "require_review"
        PROVE  acc.review
    <3>1. PICK j \in 1..K : HitAt(acc.hits, R, k, j)
      BY <1>3, <1>5
    <3>2. order[j].action = "require_review"
      BY <1>3, <1>4, <2>3, <3>1
    <3> QED BY <1>3, <2>1, <3>1, <3>2
  <2> QED BY <1>1, <2>2, <2>3
<1>10. ASSUME \A k \in DOMAIN hits : ~Rewrites(D(hits[k].rule))
       PROVE  /\ p.out.text = p.in
              /\ \A d \in p.rules :
                   /\ RuleApplies(d, m) /\ ValidRule(d) /\ Passed(d) /\ d.id \notin HitBy(p)
                   => Found(text, d, m, slow) = <<>>
  <2>1. \A k \in 1..len, j \in 1..K :
          HitAt(acc.hits, R, k, j) => order[j].action \notin {"replace", "remove"}
    BY <1>3, <1>4, <1>10
  <2>2. /\ acc.text = text
        /\ \A j \in 1..K :
             /\ RuleApplies(order[j], m) /\ ValidRule(order[j])
             /\ \A k \in 1..len : ~HitAt(acc.hits, R, k, j)
             /\ acc.done => \E i \in 1..K : HitAt(acc.hits, R, len, i) /\ j < i
             => Found(text, order[j], m, slow) = <<>>
    BY <1>1, <1>3, <2>1 DEF AppliedUpTo, OthersDoNotMatch
  <2>3. ASSUME NEW d \in R, RuleApplies(d, m), ValidRule(d), Passed(d), d.id \notin HitBy(p)
        PROVE  Found(text, d, m, slow) = <<>>
    <3>1. PICK j \in 1..K : order[j] = d
      BY <1>2
    <3>2. \A k \in 1..len : ~HitAt(acc.hits, R, k, j)
      BY <1>1, <1>3, <2>3, <3>1 DEF HitBy, HitAt
    <3>3. ASSUME acc.done  PROVE \E i \in 1..K : HitAt(acc.hits, R, len, i) /\ j < i
      <4>1. hits # <<>>
        BY <1>1, <3>3 DEF AppliedUpTo, HitsInOrder
      <4>2. PICK i \in 1..K : HitAt(acc.hits, R, len, i)
        BY <1>3, <1>5, <4>1
      <4>3. D(Last(hits).rule) = order[i] /\ Stops(order[i])
        <5>1. Stops(order[i])
          BY <1>1, <1>3, <3>3, <4>1, <4>2 DEF AppliedUpTo, HitsInOrder
        <5> QED BY <1>3, <1>4, <4>1, <4>2, <5>1
      <4>4. Before(order[j], order[i])
        BY <1>6, <2>3, <3>1, <4>1, <4>3
      <4> QED BY <1>2, <4>2, <4>4
    <3> QED BY <2>2, <2>3, <3>1, <3>2, <3>3
  <2> QED BY <1>1, <2>2, <2>3
<1>11. p.out.reject \in BOOLEAN /\ p.out.review \in BOOLEAN
  BY <1>1 DEF Applied
<1>12. p.out.reject = (hits # <<>> /\ D(Last(hits).rule).action = "reject")
  BY <1>8, <1>11
<1>13. p.out.review = \E k \in DOMAIN hits : D(hits[k].rule).action = "require_review"
  BY <1>9, <1>11
<1> QED BY <1>7, <1>10, <1>12, <1>13, Zenon DEF InOrder, Found, D

-----------------------------------------------------------------------------
(* Counting hits.                                                          *)

\* The recursive function that HitsOf defines.
Sums(sum, i, hits) ==
  sum = [n \in 0..Len(hits) |->
           IF n = 0 THEN 0
           ELSE sum[n - 1] + IF hits[n].rule = i THEN hits[n].count ELSE 0]

\* A rule that is not among the hits is counted no time.
LEMMA HitsOfFacts ==
  ASSUME NEW i, NEW hits \in Seq(HitCount)
  PROVE  /\ HitsOf(i, hits) \in Nat
         /\ (\A k \in DOMAIN hits : hits[k].rule # i) => HitsOf(i, hits) = 0
<1> DEFINE K == Len(hits)
           C == [n \in 1..K |-> IF hits[n].rule = i THEN hits[n].count ELSE 0]
           step == [x \in Nat \X (1..K) |-> x[1] + C[x[2]]]
           none == \A k \in DOMAIN hits : hits[k].rule # i
           D == [n \in 0..K |-> {c \in Nat : none => c = 0}]
<1>1. K \in Nat /\ DOMAIN hits = 1..K /\ \A n \in 1..K : hits[n] \in HitCount
  OBVIOUS
<1>2. \A n \in 1..K : C[n] \in Nat /\ (none => C[n] = 0)
  BY <1>1 DEF HitCount
<1>3. \A n \in 1..K : C[n] = IF hits[n].rule = i THEN hits[n].count ELSE 0
  OBVIOUS
<1> HIDE DEF K, C, none
<1>4. step \in [Nat \X (1..K) -> Nat] /\ \A c \in Nat, n \in 1..K : step[c, n] = c + C[n]
  <2>1. \A c \in Nat, n \in 1..K : c + C[n] \in Nat
    BY <1>2
  <2> QED BY <2>1
<1>5. /\ 0 \in 0..K /\ K \in 0..K
      /\ \A n \in 1..K : n \in 0..K /\ n # 0 /\ n - 1 \in 0..K
      /\ \A n \in 0..K : n = 0 \/ n \in 1..K
  BY <1>1
<1> HIDE DEF step
<1>6. \E sum : Sums(sum, i, hits)
  <2>1. PICK f \in [0..K -> Nat] : Runs(f, 0, step, K)
    BY <1>1, <1>4, Recursion
  <2>2. \A n \in 0..K : f[n] = IF n = 0 THEN 0
                              ELSE f[n - 1] + IF hits[n].rule = i THEN hits[n].count ELSE 0
    <3>1. f[0] = 0 /\ \A n \in 1..K : f[n] = f[n - 1] + C[n]
      BY <1>4, <1>5, <2>1 DEF Runs
    <3> QED BY <1>3, <1>5, <3>1
  <2>3. f = [n \in 0..K |-> IF n = 0 THEN 0
                            ELSE f[n - 1] + IF hits[n].rule = i THEN hits[n].count ELSE 0]
    BY <2>2
  <2> QED BY <2>3 DEF Sums, K
<1> DEFINE sum == CHOOSE f : Sums(f, i, hits)
<1>7. Sums(sum, i, hits) /\ HitsOf(i, hits) = sum[K]
  BY <1>6, Zenon DEF HitsOf, Sums, K
<1> HIDE DEF sum
<1>8. sum[0] = 0 /\ \A n \in 1..K : sum[n] = sum[n - 1] + C[n]
  BY <1>3, <1>5, <1>7 DEF Sums, K
<1>9. sum[0] \in D[0]
  BY <1>5, <1>8
<1>10. ASSUME NEW n \in 1..K, sum[n - 1] \in D[n - 1]  PROVE sum[n] \in D[n]
  <2>1. sum[n - 1] \in Nat /\ (none => sum[n - 1] = 0)
    BY <1>5, <1>10
  <2>2. sum[n] \in Nat /\ (none => sum[n] = 0)
    BY <1>2, <1>8, <2>1
  <2> QED BY <1>5, <2>2
<1> HIDE DEF D
<1>11. \A n \in 0..K : sum[n] \in D[n]
  BY <1>1, <1>9, <1>10, UpTo
<1> QED BY <1>5, <1>7, <1>11 DEF D, none

-----------------------------------------------------------------------------
(* Rows and partial rows.                                                  *)

LEMMA ColumnNames ==
  DOMAIN Column = {"is", "name", "enabled", "priority", "type", "match", "pattern",
                   "replacement", "caseSensitive", "wholeWord", "useRegex", "sources",
                   "targets", "types", "action", "stop", "group"}
  BY DEF Column

LEMMA RowFacts ==
  ASSUME NEW row, Row(row)
  PROVE  /\ DOMAIN row = DOMAIN Column
         /\ row.is = "row" /\ row.enabled \in BOOLEAN /\ row.priority \in Int
         /\ row.stop \in BOOLEAN /\ row.useRegex \in BOOLEAN /\ row.pattern \in Seq(STRING)
         /\ row.group \in Group \cup {NoGroup}
         /\ \A c \in DOMAIN Column : row[c] \in Column[c]
<1>1. \A c \in DOMAIN Column : row[c] \in Column[c]
  BY DEF Row, Columns
<1> QED BY <1>1, ColumnNames DEF Row, Column

\* A rule with one column changed.
LEMMA RowExcept ==
  ASSUME NEW row, Row(row), NEW c \in DOMAIN Column, NEW v \in Column[c]
  PROVE  Row([row EXCEPT ![c] = v])
  BY DEF Row, Columns

LEMMA OverFacts ==
  ASSUME NEW p, Columns(p), NEW row, Row(row)
  PROVE  Row(Over(p, row))
  BY DEF Row, Columns, Over

LEMMA MediaModeType ==
  ASSUME NEW pattern \in Seq(STRING)
  PROVE  MediaMode(pattern) \in Seq(STRING)
<1>1. ASSUME NEW T, NEW s \in T  PROVE <<s>> \in Seq(T)
  OBVIOUS
<1>2. "has" \in STRING /\ "none" \in STRING
  BY RuleAssumption
<1>3. MediaMode(pattern) \in {<<"has">>, <<"none">>, pattern}
  BY DEF MediaMode
<1> QED BY <1>1, <1>2, <1>3

LEMMA DefinedRow ==
  ASSUME NEW row, Row(row)
  PROVE  Row(Defined(row))
<1>1. "pattern" \in DOMAIN Column /\ Column["pattern"] = Seq(STRING)
  BY ColumnNames DEF Column
<1>2. row.pattern \in Seq(STRING)
  BY RowFacts
<1>3. Defined(row) = row \/ Defined(row) = [row EXCEPT !["pattern"] = MediaMode(row.pattern)]
  BY <1>1 DEF Defined
<1>4. MediaMode(row.pattern) \in Column["pattern"]
  BY <1>1, <1>2, MediaModeType
<1> QED BY <1>1, <1>3, <1>4, RowExcept

LEMMA MergedRow ==
  ASSUME NEW p, Columns(p), NEW row, Row(row)
  PROVE  Row(Merged(row, p)) /\ Row(Defined(Over(p, row)))
  BY OverFacts, DefinedRow DEF Merged

\* What operators and the seed file write is a whole rule, and so is a copy.
LEMMA NewRow ==
  /\ \A p \in Items : Row(New(p)) /\ Columns(p)
  /\ \A row : Row(row) => Row(New(row))
<1>1. ASSUME NEW row, Row(row)  PROVE Row(Over(row, DefaultRow))
  BY <1>1, RuleAssumption DEF Row, Columns, Over
<1> QED BY <1>1, DefinedRow, RuleAssumption DEF New

\* A merged rule is a function: what is flushed onto the row that was read is it.
LEMMA FlushedFacts ==
  ASSUME NEW p, Columns(p), NEW old, Row(old), NEW row, Row(row)
  PROVE  LET new == Merged(old, p)
             left == Flushed(new, old, row)
         IN /\ Row(left)
            /\ row = old => left = Defined(Over(p, row))
            /\ left.group = IF new.group = old.group THEN row.group ELSE new.group
<1> DEFINE new == Merged(old, p)
           left == Flushed(new, old, row)
<1>1. Row(new) /\ DOMAIN new = DOMAIN Column /\ "group" \in DOMAIN Column
  BY MergedRow, RowFacts, ColumnNames
<1>2. new = [c \in DOMAIN new |-> new[c]]
  BY DEF Merged, Defined, Over
<1>3. new = Defined(Over(p, old))
  BY DEF Merged
<1> HIDE DEF new
<1>4. DOMAIN left = DOMAIN Column
      /\ \A c \in DOMAIN Column : left[c] = IF new[c] = old[c] THEN row[c] ELSE new[c]
  BY <1>1 DEF Flushed
<1>5. Row(left)
  <2>1. \A c \in DOMAIN Column : row[c] \in Column[c] /\ new[c] \in Column[c]
    BY <1>1, RowFacts
  <2> HIDE DEF left
  <2> QED BY <1>4, <2>1 DEF Row, Columns
<1>6. row = old => left = new
  <2>1. row = old => left = [c \in DOMAIN new |-> new[c]]
    BY DEF Flushed
  <2> QED BY <1>2, <2>1
<1> QED BY <1>1, <1>3, <1>4, <1>5, <1>6 DEF new

-----------------------------------------------------------------------------
(* The table of rules, the calls and the sender.                           *)

\* A rule in the table is whole, in a group that exists, valid, and what was asked.
RuleAt(i) ==
  \/ rules[i] \in {Unused, Gone}
  \/ /\ Row(rules[i]) /\ Row(asked[i]) /\ GroupIs(rules[i].group, "row")
     /\ i \notin overlapped => rules[i] = asked[i] /\ ValidRule(rules[i])

\* What a call holds; the merge of a patch with the rule it read is valid.
CallOK(q) ==
  /\ q.op = "import" => q \in [op : {"import"}, left : Seq(Items) \ {<<>>}]
  /\ q.op = "patch" => /\ q.rule \in RuleId /\ Row(q.old) /\ Columns(q.patch)
                       /\ ValidRule(Merged(q.old, q.patch))
  /\ q.op = "duplicate" => Row(q.old)
  /\ q.op = "patchGroup" => q.group \in Group /\ q.enabled \in BOOLEAN
  /\ q.op = "deleteGroup" => q.group \in Group

SenderOK(s) ==
  /\ s.is \in {"seeding", "creating", "reading", "updating", "up", "failed"}
  /\ s.is \in {"seeding", "creating", "reading", "updating"} => s.left \in Seq(Items)
  /\ s.is \in {"creating", "reading", "updating"} => s.left # <<>>
  /\ s.is \in {"reading", "updating"} => s.rule \in RuleId
  /\ s.is = "updating" => Row(s.old) /\ ValidRule(Merged(s.old, Head(s.left)))

TableInv ==
  /\ DOMAIN rules = RuleId /\ DOMAIN asked = RuleId
  /\ groups \in [Group -> {Unused, Gone} \cup [is : {"row"}, enabled : BOOLEAN]]
  /\ \A i \in RuleId : RuleAt(i)
  /\ DOMAIN request = Request /\ \A r \in Request : CallOK(request[r])
  /\ SenderOK(sender)

LEMMA Markers ==
  /\ Unused.is = "unused" /\ Gone.is = "gone" /\ CallOK(Idle) /\ Idle.op = "idle"
  /\ \A i \in RuleId : RuleAt(i) => (i \in Rows <=> rules[i] \notin {Unused, Gone})
<1>1. Unused.is = "unused" /\ Gone.is = "gone" /\ Idle.op = "idle"
  BY DEF Unused, Gone, Idle
<1>2. CallOK(Idle)
  BY <1>1 DEF CallOK
<1>3. ASSUME NEW i \in RuleId, RuleAt(i)  PROVE i \in Rows <=> rules[i] \notin {Unused, Gone}
  BY <1>1, <1>3, RowFacts DEF RuleAt, Rows
<1> QED BY <1>1, <1>2, <1>3

\* The rule of a row in the table.
LEMMA RowOf ==
  ASSUME TableInv, NEW i \in Rows
  PROVE  /\ i \in RuleId /\ Row(rules[i]) /\ Row(asked[i])
         /\ GroupIs(rules[i].group, "row")
         /\ i \notin overlapped => rules[i] = asked[i] /\ ValidRule(rules[i])
  BY Markers DEF TableInv, RuleAt, Rows

\* Steps that leave the table alone.
LEMMA TableLeft ==
  ASSUME TableInv, UNCHANGED <<rules, groups, asked, overlapped>>,
         DOMAIN request' = Request, \A r \in Request : CallOK(request'[r]), SenderOK(sender')
  PROVE  TableInv'
  BY DEF TableInv, RuleAt, GroupIs

\* Steps that change one rule, to nothing or to one that is whole and grouped.
LEMMA TableRule ==
  ASSUME TableInv, UNCHANGED groups, NEW i \in RuleId, RuleAt(i)',
         DOMAIN rules' = RuleId, DOMAIN asked' = RuleId,
         \A j \in RuleId \ {i} : rules'[j] = rules[j] /\ asked'[j] = asked[j],
         overlapped \subseteq overlapped',
         DOMAIN request' = Request, \A r \in Request : CallOK(request'[r]), SenderOK(sender')
  PROVE  TableInv'
<1>1. \A j \in RuleId \ {i} : RuleAt(j)'
  BY DEF TableInv, RuleAt, GroupIs
<1> QED BY <1>1 DEF TableInv

\* Steps that change one group that rules may be in.
LEMMA TableGroup ==
  ASSUME TableInv, UNCHANGED <<rules, asked, overlapped>>,
         groups' \in [Group -> {Unused, Gone} \cup [is : {"row"}, enabled : BOOLEAN]],
         \A g \in Group : groups[g].is = "row" => groups'[g].is = "row",
         DOMAIN request' = Request, \A r \in Request : CallOK(request'[r]), SenderOK(sender')
  PROVE  TableInv'
<1>1. ASSUME NEW i \in RuleId  PROVE RuleAt(i)'
  <2>1. Row(rules[i]) => rules[i].group \in Group \cup {NoGroup}
    BY RowFacts
  <2> QED BY <2>1 DEF TableInv, RuleAt, GroupIs
<1> QED BY <1>1 DEF TableInv

\* A call that begins, ends, or goes on with less to do.
LEMMA CallSet ==
  ASSUME TableInv, NEW r \in Request, NEW q, CallOK(q), request' = [request EXCEPT ![r] = q]
  PROVE  DOMAIN request' = Request /\ \A s \in Request : CallOK(request'[s])
<1>1. \A s \in Request : request'[s] = IF s = r THEN q ELSE request[s]
  BY DEF TableInv
<1> QED BY <1>1 DEF TableInv

LEMMA CreatedStep ==
  ASSUME TableInv, NEW payload, Row(New(payload)), Created(payload),
         DOMAIN request' = Request, \A r \in Request : CallOK(request'[r]), SenderOK(sender')
  PROVE  TableInv'
<1>1. PICK i \in RuleId : /\ rules' = [rules EXCEPT ![i] = New(payload)]
                          /\ asked' = [asked EXCEPT ![i] = New(payload)]
  BY DEF Created
<1>2. /\ UNCHANGED <<groups, overlapped>> /\ ValidRule(New(payload))
      /\ GroupIs(New(payload).group, "row")
  BY DEF Created, Storable
<1>3. /\ rules'[i] = New(payload) /\ asked'[i] = New(payload)
      /\ DOMAIN rules' = RuleId /\ DOMAIN asked' = RuleId
      /\ \A j \in RuleId \ {i} : rules'[j] = rules[j] /\ asked'[j] = asked[j]
  BY <1>1 DEF TableInv
<1>4. RuleAt(i)'
  BY <1>2, <1>3 DEF RuleAt, GroupIs
<1> QED BY <1>2, <1>3, <1>4, TableRule

LEMMA UpdatedStep ==
  ASSUME TableInv, NEW i, NEW old, Row(old), NEW patch, Columns(patch),
         ValidRule(Merged(old, patch)), Updated(i, old, patch),
         DOMAIN request' = Request, \A r \in Request : CallOK(request'[r]), SenderOK(sender')
  PROVE  TableInv'
<1>1. /\ i \in RuleId /\ Row(rules[i]) /\ Row(asked[i]) /\ GroupIs(rules[i].group, "row")
      /\ i \notin overlapped => rules[i] = asked[i]
  BY RowOf DEF Updated
<1>2. /\ rules' = [rules EXCEPT ![i] = Flushed(Merged(old, patch), old, rules[i])]
      /\ asked' = [asked EXCEPT ![i] = Defined(Over(patch, asked[i]))]
      /\ overlapped' = IF rules[i] = old THEN overlapped ELSE overlapped \cup {i}
      /\ Merged(old, patch).group # old.group => GroupIs(Merged(old, patch).group, "row")
      /\ UNCHANGED groups
  BY DEF Updated
<1>3. /\ rules'[i] = Flushed(Merged(old, patch), old, rules[i])
      /\ asked'[i] = Defined(Over(patch, asked[i]))
      /\ DOMAIN rules' = RuleId /\ DOMAIN asked' = RuleId
      /\ \A j \in RuleId \ {i} : rules'[j] = rules[j] /\ asked'[j] = asked[j]
  BY <1>1, <1>2 DEF TableInv
<1>4. /\ Row(rules'[i]) /\ Row(asked'[i])
      /\ rules[i] = old => rules'[i] = Defined(Over(patch, rules[i]))
      /\ rules'[i].group = IF Merged(old, patch).group = old.group THEN rules[i].group
                           ELSE Merged(old, patch).group
  <2> DEFINE new == Merged(old, patch)
             left == Flushed(new, old, rules[i])
  <2>1. /\ Row(left) /\ (rules[i] = old => left = Defined(Over(patch, rules[i])))
        /\ left.group = IF new.group = old.group THEN rules[i].group ELSE new.group
    BY <1>1, FlushedFacts
  <2>2. Row(asked'[i])
    BY <1>1, <1>3, MergedRow
  <2> HIDE DEF new, left
  <2>3. rules'[i] = left
    BY <1>3 DEF new, left
  <2> QED BY <2>1, <2>2, <2>3 DEF new
<1>5. rules'[i].group # NoGroup => groups'[rules'[i].group].is = "row"
  BY <1>1, <1>2, <1>4 DEF GroupIs
<1>6. i \notin overlapped' => rules'[i] = asked'[i] /\ ValidRule(rules'[i])
  BY <1>1, <1>2, <1>3, <1>4 DEF Merged
<1>7. RuleAt(i)' /\ overlapped \subseteq overlapped'
  BY <1>2, <1>4, <1>5, <1>6 DEF RuleAt, GroupIs
<1> QED BY <1>1, <1>2, <1>3, <1>7, TableRule

-----------------------------------------------------------------------------
(* The steps on the table.                                                 *)

LEMMA TableInit ==
  ASSUME Init  PROVE TableInv
<1>1. ASSUME NEW i \in RuleId  PROVE RuleAt(i)
  <2>1. CASE i \in DOMAIN InitialRules
    <3>1. rules[i] = InitialRules[i] /\ asked[i] = InitialRules[i] /\ groups = InitialGroups
      BY <2>1 DEF Init
    <3>2. Row(rules[i]) /\ ValidRule(rules[i])
      BY <2>1, <3>1, RuleAssumption
    <3>3. rules[i].group # NoGroup => groups[rules[i].group].is = "row"
      BY <2>1, <3>1, RuleAssumption
    <3> QED BY <3>1, <3>2, <3>3 DEF RuleAt, GroupIs
  <2>2. CASE i \notin DOMAIN InitialRules
    BY <2>2 DEF Init, RuleAt
  <2> QED BY <2>1, <2>2
<1>2. groups \in [Group -> {Unused, Gone} \cup [is : {"row"}, enabled : BOOLEAN]]
  BY RuleAssumption DEF Init, Unused
<1>3. SenderOK(sender)
  BY RuleAssumption DEF Init, SenderOK
<1>4. DOMAIN rules = RuleId /\ DOMAIN asked = RuleId
      /\ DOMAIN request = Request /\ \A r \in Request : CallOK(request[r])
  BY Markers DEF Init
<1> QED BY <1>1, <1>2, <1>3, <1>4 DEF TableInv

LEMMA BeginStep ==
  ASSUME TableInv, NEW r \in Request, NEW q, CallOK(q), Begin(r, q)
  PROVE  TableInv'
<1>1. /\ request' = [request EXCEPT ![r] = q]
      /\ UNCHANGED <<rules, groups, asked, overlapped, sender>>
  BY DEF Begin, table, seen
<1>2. DOMAIN request' = Request /\ \A s \in Request : CallOK(request'[s])
  BY <1>1, CallSet
<1>3. SenderOK(sender')
  BY <1>1 DEF TableInv
<1> QED BY <1>1, <1>2, <1>3, TableLeft

\* What the sender and the slots are after a call that is done at once, or ends.
LEMMA CallEnds ==
  ASSUME TableInv, NEW r \in Request, AtOnce(r) \/ Ends(r)
  PROVE  /\ DOMAIN request' = Request /\ \A s \in Request : CallOK(request'[s])
         /\ SenderOK(sender')
<1>1. CASE AtOnce(r)
  BY <1>1 DEF AtOnce, TableInv
<1>2. CASE Ends(r)
  <2>1. request' = [request EXCEPT ![r] = Idle] /\ sender' = sender
    BY <1>2 DEF Ends
  <2> QED BY <2>1, CallSet, Markers DEF TableInv
<1> QED BY <1>1, <1>2

LEMMA CreateRoutesKeepTable ==
  ASSUME TableInv, NEW r \in Request, CreateRoutes(r)
  PROVE  TableInv'
<1>1. ASSUME NEW p \in Payload, CreateRule(r, p)  PROVE TableInv'
  <2>1. Created(p) /\ AtOnce(r) /\ Row(New(p))
    BY <1>1, NewRow DEF CreateRule, Items
  <2> QED BY <2>1, CallEnds, CreatedStep
<1>2. ASSUME NEW l \in Import, ImportRules(r, l)  PROVE TableInv'
  <2> DEFINE q == [op |-> "import", left |-> l]
  <2>1. Begin(r, q)
    BY <1>2 DEF ImportRules
  <2>2. CallOK(q)
    BY RuleAssumption DEF CallOK
  <2> QED BY <2>1, <2>2, BeginStep
<1>3. ASSUME ImportItem(r)  PROVE TableInv'
  <2>1. PICK q : q = request[r] /\ q.op = "import"
    BY <1>3 DEF ImportItem
  <2> DEFINE next == IF Len(q.left) = 1 THEN Idle ELSE [q EXCEPT !.left = Tail(@)]
  <2>2. /\ Created(Head(q.left)) /\ request' = [request EXCEPT ![r] = next]
        /\ sender' = sender
    BY <1>3, <2>1 DEF ImportItem
  <2>3. q \in [op : {"import"}, left : Seq(Items) \ {<<>>}]
    BY <2>1 DEF TableInv, CallOK
  <2>4. Head(q.left) \in Items /\ Tail(q.left) \in Seq(Items)
    BY <2>3
  <2>5. CallOK(next)
    <3>1. CASE Len(q.left) = 1
      BY <3>1, Markers
    <3>2. CASE Len(q.left) # 1
      <4>1. Tail(q.left) # <<>>
        <5>1. PICK left \in Seq(Items) : left = q.left /\ left # <<>> /\ Len(left) # 1
          BY <2>3, <3>2
        <5>2. Len(left) \in Nat /\ Len(left) # 0 /\ Len(Tail(left)) = Len(left) - 1
          BY <5>1, EmptySeq, HeadTailProperties
        <5>3. Len(Tail(left)) # 0 /\ Len(<<>>) = 0
          <6>1. \A a \in Nat : a # 0 /\ a # 1 => a - 1 # 0
            OBVIOUS
          <6> QED BY <5>1, <5>2, <6>1
        <5>4. Tail(left) # <<>>
          BY <5>3
        <5> QED BY <5>1, <5>4
      <4>2. next \in [op : {"import"}, left : Seq(Items) \ {<<>>}]
        BY <2>3, <2>4, <3>2, <4>1
      <4>3. next.op = "import"
        BY <4>2
      <4> HIDE DEF next
      <4> QED BY <4>2, <4>3 DEF CallOK
    <3> QED BY <3>1, <3>2
  <2> HIDE DEF next
  <2>6. DOMAIN request' = Request /\ \A s \in Request : CallOK(request'[s])
    BY <2>2, <2>5, CallSet
  <2>7. SenderOK(sender') /\ Row(New(Head(q.left)))
    BY <2>2, <2>4, NewRow DEF TableInv
  <2> QED BY <2>2, <2>6, <2>7, CreatedStep
<1> QED BY <1>1, <1>2, <1>3 DEF CreateRoutes

LEMMA DeleteRuleKeepsTable ==
  ASSUME TableInv, NEW r \in Request, NEW i \in RuleId, DeleteRule(r, i)
  PROVE  TableInv'
<1>1. rules' = [rules EXCEPT ![i] = Gone] /\ UNCHANGED <<groups, asked, overlapped>>
  BY DEF DeleteRule
<1>2. /\ rules'[i] = Gone /\ DOMAIN rules' = RuleId /\ DOMAIN asked' = RuleId
      /\ \A j \in RuleId \ {i} : rules'[j] = rules[j] /\ asked'[j] = asked[j]
  BY <1>1 DEF TableInv
<1>3. /\ DOMAIN request' = Request /\ \A s \in Request : CallOK(request'[s])
      /\ SenderOK(sender')
  BY CallEnds DEF DeleteRule
<1>4. RuleAt(i)'
  BY <1>2 DEF RuleAt, Gone
<1> QED BY <1>1, <1>2, <1>3, <1>4, TableRule

LEMMA RuleRoutesKeepTable ==
  ASSUME TableInv, NEW r \in Request, RuleRoutes(r)
  PROVE  TableInv'
<1>1. ASSUME NEW i \in RuleId, NEW p \in Patch, PatchRule(r, i, p)  PROVE TableInv'
  <2>1. PICK q : q = [op |-> "patch", rule |-> i, patch |-> p, old |-> rules[i]]
    OBVIOUS
  <2>2. Begin(r, q) /\ i \in Rows /\ ValidRule(Merged(rules[i], p))
    BY <1>1, <2>1 DEF PatchRule, Storable
  <2>3. CallOK(q)
    <3>1. q.op = "patch" /\ q.rule = i /\ q.patch = p /\ q.old = rules[i]
      BY <2>1
    <3>2. Row(q.old) /\ Columns(q.patch) /\ ValidRule(Merged(q.old, q.patch))
      BY <2>2, <3>1, RowOf, RuleAssumption
    <3> QED BY <3>1, <3>2 DEF CallOK
  <2> QED BY <2>2, <2>3, BeginStep
<1>2. ASSUME NEW i \in RuleId, DuplicateRead(r, i)  PROVE TableInv'
  <2>1. PICK q : q = [op |-> "duplicate", old |-> rules[i]]
    OBVIOUS
  <2>2. Begin(r, q) /\ Row(rules[i])
    BY <1>2, <2>1, RowOf DEF DuplicateRead
  <2>3. CallOK(q)
    <3>1. q.op = "duplicate" /\ q.old = rules[i]
      BY <2>1
    <3> QED BY <2>2, <3>1 DEF CallOK
  <2> QED BY <2>2, <2>3, BeginStep
<1>3. ASSUME UpdateRule(r)  PROVE TableInv'
  <2>1. PICK q : q = request[r] /\ q.op = "patch"
    BY <1>3 DEF UpdateRule
  <2>2. Updated(q.rule, q.old, q.patch) /\ Ends(r)
    BY <1>3, <2>1 DEF UpdateRule
  <2>3. Row(q.old) /\ Columns(q.patch) /\ ValidRule(Merged(q.old, q.patch))
    BY <2>1 DEF TableInv, CallOK
  <2> QED BY <2>2, <2>3, CallEnds, UpdatedStep
<1>4. ASSUME DuplicateRule(r)  PROVE TableInv'
  <2>1. PICK q : q = request[r] /\ q.op = "duplicate"
    BY <1>4 DEF DuplicateRule
  <2> DEFINE copy == [q.old EXCEPT !.name = "copy", !.enabled = FALSE]
  <2>2. Created(copy) /\ Ends(r)
    BY <1>4, <2>1 DEF DuplicateRule
  <2>3. Row(q.old)
    BY <2>1 DEF TableInv, CallOK
  <2>4. Row(copy)
    <3>1. /\ "name" \in DOMAIN Column /\ "enabled" \in DOMAIN Column
          /\ FALSE \in Column["enabled"] /\ "copy" \in Column["name"]
      BY ColumnNames, RuleAssumption DEF Column
    <3>2. Row([q.old EXCEPT !["name"] = "copy"])
      BY <2>3, <3>1, RowExcept
    <3>3. Row([[q.old EXCEPT !["name"] = "copy"] EXCEPT !["enabled"] = FALSE])
      BY <3>1, <3>2, RowExcept
    <3> QED BY <3>3
  <2> HIDE DEF copy
  <2> QED BY <2>2, <2>4, NewRow, CallEnds, CreatedStep
<1> QED BY <1>1, <1>2, <1>3, <1>4, DeleteRuleKeepsTable DEF RuleRoutes

LEMMA DeleteGroupKeepsTable ==
  ASSUME TableInv, NEW r \in Request, DeleteGroup(r)
  PROVE  TableInv'
<1>1. PICK q : q = request[r] /\ q.op = "deleteGroup"
  BY DEF DeleteGroup
<1>2. PICK gone : gone = Leaving(q)
  OBVIOUS
<1>3. /\ q.members \subseteq Rows /\ gone = q.members
      /\ \A i \in Rows \ q.members : rules[i].group # q.group
      /\ groups' = [groups EXCEPT ![q.group] = Gone]
      /\ overlapped' = overlapped \cup {i \in q.members : rules[i] # q.old[i]}
      /\ Ends(r)
  BY <1>1, <1>2 DEF DeleteGroup, Leaving
<1>4. /\ rules' = [i \in RuleId |-> IF i \in gone THEN [rules[i] EXCEPT !.group = NoGroup]
                                    ELSE rules[i]]
      /\ asked' = [i \in RuleId |-> IF i \in gone THEN [asked[i] EXCEPT !.group = NoGroup]
                                    ELSE asked[i]]
  BY <1>1, <1>2 DEF DeleteGroup
<1>5. q.group \in Group /\ groups' \in [Group -> {Unused, Gone} \cup [is : {"row"}, enabled : BOOLEAN]]
  BY <1>1, <1>3 DEF TableInv, CallOK
<1>6. ASSUME NEW i \in RuleId  PROVE RuleAt(i)'
  <2>1. CASE i \in gone
    <3>1. /\ Row(rules[i]) /\ Row(asked[i])
          /\ i \notin overlapped => rules[i] = asked[i] /\ ValidRule(rules[i])
      BY <1>3, <2>1, RowOf
    <3>2. /\ rules'[i] = [rules[i] EXCEPT !.group = NoGroup]
          /\ asked'[i] = [asked[i] EXCEPT !.group = NoGroup]
      BY <1>4, <2>1
    <3>3. "group" \in DOMAIN Column /\ NoGroup \in Column["group"]
      BY ColumnNames DEF Column
    <3>4. Row(rules'[i]) /\ Row(asked'[i])
      BY <3>1, <3>2, <3>3, RowExcept
    <3>5. /\ rules'[i].group = NoGroup /\ rules'[i].type = rules[i].type
          /\ rules'[i].pattern = rules[i].pattern /\ rules'[i].useRegex = rules[i].useRegex
          /\ rules'[i].match = rules[i].match
      BY <3>1, <3>2, RowFacts, ColumnNames
    <3>6. ValidRule(rules[i]) => ValidRule(rules'[i])
      BY <3>5 DEF ValidRule, UsesRegex
    <3>7. i \notin overlapped' => rules'[i] = asked'[i] /\ ValidRule(rules'[i])
      BY <1>3, <3>1, <3>2, <3>6
    <3> QED BY <3>4, <3>5, <3>7 DEF RuleAt, GroupIs
  <2>2. CASE i \notin gone
    <3>1. rules'[i] = rules[i] /\ asked'[i] = asked[i] /\ (i \in Rows => rules[i].group # q.group)
      BY <1>3, <1>4, <2>2
    <3>2. i \in Rows \/ rules[i] \in {Unused, Gone}
      BY Markers DEF TableInv
    <3>3. i \in Rows => rules[i].group \in Group \cup {NoGroup}
      BY RowOf, RowFacts
    <3>4. ASSUME i \in Rows
          PROVE  rules'[i].group # NoGroup => groups'[rules'[i].group].is = "row"
      <4>1. GroupIs(rules[i].group, "row") /\ rules[i].group # q.group
        BY <3>1, <3>4, RowOf
      <4>2. \A g \in Group : g # q.group => groups'[g] = groups[g]
        BY <1>3 DEF TableInv
      <4> QED BY <3>1, <3>3, <3>4, <4>1, <4>2 DEF GroupIs
    <3>5. overlapped \subseteq overlapped'
      BY <1>3
    <3>6. CASE i \in Rows
      <4>1. /\ Row(rules[i]) /\ Row(asked[i])
            /\ i \notin overlapped => rules[i] = asked[i] /\ ValidRule(rules[i])
        BY <3>6, RowOf
      <4>2. /\ Row(rules'[i]) /\ Row(asked'[i])
            /\ i \notin overlapped' => rules'[i] = asked'[i] /\ ValidRule(rules'[i])
        BY <3>1, <3>5, <4>1
      <4> QED BY <3>4, <3>6, <4>2 DEF RuleAt, GroupIs
    <3>7. CASE rules[i] \in {Unused, Gone}
      BY <3>1, <3>7 DEF RuleAt, Unused, Gone
    <3> QED BY <3>2, <3>6, <3>7
  <2> QED BY <2>1, <2>2
<1>7. DOMAIN rules' = RuleId /\ DOMAIN asked' = RuleId
  BY <1>4
<1>8. /\ DOMAIN request' = Request /\ \A s \in Request : CallOK(request'[s])
      /\ SenderOK(sender')
  BY <1>3, CallEnds
<1> QED BY <1>5, <1>6, <1>7, <1>8 DEF TableInv

LEMMA GroupRoutesKeepTable ==
  ASSUME TableInv, NEW r \in Request, GroupRoutes(r)
  PROVE  TableInv'
<1>1. ASSUME NEW g \in Group, NEW e \in BOOLEAN, CreateGroup(r, g, e)  PROVE TableInv'
  <2>1. /\ groups[g] = Unused /\ AtOnce(r) /\ UNCHANGED <<rules, asked, overlapped>>
        /\ groups' = [groups EXCEPT ![g] = [is |-> "row", enabled |-> e]]
    BY <1>1 DEF CreateGroup
  <2>2. groups' \in [Group -> {Unused, Gone} \cup [is : {"row"}, enabled : BOOLEAN]]
    BY <2>1 DEF TableInv
  <2>3. \A h \in Group : groups[h].is = "row" => groups'[h].is = "row"
    BY <2>1 DEF TableInv
  <2> QED BY <2>1, <2>2, <2>3, CallEnds, TableGroup
<1>2. ASSUME NEW g \in Group, NEW e \in BOOLEAN, PatchGroup(r, g, e)  PROVE TableInv'
  <2>1. PICK q : q = [op |-> "patchGroup", group |-> g, enabled |-> e, old |-> groups[g]]
    OBVIOUS
  <2>2. Begin(r, q)
    BY <1>2, <2>1 DEF PatchGroup
  <2>3. CallOK(q)
    <3>1. q.op = "patchGroup" /\ q.group = g
      BY <2>1
    <3>2. q.enabled \in BOOLEAN
      BY <2>1
    <3> QED BY <3>1, <3>2 DEF CallOK
  <2> QED BY <2>2, <2>3, BeginStep
<1>3. ASSUME NEW g \in Group, DeleteGroupRead(r, g)  PROVE TableInv'
  <2>1. PICK q : q = [op |-> "deleteGroup", group |-> g,
                      members |-> {i \in Rows : rules[i].group = g}, old |-> rules]
    OBVIOUS
  <2>2. Begin(r, q)
    BY <1>3, <2>1 DEF DeleteGroupRead
  <2>3. CallOK(q)
    <3>1. q.op = "deleteGroup" /\ q.group = g
      BY <2>1
    <3> QED BY <3>1 DEF CallOK
  <2> QED BY <2>2, <2>3, BeginStep
<1>4. ASSUME UpdateGroup(r)  PROVE TableInv'
  <2>1. PICK q : q = request[r] /\ q.op = "patchGroup"
    BY <1>4 DEF UpdateGroup
  <2>2. PICK g, e : g = q.group /\ e = IF q.enabled = q.old.enabled THEN groups[g].enabled
                                       ELSE q.enabled
    OBVIOUS
  <2>3. /\ groups[g].is = "row" /\ groups' = [groups EXCEPT ![g].enabled = e]
        /\ Ends(r) /\ UNCHANGED <<rules, asked, overlapped>>
    BY <1>4, <2>1, <2>2 DEF UpdateGroup
  <2>4. g \in Group /\ q.enabled \in BOOLEAN
    BY <2>1, <2>2 DEF TableInv, CallOK
  <2>5. groups[g] \in [is : {"row"}, enabled : BOOLEAN]
    BY <2>3, <2>4 DEF TableInv, Unused, Gone
  <2>6. e \in BOOLEAN
    <3>1. \A row \in [is : {"row"}, enabled : BOOLEAN] : row.enabled \in BOOLEAN
      OBVIOUS
    <3> QED BY <2>2, <2>4, <2>5, <3>1
  <2>7. [groups[g] EXCEPT !.enabled = e] \in [is : {"row"}, enabled : BOOLEAN]
    BY <2>5, <2>6
  <2>8. groups' = [groups EXCEPT ![g] = [groups[g] EXCEPT !.enabled = e]]
    BY <2>3
  <2>9. groups' \in [Group -> {Unused, Gone} \cup [is : {"row"}, enabled : BOOLEAN]]
    BY <2>7, <2>8 DEF TableInv
  <2>10. \A h \in Group : groups[h].is = "row" => groups'[h].is = "row"
    BY <2>4, <2>5, <2>8 DEF TableInv
  <2> QED BY <2>3, <2>9, <2>10, CallEnds, TableGroup
<1> QED BY <1>1, <1>2, <1>3, <1>4, DeleteGroupKeepsTable DEF GroupRoutes

LEMMA SeedingKeepsTable ==
  ASSUME TableInv, Seeding
  PROVE  TableInv'
<1>1. PICK s : s = sender /\ SenderOK(s)
  BY DEF TableInv
<1>2. ASSUME NEW next, Starting(next)
      PROVE  /\ DOMAIN request' = Request /\ \A r \in Request : CallOK(request'[r])
             /\ sender' = next
  BY <1>2 DEF Starting, TableInv
<1>3. ASSUME NEW next, SenderOK(next), Starting(next), UNCHANGED <<rules, groups, asked, overlapped>>
      PROVE  TableInv'
  BY <1>2, <1>3, TableLeft
<1>4. SenderOK([is |-> "failed"]) /\ SenderOK([is |-> "up"])
  BY DEF SenderOK
<1>5. s.is \in {"creating", "reading", "updating"}
      => SenderOK(SeedNext) /\ Head(s.left) \in Items
  <2> SUFFICES ASSUME s.is \in {"creating", "reading", "updating"}
               PROVE  SenderOK(SeedNext) /\ Head(s.left) \in Items
    OBVIOUS
  <2>1. s.left \in Seq(Items) /\ s.left # <<>>
    BY <1>1 DEF SenderOK
  <2>2. Head(s.left) \in Items /\ Tail(s.left) \in Seq(Items)
    BY <2>1, HeadTailProperties
  <2> QED BY <1>1, <2>2 DEF SenderOK, SeedNext
<1>6. CASE SeedLookup
  <2>1. PICK found : found = Named(Head(s.left).name)
    OBVIOUS
  <2>2. found \subseteq RuleId /\ s.left \in Seq(Items) /\ s.left # <<>>
    BY <1>1, <1>6, <2>1 DEF SeedLookup, SenderOK, Named, Rows
  <2>3. PICK next : next = IF Ambiguous(found) THEN [is |-> "failed"]
                           ELSE IF found = {} THEN [is |-> "creating", left |-> s.left]
                           ELSE [is |-> "reading", left |-> s.left,
                                 rule |-> CHOOSE i \in found : TRUE]
    OBVIOUS
  <2>4. Starting(next) /\ UNCHANGED <<rules, groups, asked, overlapped>>
    BY <1>1, <1>6, <2>1, <2>3 DEF SeedLookup, table
  <2>5. SenderOK(next)
    <3>1. CASE Ambiguous(found)
      BY <1>4, <2>3, <3>1
    <3>2. CASE ~Ambiguous(found) /\ found = {}
      BY <2>2, <2>3, <3>2 DEF SenderOK
    <3>3. CASE ~Ambiguous(found) /\ found # {}
      <4>1. (CHOOSE i \in found : TRUE) \in RuleId
        BY <2>2, <3>3
      <4> QED BY <2>2, <2>3, <3>3, <4>1 DEF SenderOK
    <3> QED BY <3>1, <3>2, <3>3
  <2> QED BY <1>3, <2>4, <2>5
<1>7. CASE SeedCreate
  <2>1. s.is = "creating" /\ Created(Head(s.left)) /\ Starting(SeedNext)
    BY <1>1, <1>7 DEF SeedCreate
  <2>2. Row(New(Head(s.left))) /\ SenderOK(SeedNext)
    BY <1>5, <2>1, NewRow
  <2> QED BY <1>2, <2>1, <2>2, CreatedStep
<1>8. CASE SeedRead
  <2>1. PICK next : next = IF s.rule \in Rows /\ Storable(Merged(rules[s.rule], Head(s.left)))
                           THEN [is |-> "updating", left |-> s.left, rule |-> s.rule,
                                 old |-> rules[s.rule]]
                           ELSE [is |-> "failed"]
    OBVIOUS
  <2>2. s.is = "reading" /\ Starting(next) /\ UNCHANGED <<rules, groups, asked, overlapped>>
    BY <1>1, <1>8, <2>1 DEF SeedRead, table
  <2>3. SenderOK(next)
    <3>1. s.left \in Seq(Items) /\ s.left # <<>> /\ s.rule \in RuleId
      BY <1>1, <2>2 DEF SenderOK
    <3>2. CASE s.rule \in Rows /\ Storable(Merged(rules[s.rule], Head(s.left)))
      <4>1. /\ next.is = "updating" /\ next.left = s.left /\ next.rule = s.rule
            /\ next.old = rules[s.rule]
        BY <2>1, <3>2
      <4>2. Row(next.old) /\ ValidRule(Merged(next.old, Head(next.left)))
        BY <3>2, <4>1, RowOf DEF Storable
      <4> QED BY <3>1, <4>1, <4>2 DEF SenderOK
    <3>3. CASE ~(s.rule \in Rows /\ Storable(Merged(rules[s.rule], Head(s.left))))
      BY <1>4, <2>1, <3>3
    <3> QED BY <3>2, <3>3
  <2> QED BY <1>3, <2>2, <2>3
<1>9. CASE SeedUpdate
  <2>1. s.is = "updating" /\ Row(s.old) /\ ValidRule(Merged(s.old, Head(s.left)))
    BY <1>1, <1>9 DEF SeedUpdate, SenderOK
  <2>2. CASE s.rule \in Rows
    <3>1. Updated(s.rule, s.old, Head(s.left)) /\ Starting(SeedNext)
      BY <1>1, <1>9, <2>2 DEF SeedUpdate
    <3>2. Columns(Head(s.left)) /\ SenderOK(SeedNext)
      BY <1>5, <2>1, NewRow
    <3> QED BY <1>2, <2>1, <3>1, <3>2, UpdatedStep
  <2>3. CASE s.rule \notin Rows
    <3>1. Starting([is |-> "failed"]) /\ UNCHANGED <<rules, groups, asked, overlapped>>
      BY <1>1, <1>9, <2>3 DEF SeedUpdate, table
    <3> QED BY <1>3, <1>4, <3>1
  <2> QED BY <2>2, <2>3
<1>10. CASE Started
  BY <1>3, <1>4, <1>10 DEF Started, table
<1> QED BY <1>6, <1>7, <1>8, <1>9, <1>10 DEF Seeding

LEMMA TableStep ==
  ASSUME TableInv, [Next]_vars
  PROVE  TableInv'
<1>1. ASSUME UNCHANGED <<rules, groups, asked, overlapped, request>>, SenderOK(sender')
      PROVE  TableInv'
  <2>1. DOMAIN request' = Request /\ \A r \in Request : CallOK(request'[r])
    BY <1>1 DEF TableInv
  <2> QED BY <1>1, <2>1, TableLeft
<1>2. SenderOK([is |-> "seeding", left |-> SeedFile])
  BY RuleAssumption DEF SenderOK
<1>3. ASSUME NEW r \in Request, Operators(r)  PROVE TableInv'
  <2>1. CASE Raises(r)
    <3>1. Ends(r) /\ UNCHANGED <<rules, groups, asked, overlapped>>
      BY <2>1 DEF Raises, table
    <3> QED BY <3>1, CallEnds, TableLeft
  <2> QED BY <1>3, <2>1, CreateRoutesKeepTable, RuleRoutesKeepTable, GroupRoutesKeepTable
          DEF Operators
<1>4. CASE Seeding
  BY <1>4, SeedingKeepsTable
<1>5. CASE Restart \/ Crash
  <2>1. /\ sender' = [is |-> "seeding", left |-> SeedFile]
        /\ UNCHANGED <<rules, groups, asked, overlapped, request>>
    BY <1>5 DEF Restart, Crash, Restarts, table, seen
  <2> QED BY <1>1, <1>2, <2>1
<1>6. ASSUME NEW w \in Worker, Works(w)  PROVE TableInv'
  <2>1. UNCHANGED <<rules, groups, asked, overlapped, request, sender>>
    BY <1>6 DEF Works, Filter, Apply, ReadCounts, RecordHits, Decide, table, seen
  <2> QED BY <1>1, <2>1 DEF TableInv
<1>7. ASSUME NEW m \in Message, Publish(m) \/ Age(m)  PROVE TableInv'
  <2>1. UNCHANGED <<rules, groups, asked, overlapped, request, sender>>
    BY <1>7 DEF Publish, Age, table, seen
  <2> QED BY <1>1, <2>1 DEF TableInv
<1>8. CASE UNCHANGED vars
  <2>1. UNCHANGED <<rules, groups, asked, overlapped, request, sender>>
    BY <1>8 DEF vars, table, seen
  <2> QED BY <1>1, <2>1 DEF TableInv
<1> QED BY <1>3, <1>4, <1>5, <1>6, <1>7, <1>8 DEF Next

LEMMA TableAlways == Spec => []TableInv
<1>1. TableInv /\ [Next]_vars => TableInv'
  BY TableStep
<1> QED BY TableInit, <1>1, PTL DEF Spec

\* What an operator or the seed file made of a rule stays, unless calls overlapped.
THEOREM ChangesSurvive == Spec => []PatchesSurvive
<1>1. TableInv => PatchesSurvive
  BY RowOf DEF PatchesSurvive
<1> QED BY TableAlways, <1>1, PTL

-----------------------------------------------------------------------------
(* The passes of the workers, the counters and the hashes.                 *)

Stages == {"idle", "groups", "applied", "counting", "recorded"}

\* What a pass holds: a message that is being processed, the text that the rules are
\* applied to, what they made of it, and counters that were read.
PassOK(p) ==
  /\ p.at \in Stages
  /\ p.at # "idle" => p.m \in Message /\ status[p.m] = "processing"
  /\ p.at = "groups" => p.in = LinkFiltered(TextReplaced(Content[p.m]))
  /\ p.at = "applied" =>
       /\ p.in \in Seq(STRING) /\ Definitions(p.rules)
       /\ p.out = ApplyRules(p.rules, p.in, Content[p.m], p.slow)
  /\ p.at \in {"applied", "counting", "recorded"} => p.out \in Applied
  /\ p.at = "counting" => p.read \in [RuleId -> Nat] /\ \A i \in RuleId : p.read[i] <= logs[i]

\* Two passes never have the same message.
Apart ==
  \A v, w \in Worker : v # w /\ worker[v].at # "idle" /\ worker[w].at # "idle"
                       => worker[v].m # worker[w].m

\* No counter is ahead of the logs, and one that no two sessions counted at once is exact.
Counted ==
  /\ counts \in [RuleId -> Nat] /\ logs \in [RuleId -> Nat]
  /\ \A i \in RuleId : counts[i] <= logs[i] /\ (i \notin contended => counts[i] = logs[i])

\* What the check that let a message through could have met has another hash.
Deduplicated ==
  \A n \in Message : \A m \in clean[n] :
    m \in Message /\ status[m] = "published" /\ hash[m] # hash[n]

Hashed ==
  \A m \in Message : status[m] \in {"review", "passed", "published"} =>
    \E text : hash[m] = HashOf(Content[m], text)

PassInv ==
  /\ DOMAIN worker = Worker /\ \A w \in Worker : PassOK(worker[w])
  /\ Apart /\ Counted /\ Deduplicated /\ Hashed
  /\ DOMAIN hash = Message /\ DOMAIN clean = Message /\ DOMAIN status = Message
  /\ \A m \in Message :
       status[m] \in {"received", "processing", "filtered", "review", "passed", "published"}

LEMMA RestingOK == Resting.at = "idle" /\ PassOK(Resting)
<1>1. Resting.at = "idle"
  BY DEF Resting
<1> QED BY <1>1 DEF PassOK, Stages

LEMMA PassInit ==
  ASSUME Init  PROVE PassInv
<1>1. DOMAIN worker = Worker /\ \A w \in Worker : worker[w] = Resting
  BY DEF Init
<1>2. (\A w \in Worker : PassOK(worker[w])) /\ Apart
  BY <1>1, RestingOK DEF Apart
<1>3. Counted
  BY DEF Init, Counted
<1>4. Deduplicated /\ Hashed
  BY DEF Init, Deduplicated, Hashed
<1>5. /\ DOMAIN hash = Message /\ DOMAIN clean = Message /\ DOMAIN status = Message
      /\ \A m \in Message : status[m] = "received"
  BY DEF Init
<1> QED BY <1>1, <1>2, <1>3, <1>4, <1>5 DEF PassInv

LEMMA PassLeft ==
  ASSUME PassInv, UNCHANGED <<counts, logs, worker, status, hash, contended, clean>>
  PROVE  PassInv'
BY DEF PassInv, PassOK, Apart, Counted, Deduplicated, Hashed

\* The rules that are loaded for a pass.
LEMMA LoadedOK ==
  ASSUME TableInv, NEW p
  PROVE  Definitions({Definition(i) : i \in Loaded(p)})
<1> DEFINE I == Loaded(p)
           R == {Definition(i) : i \in I}
<1>1. I \subseteq RuleId /\ \A i \in I : Row(rules[i])
  BY RowOf DEF Loaded, Rows
<1>2. IsFiniteSet(I)
  BY <1>1, RuleAssumption, FS_Subset
<1>3. ASSUME NEW i \in I
      PROVE  LET d == Definition(i)
             IN /\ d.id = i /\ d.priority \in Int /\ d.stop \in BOOLEAN
                /\ d.pattern \in Seq(STRING) /\ d.replacement \in Seq(STRING)
  <2>1. PICK row : row = rules[i] /\ Row(row)
    BY <1>1
  <2>2. /\ \A c \in DOMAIN Column : row[c] \in Column[c]
        /\ DOMAIN row = DOMAIN Column
    BY <2>1, RowFacts
  <2>3. /\ row.priority \in Int /\ row.stop \in BOOLEAN /\ row.pattern \in Seq(STRING)
        /\ row.replacement \in Seq(STRING)
        /\ {"priority", "stop", "pattern", "replacement"} \subseteq DOMAIN row
    BY <2>2, ColumnNames DEF Column
  <2>4. PICK d : d = Over([id |-> i], row)
    OBVIOUS
  <2>5. d.id = i /\ \A c \in DOMAIN row : c # "id" => d[c] = row[c]
    BY <2>4 DEF Over
  <2>6. d.priority = row.priority /\ d.stop = row.stop /\ d.pattern = row.pattern
        /\ d.replacement = row.replacement
    BY <2>3, <2>5
  <2>7. d = Definition(i)
    BY <2>1, <2>4 DEF Definition
  <2> QED BY <2>3, <2>5, <2>6, <2>7
<1>4. IsFiniteSet(R)
  <2> DEFINE f == [i \in I |-> Definition(i)]
  <2>1. f \in Surjection(I, R)
    BY DEF Surjection
  <2> HIDE DEF f, I, R
  <2> QED BY <1>2, <2>1, FS_Surjection
<1>5. \A d, e \in R : d.id = e.id => d = e
  BY <1>3
<1>6. \A d \in R : /\ d.id \in RuleId /\ d.priority \in Int /\ d.stop \in BOOLEAN
                   /\ d.pattern \in Seq(STRING) /\ d.replacement \in Seq(STRING)
  BY <1>1, <1>3
<1> QED BY <1>4, <1>5, <1>6 DEF Definitions

\* Steps that change the pass of one worker.
LEMMA PassStep ==
  ASSUME PassInv, NEW w \in Worker, NEW q, DOMAIN worker' = Worker, worker'[w] = q, PassOK(q)',
         \A v \in Worker \ {w} : worker'[v] = worker[v],
         \A v \in Worker \ {w} : worker[v].at # "idle" =>
           /\ status'[worker[v].m] = status[worker[v].m]
           /\ q.at # "idle" => worker[v].m # q.m,
         \A i \in RuleId : logs[i] <= logs'[i] /\ logs[i] \in Nat /\ logs'[i] \in Nat
  PROVE  DOMAIN worker' = Worker /\ (\A v \in Worker : PassOK(worker[v]))' /\ Apart'
<1>1. ASSUME NEW v \in Worker, NEW p, p = worker'[v]  PROVE PassOK(p)'
  <2>1. CASE v = w
    <3>1. p = q
      BY <1>1, <2>1
    <3> QED BY <3>1
  <2>2. CASE v # w
    <3>1. p = worker[v]
      BY <1>1, <2>2
    <3>2. PassOK(p)
      BY <3>1 DEF PassInv
    <3>3. p.at # "idle" => status'[p.m] = status[p.m]
      BY <2>2, <3>1
    <3>4. p.at = "counting" => \A i \in RuleId : p.read[i] <= logs'[i]
      <4>1. p.at = "counting" => \A i \in RuleId : p.read[i] \in Nat /\ p.read[i] <= logs[i]
        BY <3>2 DEF PassOK
      <4>2. \A a, b, c \in Nat : a <= b /\ b <= c => a <= c
        OBVIOUS
      <4> QED BY <4>1, <4>2
    <3> QED BY <3>2, <3>3, <3>4 DEF PassOK
  <2> QED BY <2>1, <2>2
<1>2. Apart'
  <2>1. Apart
    BY DEF PassInv
  <2>2. \A v \in Worker : worker'[v] = IF v = w THEN q ELSE worker[v]
    OBVIOUS
  <2> QED BY <2>1, <2>2 DEF Apart
<1>3. (\A v \in Worker : PassOK(worker[v]))'
  BY <1>1 DEF PassOK
<1> QED BY <1>2, <1>3

\* Steps that change the status of messages that are not published.
LEMMA MessageStep ==
  ASSUME PassInv, UNCHANGED <<hash, clean>>,
         \A m \in Message : /\ status[m] = "published" => status'[m] = "published"
                            /\ status'[m] \in {"review", "passed", "published"} =>
                                 status[m] \in {"review", "passed", "published"}
  PROVE  Deduplicated' /\ Hashed'
BY DEF PassInv, Deduplicated, Hashed

LEMMA FilterKeepsPasses ==
  ASSUME PassInv, NEW w \in Worker, NEW m \in Message, Filter(w, m)
  PROVE  PassInv'
<1>1. /\ status[m] = "received" /\ worker[w] = Resting
      /\ UNCHANGED <<counts, logs, contended, hash, clean>>
  BY DEF Filter, table, seen
<1>2. Counted /\ DOMAIN worker = Worker /\ DOMAIN status = Message
  BY DEF PassInv
<1>3. Counted' /\ \A i \in RuleId : logs[i] <= logs'[i] /\ logs[i] \in Nat /\ logs'[i] \in Nat
  BY <1>1, <1>2 DEF Counted
<1>4. \A v \in Worker : worker[v].at # "idle" => worker[v].m # m
  BY <1>1 DEF PassInv, PassOK
<1>5. PICK s \in {"filtered", "processing"} : status' = [status EXCEPT ![m] = s]
  BY DEF Filter
<1>6. /\ DOMAIN status' = Message /\ status'[m] = s
      /\ \A n \in Message \ {m} : status'[n] = status[n]
  BY <1>2, <1>5
<1>7. Deduplicated' /\ Hashed'
  BY <1>1, <1>6, MessageStep
<1>8. \A v \in Worker : worker[v].at # "idle" => status'[worker[v].m] = status[worker[v].m]
  BY <1>4, <1>6 DEF PassInv, PassOK
<1>9. PICK q : /\ DOMAIN worker' = Worker /\ worker'[w] = q /\ PassOK(q)'
               /\ \A v \in Worker \ {w} : worker'[v] = worker[v]
               /\ q.at # "idle" => q.m = m
  <2>1. CASE KeywordDrop(Content[m].text)
    <3>1. UNCHANGED worker
      BY <2>1 DEF Filter
    <3>2. PassOK(Resting)' /\ Resting.at = "idle"
      BY RestingOK DEF PassOK
    <3> QED BY <1>1, <1>2, <3>1, <3>2
  <2>2. CASE ~KeywordDrop(Content[m].text)
    <3>1. PICK q : q = [at |-> "groups", m |-> m, in |-> LinkFiltered(TextReplaced(Content[m])),
                        groups |-> {g \in Group : groups[g].is = "row" /\ groups[g].enabled}]
      OBVIOUS
    <3>2. worker' = [worker EXCEPT ![w] = q] /\ status' = [status EXCEPT ![m] = "processing"]
      BY <2>2, <3>1 DEF Filter, Pass
    <3>3. q.at = "groups" /\ q.m = m /\ q.in = LinkFiltered(TextReplaced(Content[m]))
      BY <3>1
    <3>4. PassOK(q)'
      BY <1>2, <3>2, <3>3 DEF PassOK, Stages
    <3> QED BY <1>2, <3>2, <3>3, <3>4
  <2> QED BY <2>1, <2>2
<1>10. DOMAIN worker' = Worker /\ (\A v \in Worker : PassOK(worker[v]))' /\ Apart'
  BY <1>3, <1>4, <1>8, <1>9, PassStep
<1>11. \A n \in Message : status'[n] \in {"received", "processing", "filtered", "review",
                                          "passed", "published"}
  BY <1>6 DEF PassInv
<1> QED BY <1>1, <1>3, <1>6, <1>7, <1>10, <1>11 DEF PassInv

\* A pass that goes on with the message it has.
LEMMA PassGoesOn ==
  ASSUME PassInv, NEW w \in Worker, NEW q, Pass(w, q), PassOK(q)',
         worker[w].at # "idle", q.at # "idle" => q.m = worker[w].m, Counted',
         UNCHANGED <<status, hash, clean>>, \A i \in RuleId : logs[i] <= logs'[i]
  PROVE  PassInv'
<1>1. DOMAIN worker = Worker /\ Counted /\ Apart
  BY DEF PassInv
<1>2. /\ DOMAIN worker' = Worker /\ worker'[w] = q
      /\ \A v \in Worker \ {w} : worker'[v] = worker[v]
  BY <1>1 DEF Pass
<1>3. \A v \in Worker \ {w} : worker[v].at # "idle" =>
        /\ status'[worker[v].m] = status[worker[v].m]
        /\ q.at # "idle" => worker[v].m # q.m
  BY <1>1 DEF Apart
<1>4. \A i \in RuleId : logs[i] <= logs'[i] /\ logs[i] \in Nat /\ logs'[i] \in Nat
  BY <1>1 DEF Counted
<1>5. DOMAIN worker' = Worker /\ (\A v \in Worker : PassOK(worker[v]))' /\ Apart'
  BY <1>2, <1>3, <1>4, PassStep
<1>6. Deduplicated' /\ Hashed'
  BY MessageStep DEF PassInv
<1>7. /\ DOMAIN hash' = Message /\ DOMAIN clean' = Message /\ DOMAIN status' = Message
      /\ \A m \in Message : status'[m] \in {"received", "processing", "filtered", "review",
                                            "passed", "published"}
  BY DEF PassInv
<1> QED BY <1>5, <1>6, <1>7 DEF PassInv

LEMMA ApplyKeepsPasses ==
  ASSUME TableInv, PassInv, NEW w \in Worker, Apply(w)
  PROVE  PassInv'
<1>1. PICK p : p = worker[w] /\ p.at = "groups"
  BY DEF Apply
<1>2. /\ p.m \in Message /\ status[p.m] = "processing"
      /\ p.in = LinkFiltered(TextReplaced(Content[p.m]))
  BY <1>1 DEF PassInv, PassOK
<1>3. PICK R : R = {Definition(i) : i \in Loaded(p)}
  OBVIOUS
<1>4. PICK slow : Pass(w, [at |-> "applied", m |-> p.m, in |-> p.in, rules |-> R, slow |-> slow,
                           out |-> ApplyRules(R, p.in, Content[p.m], slow)])
  BY <1>1, <1>3 DEF Apply
<1>5. PICK q : q = [at |-> "applied", m |-> p.m, in |-> p.in, rules |-> R, slow |-> slow,
                    out |-> ApplyRules(R, p.in, Content[p.m], slow)]
  OBVIOUS
<1>6. UNCHANGED <<counts, logs, contended, status, hash, clean>>
  BY DEF Apply, table, seen
<1>7. q.at = "applied" /\ q.m = p.m /\ q.in = p.in /\ q.rules = R /\ q.slow = slow
      /\ q.out = ApplyRules(R, p.in, Content[p.m], slow)
  BY <1>5
<1>8. Definitions(R) /\ p.in \in Seq(STRING)
  BY <1>2, <1>3, LoadedOK, FilteredType
<1>9. q.out \in Applied
  BY <1>7, <1>8, ApplyRulesFacts
<1>10. PassOK(q)'
  BY <1>2, <1>6, <1>7, <1>8, <1>9 DEF PassOK, Stages
<1>11. Counted' /\ \A i \in RuleId : logs[i] <= logs'[i]
  BY <1>6 DEF PassInv, Counted
<1> QED BY <1>1, <1>4, <1>5, <1>6, <1>7, <1>10, <1>11, PassGoesOn

LEMMA ReadCountsKeepsPasses ==
  ASSUME PassInv, NEW w \in Worker, ReadCounts(w)
  PROVE  PassInv'
<1>1. PICK p : p = worker[w] /\ p.at = "applied"
  BY DEF ReadCounts
<1>2. p.m \in Message /\ status[p.m] = "processing" /\ p.out \in Applied /\ Counted
  BY <1>1 DEF PassInv, PassOK
<1>3. PICK q : q = [at |-> "counting", m |-> p.m, out |-> p.out, read |-> counts]
  OBVIOUS
<1>4. Pass(w, q) /\ UNCHANGED <<counts, logs, contended, status, hash, clean>>
  BY <1>1, <1>3 DEF ReadCounts, table, seen
<1>5. q.at = "counting" /\ q.m = p.m /\ q.out = p.out /\ q.read = counts
  BY <1>3
<1>6. PassOK(q)'
  BY <1>2, <1>4, <1>5 DEF PassOK, Stages, Counted
<1>7. Counted' /\ \A i \in RuleId : logs[i] <= logs'[i]
  BY <1>2, <1>4 DEF Counted
<1> QED BY <1>1, <1>4, <1>5, <1>6, <1>7, PassGoesOn

LEMMA RecordHitsKeepsPasses ==
  ASSUME PassInv, NEW w \in Worker, RecordHits(w)
  PROVE  PassInv'
<1>1. PICK p : p = worker[w] /\ p.at = "counting"
  BY DEF RecordHits
<1>2. /\ p.m \in Message /\ status[p.m] = "processing" /\ p.out \in Applied /\ Counted
      /\ p.read \in [RuleId -> Nat] /\ \A i \in RuleId : p.read[i] <= logs[i]
  BY <1>1 DEF PassInv, PassOK
<1>3. UNCHANGED <<status, hash, clean>>
  BY DEF RecordHits
<1>4. CASE HitBy(p) \subseteq Rows
  <2>1. PICK times : times = [i \in RuleId |-> HitsOf(i, p.out.hits)]
    OBVIOUS
  <2>2. \A i \in RuleId : times[i] \in Nat /\ (i \notin HitBy(p) => times[i] = 0)
    <3>1. p.out.hits \in Seq(HitCount)
      BY <1>2 DEF Applied
    <3>2. \A i \in RuleId : times[i] = HitsOf(i, p.out.hits)
      BY <2>1
    <3> QED BY <3>1, <3>2, HitsOfFacts DEF HitBy
  <2>3. PICK q : q = [at |-> "recorded", m |-> p.m, out |-> p.out]
    OBVIOUS
  <2>4. /\ logs' = [i \in RuleId |-> logs[i] + times[i]]
        /\ counts' = [i \in RuleId |-> IF i \in HitBy(p) THEN p.read[i] + times[i] ELSE counts[i]]
        /\ contended' = contended \cup {i \in HitBy(p) : counts[i] # p.read[i]}
        /\ Pass(w, q)
    BY <1>1, <1>4, <2>1, <2>3 DEF RecordHits, TimesHit
  <2>5. Counted' /\ \A i \in RuleId : logs[i] <= logs'[i]
    <3>1. logs' \in [RuleId -> Nat] /\ counts' \in [RuleId -> Nat]
      BY <1>2, <2>2, <2>4 DEF Counted
    <3>2. ASSUME NEW i \in RuleId
          PROVE  /\ logs[i] <= logs'[i] /\ counts'[i] <= logs'[i]
                 /\ i \notin contended' => counts'[i] = logs'[i]
      <4>1. /\ counts[i] \in Nat /\ logs[i] \in Nat /\ counts[i] <= logs[i]
            /\ i \notin contended => counts[i] = logs[i]
            /\ p.read[i] \in Nat /\ p.read[i] <= logs[i] /\ times[i] \in Nat
        BY <1>2, <2>2 DEF Counted
      <4>2. logs'[i] = logs[i] + times[i]
            /\ counts'[i] = IF i \in HitBy(p) THEN p.read[i] + times[i] ELSE counts[i]
        BY <2>4
      <4>3. CASE i \in HitBy(p)
        BY <2>4, <4>1, <4>2, <4>3
      <4>4. CASE i \notin HitBy(p)
        BY <2>2, <2>4, <4>1, <4>2, <4>4
      <4> QED BY <4>3, <4>4
    <3> QED BY <3>1, <3>2 DEF Counted
  <2>6. q.at = "recorded" /\ q.m = p.m /\ q.out = p.out
    BY <2>3
  <2>7. PassOK(q)'
    BY <1>2, <1>3, <2>6 DEF PassOK, Stages
  <2> QED BY <1>1, <1>3, <2>4, <2>5, <2>6, <2>7, PassGoesOn
<1>5. CASE ~(HitBy(p) \subseteq Rows)
  <2>1. Pass(w, Resting) /\ UNCHANGED <<counts, logs, contended>>
    BY <1>1, <1>5 DEF RecordHits
  <2>2. PassOK(Resting)' /\ Resting.at = "idle"
    BY RestingOK DEF PassOK
  <2>3. Counted' /\ \A i \in RuleId : logs[i] <= logs'[i]
    BY <1>2, <2>1 DEF Counted
  <2> QED BY <1>1, <1>3, <2>1, <2>2, <2>3, PassGoesOn
<1> QED BY <1>4, <1>5

\* A message is let through only when no published one has its hash.
LEMMA DecideKeepsPasses ==
  ASSUME PassInv, NEW w \in Worker, Decide(w)
  PROVE  PassInv'
<1>1. PICK p : p = worker[w] /\ p.at \in {"applied", "recorded"}
  BY DEF Decide
<1>2. PICK text : text = WithFooter(p.out.text, Content[p.m].type)
  OBVIOUS
<1>3. PICK h : h = HashOf(Content[p.m], text)
  BY Zenon
<1>4. PICK verdict \in {"filtered", "review", "passed"} :
        /\ status' = [status EXCEPT ![p.m] = verdict]
        /\ clean' = [clean EXCEPT ![p.m] = IF verdict = "passed" THEN Published \ aged ELSE {}]
        /\ verdict = "passed" => {m \in Published \ aged : hash[m] = h} = {}
  BY <1>1, <1>2, <1>3 DEF Decide
<1>5. /\ hash' = [hash EXCEPT ![p.m] = h] /\ Pass(w, Resting)
      /\ UNCHANGED <<counts, logs, contended>>
  BY <1>1, <1>2, <1>3 DEF Decide, table
<1>6. p.m \in Message /\ status[p.m] = "processing" /\ Counted /\ Apart
  BY <1>1 DEF PassInv, PassOK
<1>7. DOMAIN worker = Worker /\ DOMAIN hash = Message /\ DOMAIN clean = Message
      /\ DOMAIN status = Message
  BY DEF PassInv
<1>8. /\ DOMAIN hash' = Message /\ DOMAIN clean' = Message /\ DOMAIN status' = Message
      /\ hash'[p.m] = h /\ status'[p.m] = verdict
      /\ clean'[p.m] = IF verdict = "passed" THEN Published \ aged ELSE {}
      /\ \A m \in Message \ {p.m} : hash'[m] = hash[m] /\ clean'[m] = clean[m]
                                    /\ status'[m] = status[m]
  BY <1>4, <1>5, <1>6, <1>7
<1>9. DOMAIN worker' = Worker /\ (\A v \in Worker : PassOK(worker[v]))' /\ Apart'
  <2>1. PassOK(Resting)' /\ Resting.at = "idle"
    BY RestingOK DEF PassOK
  <2>2. /\ DOMAIN worker' = Worker /\ worker'[w] = Resting
        /\ \A v \in Worker \ {w} : worker'[v] = worker[v]
    BY <1>5, <1>7 DEF Pass
  <2>3. ASSUME NEW v \in Worker \ {w}, worker[v].at # "idle"
        PROVE  status'[worker[v].m] = status[worker[v].m]
    <3>1. worker[v].m \in Message /\ worker[v].m # p.m
      BY <1>1, <1>6, <2>3 DEF PassInv, PassOK, Apart
    <3> QED BY <1>8, <3>1
  <2>4. \A i \in RuleId : logs[i] <= logs'[i] /\ logs[i] \in Nat /\ logs'[i] \in Nat
    BY <1>5, <1>6 DEF Counted
  <2> QED BY <2>1, <2>2, <2>3, <2>4, PassStep
<1>10. Deduplicated'
  <2>1. ASSUME NEW n \in Message, NEW m \in clean'[n]
        PROVE  m \in Message /\ status'[m] = "published" /\ hash'[m] # hash'[n]
    <3>1. CASE n = p.m
      <4>1. verdict = "passed" /\ m \in Published \ aged
        BY <1>8, <2>1, <3>1
      <4>2. m \in Message /\ status[m] = "published" /\ hash[m] # h
        BY <1>4, <4>1 DEF Published
      <4> QED BY <1>6, <1>8, <3>1, <4>2
    <3>2. CASE n # p.m
      <4>1. m \in Message /\ status[m] = "published" /\ hash[m] # hash[n]
        BY <1>8, <2>1, <3>2 DEF PassInv, Deduplicated
      <4> QED BY <1>6, <1>8, <3>2, <4>1
    <3> QED BY <3>1, <3>2
  <2> QED BY <2>1 DEF Deduplicated
<1>11. Hashed'
  BY <1>3, <1>6, <1>8 DEF PassInv, Hashed
<1>12. \A m \in Message : status'[m] \in {"received", "processing", "filtered", "review",
                                          "passed", "published"}
  BY <1>8 DEF PassInv
<1>13. Counted'
  BY <1>5, <1>6 DEF Counted
<1> QED BY <1>8, <1>9, <1>10, <1>11, <1>12, <1>13 DEF PassInv

\* Passes stay, and messages that no pass has may be published.
LEMMA PublishKeepsPasses ==
  ASSUME PassInv, NEW m \in Message, Publish(m)
  PROVE  PassInv'
<1>1. /\ status[m] \in {"passed", "review"} /\ status' = [status EXCEPT ![m] = "published"]
      /\ UNCHANGED <<counts, logs, worker, hash, contended, clean>>
  BY DEF Publish, table, seen
<1>2. DOMAIN status = Message /\ Counted /\ Apart
  BY DEF PassInv
<1>3. /\ DOMAIN status' = Message /\ status'[m] = "published"
      /\ \A n \in Message \ {m} : status'[n] = status[n]
  BY <1>1, <1>2
<1>4. Deduplicated' /\ Hashed'
  BY <1>1, <1>3, MessageStep
<1>5. ASSUME NEW v \in Worker  PROVE PassOK(worker[v])'
  <2>1. PassOK(worker[v]) /\ (worker[v].at # "idle" => worker[v].m # m)
    BY <1>1 DEF PassInv, PassOK
  <2> QED BY <1>1, <1>3, <2>1 DEF PassOK
<1>6. Counted' /\ Apart'
  BY <1>1, <1>2 DEF Counted, Apart
<1>7. \A n \in Message : status'[n] \in {"received", "processing", "filtered", "review",
                                         "passed", "published"}
  BY <1>3 DEF PassInv
<1> QED BY <1>1, <1>3, <1>4, <1>5, <1>6, <1>7 DEF PassInv

\* A restart ends the passes and takes up their messages again.
LEMMA RestartsKeepPasses ==
  ASSUME PassInv, Restarts
  PROVE  PassInv'
<1>1. /\ worker' = [w \in Worker |-> Resting]
      /\ status' = [m \in Message |-> IF status[m] = "processing" THEN "received" ELSE status[m]]
      /\ UNCHANGED <<counts, logs, hash, contended, clean>>
  BY DEF Restarts, table, seen
<1>2. DOMAIN worker' = Worker /\ \A w \in Worker : worker'[w] = Resting
  BY <1>1
<1>3. (\A w \in Worker : PassOK(worker[w]))' /\ Apart'
  <2>1. Resting.at = "idle"
    BY RestingOK
  <2> QED BY <1>2, <2>1 DEF PassOK, Stages, Apart
<1>4. /\ DOMAIN status' = Message
      /\ \A m \in Message :
           status'[m] = IF status[m] = "processing" THEN "received" ELSE status[m]
  BY <1>1
<1>5. Deduplicated' /\ Hashed'
  BY <1>1, <1>4, MessageStep
<1>6. Counted'
  BY <1>1 DEF PassInv, Counted
<1>7. \A m \in Message : status'[m] \in {"received", "processing", "filtered", "review",
                                         "passed", "published"}
  BY <1>4 DEF PassInv
<1> QED BY <1>1, <1>2, <1>3, <1>4, <1>5, <1>6, <1>7 DEF PassInv

LEMMA PassesStep ==
  ASSUME TableInv, PassInv, [Next]_vars
  PROVE  PassInv'
<1>1. ASSUME NEW r \in Request, Operators(r)  PROVE PassInv'
  <2>1. UNCHANGED <<counts, logs, worker, status, hash, contended, clean>>
    <3>1. CASE CreateRoutes(r)
      BY <3>1 DEF CreateRoutes, CreateRule, ImportRules, ImportItem, Created, AtOnce, Begin,
                  table, seen
    <3>2. CASE RuleRoutes(r)
      BY <3>2 DEF RuleRoutes, PatchRule, DeleteRule, DuplicateRead, UpdateRule, DuplicateRule,
                  Updated, Created, AtOnce, Begin, Ends, table, seen
    <3>3. CASE GroupRoutes(r)
      BY <3>3 DEF GroupRoutes, CreateGroup, PatchGroup, DeleteGroupRead, UpdateGroup,
                  DeleteGroup, AtOnce, Begin, Ends, table, seen
    <3>4. CASE Raises(r)
      BY <3>4 DEF Raises, Ends, table
    <3> QED BY <1>1, <3>1, <3>2, <3>3, <3>4 DEF Operators
  <2> QED BY <2>1, PassLeft
<1>2. CASE Seeding
  <2>1. UNCHANGED <<counts, logs, worker, status, hash, contended, clean>>
    BY <1>2 DEF Seeding, SeedLookup, SeedCreate, SeedRead, SeedUpdate, Started, Created, Updated,
                Starting, table
  <2> QED BY <2>1, PassLeft
<1>3. CASE Restart \/ Crash
  BY <1>3, RestartsKeepPasses DEF Restart, Crash
<1>4. ASSUME NEW w \in Worker, Works(w)  PROVE PassInv'
  BY <1>4, FilterKeepsPasses, ApplyKeepsPasses, ReadCountsKeepsPasses, RecordHitsKeepsPasses,
     DecideKeepsPasses DEF Works
<1>5. ASSUME NEW m \in Message, Publish(m) \/ Age(m)  PROVE PassInv'
  <2>1. CASE Publish(m)
    BY <2>1, PublishKeepsPasses
  <2>2. CASE Age(m)
    <3>1. UNCHANGED <<counts, logs, worker, status, hash, contended, clean>>
      BY <2>2 DEF Age, table, seen
    <3> QED BY <3>1, PassLeft
  <2> QED BY <1>5, <2>1, <2>2
<1>6. CASE UNCHANGED vars
  BY <1>6, PassLeft DEF vars, table, seen
<1> QED BY <1>1, <1>2, <1>3, <1>4, <1>5, <1>6 DEF Next

LEMMA PassesAlways == Spec => [](TableInv /\ PassInv)
<1>1. Init => TableInv /\ PassInv
  BY TableInit, PassInit
<1>2. TableInv /\ PassInv /\ [Next]_vars => TableInv' /\ PassInv'
  BY TableStep, PassesStep
<1> QED BY <1>1, <1>2, PTL DEF Spec

\* The table can be loaded and applied whatever overlaps: its rows are whole, valid and in
\* groups that exist, although only the merge with an earlier read was ever validated
\* (update_rule) and members of a deleted group were read before it (delete_group).
THEOREM TableWellFormed == Spec => []WellFormed
<1>1. ASSUME TableInv, PassInv  PROVE WellFormed
  <2>1. \A i \in RuleId : rules[i] \in {Unused, Gone} \/ Row(rules[i])
    BY <1>1 DEF TableInv, RuleAt
  <2>2. \A g \in Group : groups[g] \in {Unused, Gone} \/ groups[g].enabled \in BOOLEAN
    BY <1>1 DEF TableInv
  <2>3. sender.is \in {"seeding", "creating", "reading", "updating", "up", "failed"}
    BY <1>1 DEF TableInv, SenderOK
  <2>4. /\ counts \in [RuleId -> Nat] /\ logs \in [RuleId -> Nat]
        /\ \A w \in Worker : worker[w].at \in {"idle", "groups", "applied", "counting", "recorded"}
        /\ \A m \in Message : status[m] \in {"received", "processing", "filtered", "review",
                                             "passed", "published"}
    BY <1>1 DEF PassInv, PassOK, Stages, Counted
  <2>5. TypeOK
    BY <2>1, <2>2, <2>3, <2>4 DEF TypeOK
  <2>6. StoredAreValid /\ NoLostGroup
    BY <1>1, RowOf DEF StoredAreValid, NoLostGroup
  <2> QED BY <2>5, <2>6 DEF WellFormed
<1> QED BY <1>1, PassesAlways, PTL

\* hit_count is never ahead of the rule's log rows, and equal to them unless two sessions
\* counted at once (RuleEngineProcessor's += on the value it read).
THEOREM CountersFollowLogs == Spec => []HitsAreCounted
<1>1. ASSUME PassInv  PROVE HitsAreCounted
  <2>1. Rows \subseteq RuleId
    BY DEF Rows
  <2> QED BY <1>1, <2>1 DEF PassInv, Counted, HitsAreCounted
<1> QED BY <1>1, PassesAlways, PTL

\* apply_rules goes through the rules by priority, then id: hits are in that order, the
\* first one that rejects or stops is the last, and rules that did not hit do not match.
THEOREM RulesInOrder == Spec => []EngineKeepsOrder
<1>1. ASSUME PassInv  PROVE EngineKeepsOrder
  <2>1. ASSUME NEW w \in Worker, worker[w].at = "applied", NEW p, p = worker[w]
        PROVE  InOrder(p, Content[p.m])
    <3>1. /\ Definitions(p.rules) /\ p.in \in Seq(STRING)
          /\ p.out = ApplyRules(p.rules, p.in, Content[p.m], p.slow)
      BY <1>1, <2>1 DEF PassInv, PassOK
    <3> QED BY <3>1, EngineInOrder
  <2> QED BY <2>1 DEF EngineKeepsOrder, InOrder
<1> QED BY <1>1, PassesAlways, PTL

\* A truncated text is the text and an ellipsis.
LEMMA TruncatedParts ==
  ASSUME NEW text \in Seq(STRING), NEW limit \in Nat, NEW i \in DOMAIN Truncated(text, limit)
  PROVE  \/ i \in DOMAIN text /\ Truncated(text, limit)[i] = text[i]
         \/ \E j \in DOMAIN Ellipsis : Truncated(text, limit)[i] = Ellipsis[j]
<1>1. CASE Len(text) <= limit
  BY <1>1 DEF Truncated
<1>2. CASE ~(Len(text) <= limit)
  <2>1. PICK head : head = SubSeq(text, 1, limit - 1)
    OBVIOUS
  <2>2. \A j \in 1..(limit - 1) : text[j] \in STRING
    BY <1>2
  <2>3. head \in Seq(STRING) /\ \A j \in DOMAIN head : j \in DOMAIN text /\ head[j] = text[j]
    BY <1>2, <2>1, <2>2, SubSeqProperties
  <2>4. Truncated(text, limit) = head \o Ellipsis /\ Ellipsis \in Seq(STRING)
    BY <1>2, <2>1, TextAssumption DEF Truncated
  <2>5. /\ Len(head \o Ellipsis) = Len(head) + Len(Ellipsis)
        /\ \A j \in 1..(Len(head) + Len(Ellipsis)) :
             (head \o Ellipsis)[j] = IF j <= Len(head) THEN head[j] ELSE Ellipsis[j - Len(head)]
    BY <2>3, <2>4, ConcatProperties
  <2>6. i \in 1..(Len(head) + Len(Ellipsis))
    <3>1. DOMAIN (head \o Ellipsis) = 1..Len(head \o Ellipsis)
      BY <2>3, <2>4, ConcatProperties, LenProperties
    <3> QED BY <2>4, <2>5, <3>1
  <2>7. CASE i <= Len(head)
    <3>1. i \in DOMAIN head
      BY <2>3, <2>6, <2>7
    <3> QED BY <2>3, <2>4, <2>5, <2>6, <2>7, <3>1
  <2>8. CASE ~(i <= Len(head))
    <3>1. i - Len(head) \in DOMAIN Ellipsis
      BY <2>3, <2>4, <2>6, <2>8
    <3> QED BY <2>4, <2>5, <2>6, <2>8, <3>1
  <2> QED BY <2>7, <2>8
<1> QED BY <1>1, <1>2

\* What the replacements leave has its links where the entities say, unless they forgot
\* the entities.
LEMMA ReplacedEntities ==
  ASSUME NEW m \in Message, NEW c, c = Content[m], EntitiesTell(c),
         NEW i \in DOMAIN TextReplaced(c).text, TextReplaced(c).text[i] \in Link
  PROVE  TextReplaced(c).entities[i] = "url"
<1>1. /\ {"text", "entities"} \subseteq DOMAIN c /\ c.text \in Seq(STRING)
      /\ AllReplaced(c.text) = c.text
      /\ \A j \in DOMAIN c.text : c.text[j] \in Link => c.entities[j] = "url"
  BY RuleAssumption DEF EntitiesTell
<1>2. CASE Settings.replacements = <<>>
  BY <1>1, <1>2 DEF TextReplaced
<1>3. CASE Settings.replacements # <<>>
  <2>1. PICK kept : kept = Truncated(c.text, Limit(c.type))
    OBVIOUS
  <2>2. /\ TextReplaced(c).text = kept
        /\ TextReplaced(c).entities
             = [j \in DOMAIN kept |-> IF j <= Len(c.text) THEN c.entities[j] ELSE NoEntity]
    BY <1>1, <1>3, <2>1 DEF TextReplaced
  <2>3. Limit(c.type) \in Nat
    BY TextAssumption DEF Limit
  <2>4. \/ i \in DOMAIN c.text /\ kept[i] = c.text[i]
        \/ \E j \in DOMAIN Ellipsis : kept[i] = Ellipsis[j]
    BY <1>1, <2>1, <2>2, <2>3, TruncatedParts
  <2>5. i \in DOMAIN c.text /\ c.text[i] \in Link
    <3>1. \A j \in DOMAIN Ellipsis : Ellipsis[j] \notin Link
      BY TextAssumption
    <3> QED BY <2>2, <2>4, <3>1
  <2>6. i <= Len(c.text)
    BY <1>1, <2>5
  <2> QED BY <1>1, <2>2, <2>5, <2>6
<1> QED BY <1>2, <1>3

\* The links that are not spared are those that _should_remove_url names.
LEMMA SparedLinks == \A u : Spared(u) <=> ~ShouldRemove(u)
BY Zenon DEF Spared, ShouldRemove

\* What LinkFilterProcessor leaves of a text: nothing that entities or regular expressions
\* tell it to remove, and everything else.
LEMMA FilteredLinks ==
  ASSUME NEW m \in Message, NEW c, c = Content[m], NEW r, r = TextReplaced(c),
         NEW in, in = LinkFiltered(r)
  PROVE  /\ \A k \in DOMAIN in : MayPass(in[k], c)
         /\ Cardinality({i \in DOMAIN r.text : Plain(r, i)}) <= Len(in)
         /\ Len(in) <= Cardinality({i \in DOMAIN r.text : ~Hides(r, i)})
<1>1. r.text \in Seq(STRING)
  BY ReplacedType
<1>2. PICK I : I = {i \in DOMAIN r.text :
         /\ ~\/ r.entities[i] \in Link \cup {"url"}
                /\ ShouldRemove(IF r.entities[i] = "url" THEN r.text[i] ELSE r.entities[i])
             \/ r.entities[i] = "mention" /\ Settings.removeSource /\ r.text[i] \in OwnLink
         /\ ~\/ r.text[i] \in Link \ Bare /\ ShouldRemove(r.text[i])
             \/ Settings.removeSource /\ r.text[i] \in Mention \cap OwnLink
             \/ Settings.removeAll /\ Settings.allowedDomains = {} /\ r.text[i] \in Mention \ Short}
  OBVIOUS
<1>3. in = Picked(r.text, I)
  BY <1>2 DEF LinkFiltered
<1>4. /\ Len(in) = Cardinality(I \cap DOMAIN r.text)
      /\ \A k \in DOMAIN in : \E i \in I \cap DOMAIN r.text : in[k] = r.text[i]
  <2>1. PICK text \in Seq(STRING) : text = r.text
    BY <1>1
  <2>2. /\ Len(Picked(text, I)) = Cardinality(I \cap DOMAIN text)
        /\ \A k \in DOMAIN Picked(text, I) :
             \E i \in I \cap DOMAIN text : Picked(text, I)[k] = text[i]
    BY PickedFacts
  <2>3. in = Picked(text, I)
    BY <1>3, <2>1
  <2>4. /\ Len(in) = Cardinality(I \cap DOMAIN text)
        /\ \A k \in DOMAIN in : \E i \in I \cap DOMAIN text : in[k] = text[i]
    BY <2>2, <2>3
  <2> QED BY <2>1, <2>4
<1>5. I \subseteq DOMAIN r.text /\ I \cap DOMAIN r.text = I
  BY <1>2
<1>6. ASSUME NEW k \in DOMAIN in  PROVE MayPass(in[k], c)
  <2>1. PICK i \in DOMAIN r.text : i \in I /\ in[k] = r.text[i]
    BY <1>4
  <2>2. /\ in[k] \in Mention \cap OwnLink => ~Settings.removeSource
        /\ in[k] \in Mention \ Short => ~Settings.removeAll \/ Settings.allowedDomains # {}
    BY <1>2, <2>1
  <2>3. ASSUME in[k] \in Link  PROVE Spared(in[k]) \/ (in[k] \in Bare /\ ~EntitiesTell(c))
    <3>1. CASE in[k] \notin Bare
      BY <1>2, <2>1, <2>3, <3>1, SparedLinks
    <3>2. CASE EntitiesTell(c)
      <4>1. r.entities[i] = "url"
        BY <2>1, <2>3, <3>2, ReplacedEntities
      <4>2. ~ShouldRemove(r.text[i])
        BY <1>2, <2>1, <4>1
      <4> QED BY <2>1, <4>2, SparedLinks
    <3> QED BY <3>1, <3>2
  <2> QED BY <2>2, <2>3 DEF MayPass
<1>7. {i \in DOMAIN r.text : Plain(r, i)} \subseteq I
  <2>1. NoEntity \notin {"url", "mention"} /\ NoEntity \notin Link
    BY TextAssumption
  <2> QED BY <1>2, <2>1 DEF Plain
<1>8. I \subseteq {i \in DOMAIN r.text : ~Hides(r, i)}
  <2>1. "url" \notin Link
    BY TextAssumption
  <2> QED BY <1>2, <2>1, SparedLinks DEF Hides
<1>9. IsFiniteSet(DOMAIN r.text)
  <2>1. DOMAIN r.text = 1..Len(r.text) /\ Len(r.text) \in Nat
    BY <1>1
  <2> QED BY <2>1, FS_Interval
<1>10. /\ Cardinality({i \in DOMAIN r.text : Plain(r, i)}) <= Cardinality(I)
       /\ Cardinality(I) <= Cardinality({i \in DOMAIN r.text : ~Hides(r, i)})
  <2>1. IsFiniteSet(I) /\ IsFiniteSet({i \in DOMAIN r.text : ~Hides(r, i)})
    BY <1>5, <1>9, FS_Subset
  <2> QED BY <1>7, <1>8, <2>1, FS_Subset
<1> QED BY <1>4, <1>5, <1>6, <1>10

\* Nothing that LinkFilterProcessor is to remove reaches the rules but short mentions and
\* links that neither an entity nor a regular expression shows it, and nothing else of the
\* text is lost.
THEOREM LinksNeverPass == Spec => []LinksAreRemoved
<1>1. ASSUME PassInv  PROVE LinksAreRemoved
  <2>1. ASSUME NEW w \in Worker, worker[w].at = "groups", NEW p, p = worker[w]
        PROVE  p.m \in Message /\ p.in = LinkFiltered(TextReplaced(Content[p.m]))
    BY <1>1, <2>1 DEF PassInv, PassOK
  <2> QED BY <2>1, FilteredLinks DEF LinksAreRemoved
<1> QED BY <1>1, PassesAlways, PTL

\* Of two messages with the same content none was published before the check that let the
\* other through unless its row was older than the window by then (DeduplicationProcessor
\* asks for recent published content of the same hash).
THEOREM DuplicatesAreSeen == Spec => []DuplicatesOverlapped
<1>1. ASSUME PassInv, NEW m \in Published, NEW n \in Published,
             [Content[m] EXCEPT !.id = n] = Content[n], ~Content[n].api,
             hash[m].text = hash[n].text
      PROVE  m \notin clean[n]
  <2>1. m \in Message /\ n \in Message /\ status[m] = "published" /\ status[n] = "published"
    BY DEF Published
  <2>2. \E t : hash[m] = HashOf(Content[m], t)
    BY <1>1, <2>1 DEF PassInv, Hashed
  <2>3. \E t : hash[n] = HashOf(Content[n], t)
    BY <1>1, <2>1 DEF PassInv, Hashed
  <2>4. Content[n].api = Content[m].api /\ Content[n].media = Content[m].media
    <3>1. {"id", "text", "api", "media"} \subseteq DOMAIN Content[m]
      BY <2>1, RuleAssumption
    <3> QED BY <1>1, <3>1
  <2>5. ASSUME NEW x \in {m, n}
        PROVE  hash[x] = [id |-> "content", text |-> hash[x].text, media |-> Content[n].media]
    BY <1>1, <2>2, <2>3, <2>4 DEF HashOf
  <2>6. hash[m] = hash[n]
    BY <1>1, <2>5
  <2> QED BY <1>1, <2>1, <2>6 DEF PassInv, Deduplicated
<1>2. PassInv => DuplicatesOverlapped
  BY <1>1 DEF DuplicatesOverlapped
<1> QED BY <1>2, PassesAlways, PTL
=============================================================================
