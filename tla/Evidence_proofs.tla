-------------------------- MODULE Evidence_proofs --------------------------
(***************************************************************************)
(* Proofs about the host's computations on evidence, for inputs of any     *)
(* size. Recursive functions are the point of most of them: a lemma shows  *)
(* that the function exists, another what it is worth, both by induction.  *)
(***************************************************************************)
EXTENDS Evidence, FiniteSetTheorems, SequenceTheorems, WellFoundedInduction, TLAPS

-----------------------------------------------------------------------------
(* Induction *)

\* A set of numbers that is not empty has a least element.
LEMMA LeastExists ==
  ASSUME NEW S \in SUBSET Nat, S # {}
  PROVE  \E m \in S : \A n \in S : m <= n
<1>1. OpToRel(<, Nat) = {p \in Nat \X Nat : p[1] < p[2]}
  BY DEF OpToRel
<1>2. PICK m \in S : \A n \in S : ~(<<n, m>> \in OpToRel(<, Nat))
  BY NatLessThanWellFounded, WFMin
<1>3. ASSUME NEW n \in S
      PROVE  m <= n
  <2>1. <<n, m>> \in Nat \X Nat /\ <<n, m>>[1] = n /\ <<n, m>>[2] = m
    OBVIOUS
  <2>2. m \in Nat /\ n \in Nat /\ ~(n < m)
    BY <1>1, <1>2, <2>1
  <2> QED
    BY <2>2
<1> QED
  BY <1>3

\* Induction over the numbers, for a set of them.
LEMMA Induction ==
  ASSUME NEW T, 0 \in T, \A n \in Nat : n \in T => n + 1 \in T
  PROVE  \A n \in Nat : n \in T
<1> DEFINE U == Nat \ T
<1> SUFFICES ASSUME U # {} PROVE FALSE
  OBVIOUS
<1>1. PICK m \in U : \A n \in U : m <= n
  <2>1. U \in SUBSET Nat
    OBVIOUS
  <2> QED
    BY <2>1, LeastExists
<1>2. m - 1 \in Nat /\ ~(m <= m - 1) /\ m = (m - 1) + 1
  BY <1>1
<1>3. m - 1 \in T
  BY <1>1, <1>2
<1> QED
  BY <1>1, <1>2, <1>3

\* A finite set of numbers has a bound.
LEMMA Bounded ==
  ASSUME NEW S \in SUBSET Nat, IsFiniteSet(S)
  PROVE  \E b \in Nat : \A k \in S : k <= b
<1> DEFINE P(n) == \A f \in [1..n -> Nat] : \E b \in Nat : \A i \in 1..n : f[i] <= b
<1>1. P(0)
  OBVIOUS
<1>2. ASSUME NEW n \in Nat, P(n)
      PROVE  P(n + 1)
  <2> SUFFICES ASSUME NEW f \in [1..(n + 1) -> Nat]
               PROVE  \E b \in Nat : \A i \in 1..(n + 1) : f[i] <= b
    OBVIOUS
  <2> DEFINE g == [i \in 1..n |-> f[i]]
  <2>1. g \in [1..n -> Nat] /\ f[n + 1] \in Nat
    OBVIOUS
  <2>2. PICK b \in Nat : \A i \in 1..n : g[i] <= b
    BY <1>2, <2>1
  <2>3. b + f[n + 1] \in Nat /\ \A i \in 1..(n + 1) : f[i] <= b + f[n + 1]
    BY <2>1, <2>2
  <2> QED
    BY <2>3
<1>3. PICK n \in Nat : ExistsSurjection(1..n, S)
  BY FS_NatSurjection
<1>4. PICK f \in [1..n -> S] : \A k \in S : \E i \in 1..n : f[i] = k
  BY <1>3 DEF ExistsSurjection, Surjection
<1>5. P(n)
  <2> HIDE DEF P
  <2> DEFINE T == {k \in Nat : P(k)}
  <2>1. 0 \in T /\ \A k \in Nat : k \in T => k + 1 \in T
    BY <1>1, <1>2
  <2>2. \A k \in Nat : k \in T
    BY <2>1, Induction
  <2> QED
    BY <2>2
<1>6. f \in [1..n -> Nat]
  BY <1>4
<1>7. PICK b \in Nat : \A i \in 1..n : f[i] <= b
  BY <1>5, <1>6
<1> QED
  BY <1>4, <1>7

\* Greatest is what it is named for.
LEMMA GreatestIsGreatest ==
  ASSUME NEW S \in SUBSET Nat, IsFiniteSet(S), S # {}
  PROVE  Greatest(S) \in S /\ \A k \in S : k <= Greatest(S)
<1>1. PICK b \in Nat : \A k \in S : k <= b
  BY Bounded
<1> DEFINE Above == {n \in Nat : \E k \in S : b - k = n}
<1>2. Above # {} /\ Above \in SUBSET Nat
  <2>1. PICK k \in S : TRUE
    OBVIOUS
  <2>2. b - k \in Nat
    BY <1>1
  <2> QED
    BY <2>1, <2>2
<1>3. PICK m \in Above : \A n \in Above : m <= n
  BY <1>2, LeastExists
<1>4. PICK g \in S : b - g = m
  BY <1>3
<1>5. \A k \in S : b - k \in Above /\ b - g <= b - k
  BY <1>1, <1>3, <1>4
<1>6. \A k \in S : g >= k
  BY <1>1, <1>5
<1> HIDE DEF Above
<1>7. Greatest(S) \in S /\ \A k \in S : Greatest(S) >= k
  BY <1>6 DEF Greatest
<1> QED
  BY <1>7

-----------------------------------------------------------------------------
(* The release before *)

\* LatestMeetsPredecessor of one call.
Predecessor(releases, current, out) ==
    LET published == {v \in Versions : releases[v].files}
        inOrder == \A v, w \in published :
                       v < w => releases[v].uploaded < releases[w].uploaded
        older == {v \in published : v < current}
        newer == {v \in published : v >= current}
    IN  /\ out # NoVersion => out \in older
        /\ inOrder /\ Cardinality(newer) < KeptReleases =>
              IF older = {} THEN out = NoVersion
              ELSE out # NoVersion /\ \A v \in older : v <= out

LEMMA PreviousIsPredecessor ==
  ASSUME NEW releases \in [Versions -> [uploaded : 0..Cardinality(Versions), files : BOOLEAN]],
         NEW current \in Versions,
         NEW out, out = PreviousVersion(current, History(releases))
  PROVE  Predecessor(releases, current, out)
<1> DEFINE published == {v \in Versions : releases[v].files}
           inOrder == \A v, w \in published :
                          v < w => releases[v].uploaded < releases[w].uploaded
           older == {v \in published : v < current}
           newer == {v \in published : v >= current}
           kept == {v \in History(releases) : v < current}
<1>0. Versions \subseteq Nat /\ IsFiniteSet(Versions) /\ NoVersion \notin Versions
  BY VersionsAssumption
<1>1. kept \subseteq older
  BY DEF History
<1>2. /\ older \in SUBSET Nat /\ older \subseteq Versions /\ IsFiniteSet(older)
      /\ kept \in SUBSET Nat /\ IsFiniteSet(kept)
  BY <1>0, <1>1, FS_Subset
<1>3. out = IF kept = {} THEN NoVersion ELSE Greatest(kept)
  BY DEF PreviousVersion
<1>4. kept # {} => out \in kept /\ \A v \in kept : v <= out
  BY <1>2, <1>3, GreatestIsGreatest
<1>5. out # NoVersion => out \in older
  BY <1>1, <1>3, <1>4
\* The latest of the older ones is kept: whatever is later is newer.
<1>6. ASSUME inOrder, Cardinality(newer) < KeptReleases, older # {}
      PROVE  Greatest(older) \in kept
  <2> DEFINE g == Greatest(older)
             after == {w \in DOMAIN releases : releases[w].files /\ Later(releases, w, g)}
  <2>1. g \in older /\ \A v \in older : v <= g
    BY <1>2, <1>6, GreatestIsGreatest
  <2> HIDE DEF g
  <2>2. after \subseteq newer
    <3> SUFFICES ASSUME NEW w \in after PROVE w \in newer
      OBVIOUS
    <3>1. /\ w \in published /\ g \in published /\ w \in Nat /\ g \in Nat /\ current \in Nat
          /\ releases[w].uploaded \in Nat /\ releases[g].uploaded \in Nat
      <4>1. w \in Versions /\ g \in Versions /\ Cardinality(Versions) \in Nat
        BY <1>0, <2>1, FS_CardinalityType
      <4> QED
        BY <1>0, <2>1, <4>1
    <3>2. Later(releases, w, g)
      OBVIOUS
    <3>3. w > g
      BY <1>6, <3>1, <3>2 DEF Later
    <3>4. w \notin older
      BY <2>1, <3>1, <3>3
    <3> QED
      BY <3>1, <3>4
  <2>3. IsFiniteSet(newer) /\ IsFiniteSet(after)
    BY <1>0, FS_Subset
  <2>4. Cardinality(after) <= Cardinality(newer)
    BY <2>2, <2>3, FS_Subset
  <2>5. Cardinality(after) < KeptReleases
    BY <1>6, <2>3, <2>4, FS_CardinalityType, KeptAssumption
  <2>6. g \in History(releases)
    BY <2>1, <2>5 DEF History
  <2> QED
    BY <2>1, <2>6 DEF g
<1>7. ASSUME inOrder, Cardinality(newer) < KeptReleases
      PROVE  IF older = {} THEN out = NoVersion
             ELSE out # NoVersion /\ \A v \in older : v <= out
  <2>1. CASE older = {}
    BY <1>1, <1>3, <2>1
  <2>2. CASE older # {}
    <3>1. Greatest(older) \in kept /\ \A v \in older : v <= Greatest(older)
      BY <1>2, <1>6, <1>7, <2>2, GreatestIsGreatest
    <3>2. out \in kept /\ Greatest(older) <= out
      BY <1>4, <3>1
    <3>3. out \in Nat /\ Greatest(older) \in Nat /\ out # NoVersion
      BY <1>0, <1>1, <1>2, <3>1, <3>2
    <3>4. \A v \in older : v <= out
      <4> SUFFICES ASSUME NEW v \in older PROVE v <= out
        OBVIOUS
      <4>1. v \in Nat /\ v <= Greatest(older)
        BY <1>2, <3>1
      <4> HIDE DEF older
      <4> QED
        BY <3>2, <3>3, <4>1
    <3> QED
      BY <2>2, <3>3, <3>4
  <2> QED
    BY <2>1, <2>2
<1> QED
  BY <1>5, <1>7 DEF Predecessor

-----------------------------------------------------------------------------
(* The score *)

\* How the sum over a set is computed: by an element at a time.
Rest(s) == s \ {CHOOSE x \in s : TRUE}
IsSum(sum, S, g) ==
    sum = [s \in SUBSET S |-> IF s = {} THEN 0 ELSE g[CHOOSE x \in s : TRUE] + sum[Rest(s)]]

LEMMA RestIsSmaller ==
  ASSUME NEW S, IsFiniteSet(S), NEW s \in SUBSET S, s # {}
  PROVE  /\ (CHOOSE x \in s : TRUE) \in s
         /\ Rest(s) \in SUBSET S /\ Rest(s) \subseteq s
         /\ s = Rest(s) \cup {CHOOSE x \in s : TRUE}
         /\ Cardinality(s) \in Nat /\ Cardinality(Rest(s)) \in Nat
         /\ Cardinality(s) = Cardinality(Rest(s)) + 1
<1>1. PICK x \in s : x = CHOOSE y \in s : TRUE
  OBVIOUS
<1>2. IsFiniteSet(s) /\ IsFiniteSet(s \ {x}) /\ Cardinality(s \ {x}) = Cardinality(s) - 1
  BY <1>1, FS_Subset, FS_RemoveElement
<1>3. Cardinality(s) \in Nat /\ Cardinality(s \ {x}) \in Nat
  BY <1>2, FS_CardinalityType
<1> QED
  BY <1>1, <1>2, <1>3 DEF Rest

LEMMA SumExists ==
  ASSUME NEW S, IsFiniteSet(S), NEW g \in [S -> Nat]
  PROVE  \E sum : IsSum(sum, S, g)
<1> DEFINE Next(h, s) == IF s = {} THEN 0 ELSE g[CHOOSE x \in s : TRUE] + h[Rest(s)]
           P(n) == \E h : /\ h = [s \in SUBSET S |-> h[s]]
                          /\ \A s \in SUBSET S : Cardinality(s) <= n => h[s] = Next(h, s)
<1>1. P(0)
  <2> DEFINE h == [s \in SUBSET S |-> 0]
  <2>1. \A s \in SUBSET S : Cardinality(s) <= 0 => s = {}
    <3> SUFFICES ASSUME NEW s \in SUBSET S, Cardinality(s) <= 0, s # {} PROVE FALSE
      OBVIOUS
    <3> QED
      BY RestIsSmaller
  <2>2. h = [s \in SUBSET S |-> h[s]]
    OBVIOUS
  <2>3. \A s \in SUBSET S : Cardinality(s) <= 0 => h[s] = Next(h, s)
    BY <2>1
  <2> HIDE DEF h, Next
  <2> QED
    BY <2>2, <2>3
<1>2. ASSUME NEW n \in Nat, P(n)
      PROVE  P(n + 1)
  <2>1. PICK h : /\ h = [s \in SUBSET S |-> h[s]]
                 /\ \A s \in SUBSET S : Cardinality(s) <= n => h[s] = Next(h, s)
    BY <1>2
  <2> HIDE DEF Next
  <2> DEFINE k == [s \in SUBSET S |-> IF Cardinality(s) <= n THEN h[s] ELSE Next(h, s)]
  <2>2. \A s \in SUBSET S : Cardinality(s) <= n + 1 => k[s] = Next(h, s)
    BY <2>1
  <2>3. \A s \in SUBSET S : Cardinality(s) <= n => k[s] = h[s]
    OBVIOUS
  <2>4. k = [s \in SUBSET S |-> k[s]]
    OBVIOUS
  <2> HIDE DEF k
  <2>5. ASSUME NEW s \in SUBSET S, Cardinality(s) <= n + 1
        PROVE  Next(h, s) = Next(k, s)
    <3>1. CASE s = {}
      BY <3>1 DEF Next
    <3>2. CASE s # {}
      <4>1. Rest(s) \in SUBSET S /\ Cardinality(Rest(s)) <= n
        BY <2>5, <3>2, RestIsSmaller
      <4> QED
        BY <2>3, <4>1 DEF Next
    <3> QED
      BY <3>1, <3>2
  <2> QED
    BY <2>2, <2>4, <2>5
<1>3. P(Cardinality(S))
  <2> HIDE DEF P
  <2> DEFINE T == {n \in Nat : P(n)}
  <2>1. 0 \in T /\ \A n \in Nat : n \in T => n + 1 \in T
    BY <1>1, <1>2
  <2>2. \A n \in Nat : n \in T
    BY <2>1, Induction
  <2> QED
    BY <2>2, FS_CardinalityType
<1>4. PICK h : /\ h = [s \in SUBSET S |-> h[s]]
               /\ \A s \in SUBSET S : Cardinality(s) <= Cardinality(S) => h[s] = Next(h, s)
  BY <1>3
<1>5. \A s \in SUBSET S : h[s] = Next(h, s)
  BY <1>4, FS_Subset
<1>6. h = [s \in SUBSET S |-> Next(h, s)]
  BY <1>4, <1>5
<1> QED
  BY <1>6 DEF IsSum

\* A sum is at least each of its terms, and any two of them together.
LEMMA SumAbove ==
  ASSUME NEW S, IsFiniteSet(S), NEW g \in [S -> Nat], NEW sum, IsSum(sum, S, g)
  PROVE  /\ sum[S] \in Nat
         /\ \A i \in S : g[i] <= sum[S]
         /\ \A i, k \in S : i # k => g[i] + g[k] <= sum[S]
<1> DEFINE Q(s) == /\ sum[s] \in Nat
                   /\ \A i \in s : g[i] <= sum[s]
                   /\ \A i, k \in s : i # k => g[i] + g[k] <= sum[s]
           P(n) == \A s \in SUBSET S : Cardinality(s) = n => Q(s)
<1>0. \A s \in SUBSET S : sum[s] = IF s = {} THEN 0 ELSE g[CHOOSE x \in s : TRUE] + sum[Rest(s)]
  BY DEF IsSum
<1>1. P(0)
  <2> SUFFICES ASSUME NEW s \in SUBSET S, Cardinality(s) = 0 PROVE Q(s)
    OBVIOUS
  <2>1. s = {}
    BY RestIsSmaller
  <2> QED
    BY <1>0, <2>1
<1>2. ASSUME NEW n \in Nat, P(n)
      PROVE  P(n + 1)
  <2> SUFFICES ASSUME NEW s \in SUBSET S, Cardinality(s) = n + 1 PROVE Q(s)
    OBVIOUS
  <2>1. s # {}
    BY FS_EmptySet
  <2>2. PICK x \in s : x = CHOOSE y \in s : TRUE
    BY <2>1
  <2>3. /\ Rest(s) \in SUBSET S /\ s = Rest(s) \cup {x} /\ Cardinality(Rest(s)) = n
    BY <2>1, <2>2, RestIsSmaller
  <2>4. Q(Rest(s))
    BY <1>2, <2>3
  <2>5. sum[s] = g[x] + sum[Rest(s)] /\ g[x] \in Nat
    BY <1>0, <2>1, <2>2
  <2>6. \A i \in s : i = x \/ i \in Rest(s)
    BY <2>3
  <2>7. sum[s] \in Nat /\ \A i \in s : g[i] \in Nat
    BY <2>4, <2>5
  <2>8. \A i \in s : g[i] <= sum[s]
    BY <2>4, <2>5, <2>6, <2>7
  <2>9. \A i, k \in s : i # k => g[i] + g[k] <= sum[s]
    <3> SUFFICES ASSUME NEW i \in s, NEW k \in s, i # k PROVE g[i] + g[k] <= sum[s]
      OBVIOUS
    <3>1. g[i] \in Nat /\ g[k] \in Nat /\ sum[Rest(s)] \in Nat
      BY <2>4, <2>7
    <3>2. CASE i = x
      BY <2>4, <2>5, <2>6, <3>1, <3>2
    <3>3. CASE k = x
      BY <2>4, <2>5, <2>6, <3>1, <3>3
    <3>4. CASE i \in Rest(s) /\ k \in Rest(s)
      BY <2>4, <2>5, <3>1, <3>4
    <3> QED
      BY <2>6, <3>2, <3>3, <3>4
  <2> QED
    BY <2>7, <2>8, <2>9
<1>3. P(Cardinality(S))
  <2> HIDE DEF P
  <2> DEFINE T == {n \in Nat : P(n)}
  <2>1. 0 \in T /\ \A n \in Nat : n \in T => n + 1 \in T
    BY <1>1, <1>2
  <2>2. \A n \in Nat : n \in T
    BY <2>1, Induction
  <2> QED
    BY <2>2, FS_CardinalityType
<1> QED
  BY <1>3

\* What an event found adds to the score.
Worth(e) == Scores[SeverityOf(Rule(e))]

LEMMA Worths ==
  ASSUME NEW e, Rule(e) # "none"
  PROVE  \/ SeverityOf(Rule(e)) = "MEDIUM" /\ Worth(e) = 25
         \/ SeverityOf(Rule(e)) = "HIGH" /\ Worth(e) = 45
         \/ SeverityOf(Rule(e)) = "CRITICAL" /\ Worth(e) = 70
<1>1. \/ SeverityOf(Rule(e)) = "MEDIUM" \/ SeverityOf(Rule(e)) = "HIGH"
      \/ SeverityOf(Rule(e)) = "CRITICAL"
  BY DEF Rule, SeverityOf
<1> QED
  BY <1>1 DEF Worth, Scores

\* The score is at least what any two findings are worth, if not all there is.
LEMMA ScoreAbove ==
  ASSUME NEW events \in Seq(Acts)
  PROVE  /\ Score(events) \in Nat
         /\ \A i \in Found(events) : Worth(events[i]) <= Score(events)
         /\ \A i, k \in Found(events) :
               i # k => Worth(events[i]) + Worth(events[k]) <= Score(events)
                        \/ Score(events) = 100
<1> DEFINE found == Found(events)
           g == [i \in found |-> Worth(events[i])]
           sum == MapThenSumSet(LAMBDA i : Scores[SeverityOf(Rule(events[i]))], found)
           it == CHOOSE f : IsSum(f, found, g)
<1>1. IsFiniteSet(found)
  <2>1. found \subseteq 1..Len(events) /\ IsFiniteSet(1..Len(events))
    BY FS_Interval, LenProperties DEF Found
  <2> QED
    BY <2>1, FS_Subset
<1>2. \A i \in found : Worth(events[i]) \in {25, 45, 70}
  BY Worths DEF Found
<1>3. g \in [found -> Nat]
  BY <1>2
<1>4. PICK some : IsSum(some, found, g)
  BY <1>1, <1>3, SumExists
<1>5. IsSum(it, found, g)
  BY <1>4
<1>6. sum = it[found]
  <2>1. sum = (CHOOSE f : f = [s \in SUBSET found |->
                   IF s = {} THEN 0
                   ELSE Scores[SeverityOf(Rule(events[CHOOSE x \in s : TRUE]))]
                        + f[s \ {CHOOSE x \in s : TRUE}]])[found]
    BY DEF MapThenSumSet, MapThenFoldSet
  <2>2. ASSUME NEW u
        PROVE  IsSum(u, found, g) <=>
               u = [s \in SUBSET found |->
                   IF s = {} THEN 0
                   ELSE Scores[SeverityOf(Rule(events[CHOOSE x \in s : TRUE]))]
                        + u[s \ {CHOOSE x \in s : TRUE}]]
    <3>1. \A s \in SUBSET found : s # {} =>
             g[CHOOSE x \in s : TRUE] = Scores[SeverityOf(Rule(events[CHOOSE x \in s : TRUE]))]
      BY DEF Worth
    <3>2. \A s \in SUBSET found :
             (IF s = {} THEN 0 ELSE g[CHOOSE x \in s : TRUE] + u[Rest(s)])
             = IF s = {} THEN 0
               ELSE Scores[SeverityOf(Rule(events[CHOOSE x \in s : TRUE]))]
                    + u[s \ {CHOOSE x \in s : TRUE}]
      <4> HIDE DEF g, found
      <4> QED
        BY <3>1 DEF Rest
    <3> HIDE DEF g, found
    <3>3. [s \in SUBSET found |-> IF s = {} THEN 0 ELSE g[CHOOSE x \in s : TRUE] + u[Rest(s)]]
          = [s \in SUBSET found |->
               IF s = {} THEN 0
               ELSE Scores[SeverityOf(Rule(events[CHOOSE x \in s : TRUE]))]
                    + u[s \ {CHOOSE x \in s : TRUE}]]
      BY <3>2
    <3> QED
      BY <3>3 DEF IsSum
  <2> QED
    BY <2>1, <2>2
<1>7. /\ it[found] \in Nat
      /\ \A i \in found : g[i] <= it[found]
      /\ \A i, k \in found : i # k => g[i] + g[k] <= it[found]
  <2> HIDE DEF it, g, found
  <2> QED
    BY <1>1, <1>3, <1>5, SumAbove
<1>8. Score(events) = IF sum < 100 THEN sum ELSE 100
  BY DEF Score
<1> HIDE DEF it, sum
<1> QED
  BY <1>2, <1>6, <1>7, <1>8

-----------------------------------------------------------------------------
(* The sinkhole's answer *)

\* Induction from the end of a message to its beginning: a walk over a message
\* only ever goes on.
LEMMA Downward ==
  ASSUME NEW L \in Nat, NEW T,
         \A p \in Positions : p > L => p \in T,
         \A p \in Positions : p <= L /\ (\A q \in Positions : q > p => q \in T) => p \in T
  PROVE  \A p \in Positions : p \in T
<1> DEFINE U == {p \in Positions : p \notin T}
<1> SUFFICES ASSUME U # {} PROVE FALSE
  OBVIOUS
<1>1. U \subseteq 1..L /\ U \in SUBSET Nat
  BY DEF Positions
<1>2. IsFiniteSet(U)
  <2>1. IsFiniteSet(1..L)
    BY FS_Interval
  <2> QED
    BY <1>1, <2>1, FS_Subset
<1>3. PICK g \in U : \A k \in U : k <= g
  BY <1>1, <1>2, GreatestIsGreatest
<1>4. \A q \in Positions : q > g => q \in T
  BY <1>1, <1>3 DEF Positions
<1>5. g \in Positions /\ g <= L /\ g \notin T
  BY <1>1, <1>3
<1> QED
  BY <1>4, <1>5

\* The walk of NameEnd.
Ends(walk, m) ==
    walk = [p \in Positions |-> IF p > Len(m) THEN 0 ELSE IF m[p] = 0 THEN p ELSE walk[p + 1 + m[p]]]

LEMMA EndsExists ==
  ASSUME NEW m \in Seq(Nat)
  PROVE  \E walk : Ends(walk, m)
<1> DEFINE Next(h, p) == IF p > Len(m) THEN 0 ELSE IF m[p] = 0 THEN p ELSE h[p + 1 + m[p]]
           P(n) == \E h : /\ h = [p \in Positions |-> h[p]]
                          /\ \A p \in Positions : p + n > Len(m) => h[p] = Next(h, p)
<1>0. Len(m) \in Nat /\ \A p \in Positions : p <= Len(m) => m[p] \in Nat
  BY LenProperties, ElementOfSeq DEF Positions
<1>1. P(0)
  <2> DEFINE h == [p \in Positions |-> 0]
  <2>1. h = [p \in Positions |-> h[p]]
    OBVIOUS
  <2>2. \A p \in Positions : p + 0 > Len(m) => h[p] = Next(h, p)
    BY <1>0 DEF Positions
  <2> HIDE DEF h, Next
  <2> QED
    BY <2>1, <2>2
<1>2. ASSUME NEW n \in Nat, P(n)
      PROVE  P(n + 1)
  <2>1. PICK h : /\ h = [p \in Positions |-> h[p]]
                 /\ \A p \in Positions : p + n > Len(m) => h[p] = Next(h, p)
    BY <1>2
  <2> HIDE DEF Next
  <2> DEFINE k == [p \in Positions |-> IF p + n > Len(m) THEN h[p] ELSE Next(h, p)]
  <2>2. \A p \in Positions : k[p] = Next(h, p)
    BY <2>1
  <2>3. \A p \in Positions : p + n > Len(m) => k[p] = h[p]
    OBVIOUS
  <2>4. k = [p \in Positions |-> k[p]]
    OBVIOUS
  <2> HIDE DEF k
  <2>5. ASSUME NEW p \in Positions, p + (n + 1) > Len(m)
        PROVE  Next(h, p) = Next(k, p)
    <3>1. CASE p > Len(m) \/ m[p] = 0
      BY <3>1 DEF Next
    <3>2. CASE ~(p > Len(m)) /\ m[p] # 0
      <4>1. m[p] \in Nat /\ p \in Nat /\ p > 0
        BY <1>0, <3>2 DEF Positions
      <4>2. p + 1 + m[p] \in Positions /\ p + 1 + m[p] + n > Len(m)
        BY <1>0, <2>5, <4>1 DEF Positions
      <4> QED
        BY <2>3, <3>2, <4>2 DEF Next
    <3> QED
      BY <3>1, <3>2
  <2> QED
    BY <2>2, <2>4, <2>5
<1>3. P(Len(m))
  <2> HIDE DEF P
  <2> DEFINE T == {n \in Nat : P(n)}
  <2>1. 0 \in T /\ \A n \in Nat : n \in T => n + 1 \in T
    BY <1>1, <1>2
  <2>2. \A n \in Nat : n \in T
    BY <2>1, Induction
  <2> QED
    BY <1>0, <2>2
<1>4. PICK h : /\ h = [p \in Positions |-> h[p]]
               /\ \A p \in Positions : p + Len(m) > Len(m) => h[p] = Next(h, p)
  BY <1>3
<1>5. \A p \in Positions : h[p] = Next(h, p)
  BY <1>0, <1>4 DEF Positions
<1>6. h = [p \in Positions |-> Next(h, p)]
  BY <1>4, <1>5
<1> QED
  BY <1>6 DEF Ends

LEMMA NameEndWalks ==
  ASSUME NEW m \in Seq(Nat)
  PROVE  \E walk : Ends(walk, m) /\ NameEnd(m) = walk[1]
<1> DEFINE it == CHOOSE walk : Ends(walk, m)
<1>1. Ends(it, m)
  BY EndsExists
<1>2. NameEnd(m) = it[1]
  BY DEF NameEnd, Ends
<1> QED
  BY <1>1, <1>2

\* The places of labels that lead from one to the next, and to an end.
LEMMA NameEndIsEnd ==
  ASSUME NEW m \in Seq(Nat)
  PROVE  /\ NameEnd(m) \in 0..Len(m)
         /\ NameEnd(m) # 0 => \E starts \in SUBSET (1..Len(m)) : IsName(m, starts, NameEnd(m))
         /\ \A e \in 1..Len(m), starts \in SUBSET (1..Len(m)) :
               IsName(m, starts, e) => NameEnd(m) = e
<1>1. PICK walk : Ends(walk, m) /\ NameEnd(m) = walk[1]
  BY NameEndWalks
<1>2. /\ Len(m) \in Nat /\ 1 \in Positions
      /\ \A p \in Positions : p <= Len(m) => m[p] \in Nat /\ p + 1 + m[p] \in Positions
      /\ \A p \in Positions : p <= Len(m) => p + 1 + m[p] > p
  BY LenProperties, ElementOfSeq DEF Positions
<1>3. \A p \in Positions : walk[p] = IF p > Len(m) THEN 0 ELSE IF m[p] = 0 THEN p
                                     ELSE walk[p + 1 + m[p]]
  BY <1>1 DEF Ends
<1> DEFINE Led(p, starts) == /\ p \in starts /\ walk[p] \in starts /\ m[walk[p]] = 0
                             /\ \A q \in starts \ {walk[p]} : m[q] # 0 /\ q + 1 + m[q] \in starts
           T == {p \in Positions : /\ walk[p] \in 0..Len(m)
                                   /\ walk[p] # 0 => \E starts \in SUBSET (1..Len(m)) : Led(p, starts)}
<1>4. \A p \in Positions : p \in T
  <2>1. \A p \in Positions : p > Len(m) => p \in T
    BY <1>2, <1>3
  <2>2. ASSUME NEW p \in Positions, p <= Len(m), \A q \in Positions : q > p => q \in T
        PROVE  p \in T
    <3>0. p \in 1..Len(m)
      BY <1>2, <2>2 DEF Positions
    <3>1. CASE m[p] = 0
      <4>1. walk[p] = p
        BY <1>2, <1>3, <2>2, <3>0, <3>1
      <4>2. Led(p, {p}) /\ {p} \in SUBSET (1..Len(m)) /\ walk[p] \in 0..Len(m)
        BY <3>0, <3>1, <4>1
      <4> HIDE DEF Led
      <4> QED
        BY <4>2
    <3>2. CASE m[p] # 0
      <4> DEFINE q == p + 1 + m[p]
      <4>a. q \in Positions /\ q > p
        BY <1>2, <2>2
      <4>b. q \in T
        <5> HIDE DEF T, q
        <5> QED
          BY <2>2, <4>a
      <4>1. walk[p] = walk[q] /\ q \in T
        <5>1. ~(p > Len(m))
          BY <1>2, <3>0
        <5>2. walk[p] = walk[q]
          BY <1>3, <3>2, <5>1
        <5> HIDE DEF T, q
        <5> QED
          BY <4>b, <5>2
      <4>2. CASE walk[p] = 0
        BY <1>2, <4>1, <4>2
      <4>3. CASE walk[p] # 0
        <5>1. PICK starts \in SUBSET (1..Len(m)) : Led(q, starts)
          BY <4>1, <4>3
        <5>2. m[walk[p]] = 0 /\ p # walk[p]
          BY <3>2, <4>1, <5>1
        <5>3. Led(p, starts \cup {p})
          BY <3>2, <4>1, <5>1, <5>2
        <5>4. starts \cup {p} \in SUBSET (1..Len(m))
          BY <3>0
        <5> QED
          BY <4>1, <5>3, <5>4
      <4> QED
        BY <4>2, <4>3
    <3> QED
      BY <3>1, <3>2
  <2> HIDE DEF T
  <2> QED
    BY <1>2, <2>1, <2>2, Downward
<1>5. ASSUME NEW e \in 1..Len(m), NEW starts \in SUBSET (1..Len(m)), IsName(m, starts, e)
      PROVE  NameEnd(m) = e
  <2> DEFINE S == {p \in Positions : p \in starts => walk[p] = e}
  <2>1. \A p \in Positions : p > Len(m) => p \in S
    <3>1. \A p \in starts : ~(p > Len(m))
      BY <1>2
    <3> QED
      BY <3>1
  <2>2. ASSUME NEW p \in Positions, p <= Len(m), \A q \in Positions : q > p => q \in S
        PROVE  p \in S
    <3> SUFFICES ASSUME p \in starts PROVE walk[p] = e
      OBVIOUS
    <3>1. CASE p = e
      BY <1>2, <1>3, <1>5, <2>2, <3>1 DEF IsName, Positions
    <3>2. CASE p # e
      <4>1. m[p] # 0 /\ p + 1 + m[p] \in starts
        BY <1>5, <3>2 DEF IsName
      <4>2. walk[p] = walk[p + 1 + m[p]]
        BY <1>2, <1>3, <2>2, <4>1 DEF Positions
      <4>3. walk[p + 1 + m[p]] = e
        BY <1>2, <2>2, <4>1
      <4> QED
        BY <4>2, <4>3
    <3> QED
      BY <3>1, <3>2
  <2> HIDE DEF S
  <2>3. \A p \in Positions : p \in S
    BY <1>2, <2>1, <2>2, Downward
  <2>4. 1 \in starts
    BY <1>5 DEF IsName
  <2> QED
    BY <1>1, <1>2, <2>3, <2>4 DEF S
<1>6. walk[1] \in 0..Len(m) /\ (walk[1] # 0 => \E starts \in SUBSET (1..Len(m)) : Led(1, starts))
  BY <1>2, <1>4
<1>7. NameEnd(m) # 0 => \E starts \in SUBSET (1..Len(m)) : IsName(m, starts, NameEnd(m))
  BY <1>1, <1>6 DEF IsName
<1> QED
  BY <1>1, <1>5, <1>6, <1>7

\* The walk of DecodeName.
Decodes(walk, m) ==
    walk = [p \in Positions |->
            IF p > Len(m) THEN Overrun
            ELSE IF m[p] = 0 THEN [labels |-> <<>>, next |-> p + 1]
            ELSE IF m[p] >= PointerMark THEN [labels |-> <<>>, next |-> p + 2]
            ELSE LET rest == walk[p + 1 + m[p]] IN
                 IF rest = Overrun THEN Overrun
                 ELSE [labels |-> <<Slice(m, p + 1, m[p])>> \o rest.labels, next |-> rest.next]]

LEMMA DecodesExists ==
  ASSUME NEW m \in Seq(Nat)
  PROVE  \E walk : Decodes(walk, m)
<1> DEFINE Next(h, p) ==
              IF p > Len(m) THEN Overrun
              ELSE IF m[p] = 0 THEN [labels |-> <<>>, next |-> p + 1]
              ELSE IF m[p] >= PointerMark THEN [labels |-> <<>>, next |-> p + 2]
              ELSE LET rest == h[p + 1 + m[p]] IN
                   IF rest = Overrun THEN Overrun
                   ELSE [labels |-> <<Slice(m, p + 1, m[p])>> \o rest.labels, next |-> rest.next]
           P(n) == \E h : /\ h = [p \in Positions |-> h[p]]
                          /\ \A p \in Positions : p + n > Len(m) => h[p] = Next(h, p)
<1>0. Len(m) \in Nat /\ \A p \in Positions : p <= Len(m) => m[p] \in Nat
  BY LenProperties, ElementOfSeq DEF Positions
<1>1. P(0)
  <2> DEFINE h == [p \in Positions |-> Overrun]
  <2>1. h = [p \in Positions |-> h[p]]
    OBVIOUS
  <2>2. \A p \in Positions : p + 0 > Len(m) => p > Len(m)
    BY <1>0 DEF Positions
  <2>3. \A p \in Positions : p + 0 > Len(m) => h[p] = Next(h, p)
    BY <2>2
  <2> HIDE DEF h, Next
  <2> QED
    BY <2>1, <2>3
<1>2. ASSUME NEW n \in Nat, P(n)
      PROVE  P(n + 1)
  <2>1. PICK h : /\ h = [p \in Positions |-> h[p]]
                 /\ \A p \in Positions : p + n > Len(m) => h[p] = Next(h, p)
    BY <1>2
  <2> HIDE DEF Next
  <2> DEFINE k == [p \in Positions |-> IF p + n > Len(m) THEN h[p] ELSE Next(h, p)]
  <2>2. \A p \in Positions : k[p] = Next(h, p)
    BY <2>1
  <2>3. \A p \in Positions : p + n > Len(m) => k[p] = h[p]
    OBVIOUS
  <2>4. k = [p \in Positions |-> k[p]]
    OBVIOUS
  <2> HIDE DEF k
  <2>5. ASSUME NEW p \in Positions, p + (n + 1) > Len(m)
        PROVE  Next(h, p) = Next(k, p)
    <3>1. CASE p > Len(m) \/ m[p] = 0
      BY <3>1 DEF Next
    <3>2. CASE ~(p > Len(m)) /\ m[p] # 0
      <4>1. m[p] \in Nat /\ p \in Nat /\ p > 0
        BY <1>0, <3>2 DEF Positions
      <4>2. p + 1 + m[p] \in Positions /\ p + 1 + m[p] + n > Len(m)
        BY <1>0, <2>5, <4>1 DEF Positions
      <4>3. k[p + 1 + m[p]] = h[p + 1 + m[p]]
        BY <2>3, <4>2
      <4> QED
        BY <3>2, <4>3 DEF Next
    <3> QED
      BY <3>1, <3>2
  <2> QED
    BY <2>2, <2>4, <2>5
<1>3. P(Len(m))
  <2> HIDE DEF P
  <2> DEFINE T == {n \in Nat : P(n)}
  <2>1. 0 \in T /\ \A n \in Nat : n \in T => n + 1 \in T
    BY <1>1, <1>2
  <2>2. \A n \in Nat : n \in T
    BY <2>1, Induction
  <2> QED
    BY <1>0, <2>2
<1>4. PICK h : /\ h = [p \in Positions |-> h[p]]
               /\ \A p \in Positions : p + Len(m) > Len(m) => h[p] = Next(h, p)
  BY <1>3
<1>5. \A p \in Positions : h[p] = Next(h, p)
  <2>1. \A p \in Positions : p + Len(m) > Len(m)
    BY <1>0 DEF Positions
  <2> HIDE DEF Next
  <2> QED
    BY <1>4, <2>1
<1>6. h = [p \in Positions |-> Next(h, p)]
  <2> HIDE DEF Next
  <2> QED
    BY <1>4, <1>5
<1> QED
  BY <1>6 DEF Decodes

\* A name is read label by label.
LEMMA DecodeStep ==
  ASSUME NEW m \in Seq(Nat), NEW p \in Positions
  PROVE  DecodeName(m, p) =
            IF p > Len(m) THEN Overrun
            ELSE IF m[p] = 0 THEN [labels |-> <<>>, next |-> p + 1]
            ELSE IF m[p] >= PointerMark THEN [labels |-> <<>>, next |-> p + 2]
            ELSE LET rest == DecodeName(m, p + 1 + m[p]) IN
                 IF rest = Overrun THEN Overrun
                 ELSE [labels |-> <<Slice(m, p + 1, m[p])>> \o rest.labels, next |-> rest.next]
<1> DEFINE it == CHOOSE walk : Decodes(walk, m)
<1>1. Decodes(it, m)
  BY DecodesExists
<1>2. \A q : DecodeName(m, q) = it[q]
  BY DEF DecodeName, Decodes
<1> HIDE DEF it
<1>3. it[p] = IF p > Len(m) THEN Overrun
              ELSE IF m[p] = 0 THEN [labels |-> <<>>, next |-> p + 1]
              ELSE IF m[p] >= PointerMark THEN [labels |-> <<>>, next |-> p + 2]
              ELSE LET rest == it[p + 1 + m[p]] IN
                   IF rest = Overrun THEN Overrun
                   ELSE [labels |-> <<Slice(m, p + 1, m[p])>> \o rest.labels, next |-> rest.next]
  BY <1>1 DEF Decodes
<1> QED
  BY <1>2, <1>3

\* What is read is a place in the message or beyond.
LEMMA DecodeTypes ==
  ASSUME NEW m \in Seq(Nat), NEW p \in Positions, DecodeName(m, p) # Overrun
  PROVE  DecodeName(m, p).next \in Positions
<1> DEFINE T == {q \in Positions : DecodeName(m, q) # Overrun => DecodeName(m, q).next \in Positions}
<1>0. Len(m) \in Nat /\ \A q \in Positions : q <= Len(m) => m[q] \in Nat
  BY LenProperties, ElementOfSeq DEF Positions
<1>1. \A q \in Positions : q > Len(m) => q \in T
  BY DecodeStep
<1>2. ASSUME NEW q \in Positions, q <= Len(m), \A r \in Positions : r > q => r \in T
      PROVE  q \in T
  <2>1. /\ ~(q > Len(m)) /\ q + 1 \in Positions /\ q + 2 \in Positions
        /\ q + 1 + m[q] \in Positions /\ q + 1 + m[q] > q
    BY <1>0, <1>2 DEF Positions
  <2>2. CASE m[q] = 0
    <3>1. DecodeName(m, q) = [labels |-> <<>>, next |-> q + 1]
      BY <2>1, <2>2, DecodeStep
    <3> QED
      BY <2>1, <3>1
  <2>3. CASE m[q] # 0 /\ m[q] >= PointerMark
    <3>1. DecodeName(m, q) = [labels |-> <<>>, next |-> q + 2]
      BY <2>1, <2>3, DecodeStep
    <3> QED
      BY <2>1, <3>1
  <2>4. CASE m[q] # 0 /\ ~(m[q] >= PointerMark)
    <3> DEFINE rest == DecodeName(m, q + 1 + m[q])
    <3>1. DecodeName(m, q) = IF rest = Overrun THEN Overrun
              ELSE [labels |-> <<Slice(m, q + 1, m[q])>> \o rest.labels, next |-> rest.next]
      BY <2>1, <2>4, DecodeStep
    <3>2. rest # Overrun => rest.next \in Positions
      BY <1>2, <2>1
    <3> HIDE DEF rest
    <3> QED
      BY <3>1, <3>2
  <2> QED
    BY <2>2, <2>3, <2>4
<1> HIDE DEF T
<1>3. p \in T
  BY <1>0, <1>1, <1>2, Downward
<1> QED
  BY <1>3 DEF T

\* A name whose lengths are below the mark is read to its end.
LEMMA DecodeFollows ==
  ASSUME NEW m \in Seq(Nat), NEW b \in Seq(Nat), OnlyLabels(m), NameEnd(m) <= Len(b),
         \A i \in 1..NameEnd(m) : b[i] = m[i]
  PROVE  DecodeName(b, 1) # Overrun /\ DecodeName(b, 1).next = NameEnd(m) + 1
<1>1. PICK e \in 1..Len(m), starts \in SUBSET (1..Len(m)) :
         IsName(m, starts, e) /\ \A p \in starts : m[p] < PointerMark
  BY DEF OnlyLabels
<1> DEFINE T == {p \in Positions : p \in starts =>
                   p <= e /\ DecodeName(b, p) # Overrun /\ DecodeName(b, p).next = e + 1}
<1>2. /\ Len(m) \in Nat /\ Len(b) \in Nat /\ 1 \in Positions /\ e \in Nat
      /\ \A p \in Positions : p <= Len(m) => m[p] \in Nat
  BY LenProperties, ElementOfSeq DEF Positions
<1>3. NameEnd(m) = e
  BY <1>1, NameEndIsEnd
<1>a. e <= Len(b) /\ \A i \in 1..e : b[i] = m[i]
  BY <1>3
<1>b. 1 \in starts /\ m[e] = 0 /\ \A p \in starts \ {e} : m[p] # 0 /\ p + 1 + m[p] \in starts
  BY <1>1 DEF IsName
<1>4. \A p \in Positions : p > Len(m) => p \in T
  <2>1. \A p \in starts : ~(p > Len(m))
    BY <1>2
  <2> QED
    BY <2>1
<1>5. ASSUME NEW p \in Positions, p <= Len(m), \A q \in Positions : q > p => q \in T
      PROVE  p \in T
  <2> SUFFICES ASSUME p \in starts
               PROVE  p <= e /\ DecodeName(b, p) # Overrun /\ DecodeName(b, p).next = e + 1
    OBVIOUS
  <2> DEFINE k == m[p]
             q == p + 1 + k
  <2>0. k \in Nat /\ p \in Nat /\ p > 0
    BY <1>2, <1>5 DEF Positions
  <2> HIDE DEF k
  <2>1. /\ ~(p > Len(m)) /\ q \in Nat \ {0} /\ q > p
        /\ \A x \in Nat : q <= x => p <= x
    BY <1>2, <1>5, <2>0
  <2> HIDE DEF q
  <2>4. q \in Positions
    BY <2>1 DEF Positions
  <2>2. CASE p = e
    <3>1. b[p] = 0 /\ ~(p > Len(b))
      BY <1>2, <1>a, <1>b, <2>0, <2>2
    <3>2. DecodeName(b, p) = [labels |-> <<>>, next |-> p + 1]
      BY <3>1, DecodeStep
    <3> QED
      BY <2>0, <2>2, <3>2 DEF Overrun
  <2>3. CASE p # e
    <3> DEFINE rest == DecodeName(b, q)
    <3>1. k # 0 /\ q \in starts
      BY <1>b, <2>3 DEF k, q
    <3>2. q <= e /\ rest # Overrun /\ rest.next = e + 1
      BY <1>5, <2>1, <2>4, <3>1
    <3> HIDE DEF rest
    <3>3. p <= e /\ p \in 1..e
      BY <1>2, <2>0, <2>1, <3>2
    <3>4. b[p] = k /\ k < PointerMark
      BY <1>1, <1>a, <3>3 DEF k
    <3>8. ~(p > Len(b))
      BY <1>2, <1>a, <2>0, <3>3
    <3>5. ~(k >= PointerMark)
      BY <2>0, <3>4, PacketsAssumption
    <3>6. DecodeName(b, p) = IF rest = Overrun THEN Overrun
              ELSE [labels |-> <<Slice(b, p + 1, b[p])>> \o rest.labels, next |-> rest.next]
      BY <3>1, <3>4, <3>5, <3>8, DecodeStep DEF rest, q
    <3>7. DecodeName(b, p) = [labels |-> <<Slice(b, p + 1, b[p])>> \o rest.labels, next |-> e + 1]
      BY <3>2, <3>6
    <3>9. e + 1 # 0
      BY <1>2
    <3> QED
      BY <3>3, <3>7, <3>9 DEF Overrun
  <2> QED
    BY <2>2, <2>3
<1> HIDE DEF T
<1>6. 1 \in T
  BY <1>2, <1>4, <1>5, Downward
<1> QED
  BY <1>3, <1>6, <1>b DEF T

\* The first question ends where its name does, with a type and a class.
LEMMA OneQuestion ==
  ASSUME NEW message, message.qdcount = 1
  PROVE  AfterQuestions(message) =
            IF DecodeName(message.body, 1) = Overrun THEN 0
            ELSE DecodeName(message.body, 1).next + 4
<1> DEFINE Next(h, k) == IF k = 0 THEN 1
                         ELSE LET name == DecodeName(message.body, h[k - 1]) IN
                              IF h[k - 1] = 0 \/ name = Overrun THEN 0 ELSE name.next + 4
           After(h) == h = [k \in 0..message.qdcount |-> Next(h, k)]
           it == CHOOSE h : After(h)
           name == DecodeName(message.body, 1)
           first == [k \in 0..1 |-> IF k = 0 THEN 1 ELSE IF name = Overrun THEN 0 ELSE name.next + 4]
<1>1. After(first)
  <2>1. first[0] = 1 /\ 1 - 1 = 0
    OBVIOUS
  <2>2. \A k \in 0..1 : k = 0 \/ k = 1
    OBVIOUS
  <2>3. \A k \in 0..1 : first[k] = Next(first, k)
    BY <2>1, <2>2
  <2>4. first = [k \in 0..1 |-> first[k]]
    OBVIOUS
  <2> HIDE DEF first, Next
  <2> QED
    BY <2>3, <2>4
<1>2. After(it)
  <2> HIDE DEF After
  <2> QED
    BY <1>1
<1>3. AfterQuestions(message) = it[message.qdcount]
  BY DEF AfterQuestions
<1> HIDE DEF it
<1>4. it[0] = 1
  BY <1>2
<1>5. it[1] = Next(it, 1)
  <2>1. 1 \in 0..message.qdcount
    OBVIOUS
  <2> HIDE DEF Next
  <2> QED
    BY <1>2, <2>1
<1> QED
  BY <1>3, <1>4, <1>5

LEMMA TwoBytes ==
  ASSUME NEW m, NEW p, m[p] \in Nat, m[p + 1] \in Nat
  PROVE  U16(m, p) \in Nat
  BY DEF U16

\* What Answers reads of a record at p.
ReadAt(m, p) ==
    LET name == DecodeName(m, p)
        head == name.next
    IN  IF name = Overrun \/ ~Within(m, head, 10) THEN <<>>
        ELSE IF U16(m, head) = 1 /\ U16(m, head + 8) = 4
             THEN <<[name |-> Dotted(name.labels), address |-> Slice(m, head + 10, 4)]>>
             ELSE <<>>

\* Of a message with one record or none no more is read than that.
LEMMA OneRecord ==
  ASSUME NEW message, message.body \in Seq(Nat), message.ancount \in 0..1,
         AfterQuestions(message) \in Positions
  PROVE  Answers(message) = IF message.ancount = 0 THEN <<>>
                            ELSE ReadAt(message.body, AfterQuestions(message))
<1> DEFINE m == message.body
           n == message.ancount
           start == AfterQuestions(message)
           Found1(p) == LET name == DecodeName(m, p)
                            head == name.next
                        IN  IF U16(m, head) = 1 /\ U16(m, head + 8) = 4
                            THEN <<[name |-> Dotted(name.labels), address |-> Slice(m, head + 10, 4)]>>
                            ELSE <<>>
           Ends1(p) == DecodeName(m, p) = Overrun \/ ~Within(m, DecodeName(m, p).next, 10)
           After1(p) == DecodeName(m, p).next + 10 + U16(m, DecodeName(m, p).next + 8)
           Next(h, k) == [p \in Positions |->
                            IF k = 0 THEN <<>>
                            ELSE IF Ends1(p) THEN <<>> ELSE Found1(p) \o h[k - 1][After1(p)]]
           Reads(h) == h = [k \in 0..n |-> Next(h, k)]
           it == CHOOSE h : Reads(h)
           none == [p \in Positions |-> <<>>]
           some == [p \in Positions |-> IF Ends1(p) THEN <<>> ELSE Found1(p) \o none[After1(p)]]
           both == [k \in 0..n |-> IF k = 0 THEN none ELSE some]
<1>1. Reads(both)
  <2> HIDE DEF Ends1, Found1, After1
  <2>1. both[0] = none /\ 1 - 1 = 0
    OBVIOUS
  <2>2. \A k \in 0..n : k = 0 \/ k = 1
    OBVIOUS
  <2>3. both[0] = Next(both, 0)
    BY <2>1
  <2>4. 1 \in 0..n => both[1] = Next(both, 1)
    <3>1. 1 \in 0..n => both[1] = some
      OBVIOUS
    <3> HIDE DEF both, none
    <3>2. some = Next(both, 1)
      BY <2>1
    <3> QED
      BY <3>1, <3>2
  <2>5. \A k \in 0..n : both[k] = Next(both, k)
    <3> HIDE DEF both, Next
    <3> QED
      BY <2>2, <2>3, <2>4
  <2>6. both = [k \in 0..n |-> both[k]]
    OBVIOUS
  <2> HIDE DEF both, Next
  <2> QED
    BY <2>5, <2>6
<1>2. Reads(it)
  <2> HIDE DEF Reads
  <2> QED
    BY <1>1
<1>3. Answers(message) = IF start = 0 THEN <<>> ELSE it[n][start]
  BY DEF Answers
<1>4. start # 0 /\ 0 \in 0..n
  BY DEF Positions
<1> HIDE DEF it
<1>5. it[0] = Next(it, 0)
  <2> HIDE DEF Next
  <2> QED
    BY <1>2, <1>4
<1>6. CASE n = 0
  BY <1>3, <1>4, <1>5, <1>6
<1>7. CASE n = 1
  <2>1. it[1] = Next(it, 1)
    <3> HIDE DEF Next
    <3> QED
      BY <1>2, <1>7
  <2>2. it[1][start] = IF Ends1(start) THEN <<>> ELSE Found1(start) \o it[0][After1(start)]
    <3> HIDE DEF Ends1, Found1, After1
    <3> QED
      BY <2>1
  <2>3. ~Ends1(start) => After1(start) \in Positions
    <3> SUFFICES ASSUME ~Ends1(start) PROVE After1(start) \in Positions
      OBVIOUS
    <3> DEFINE head == DecodeName(m, start).next
    <3>1. head \in Positions
      BY DecodeTypes
    <3>2. Within(m, head, 10) /\ Len(m) \in Nat
      BY LenProperties
    <3> HIDE DEF head
    <3>3. head + 8 \in 1..Len(m) /\ head + 9 \in 1..Len(m)
      BY <3>1, <3>2 DEF Positions, Within
    <3>4. m[head + 8] \in Nat /\ m[head + 8 + 1] \in Nat
      BY <3>1, <3>3, ElementOfSeq DEF Positions
    <3>5. U16(m, head + 8) \in Nat
      BY <3>4, TwoBytes
    <3>6. head + 10 + U16(m, head + 8) \in Positions
      BY <3>1, <3>5 DEF Positions
    <3> QED
      BY <3>6 DEF head
  <2>4. ~Ends1(start) => it[0][After1(start)] = <<>>
    <3> HIDE DEF Ends1, Found1, After1
    <3> QED
      BY <1>5, <2>3
  <2>5. Found1(start) \o <<>> = Found1(start)
    <3>1. \A x : <<x>> \in Seq({x}) /\ <<>> \in Seq({x})
      OBVIOUS
    <3>2. \A x : <<x>> \o <<>> = <<x>>
      BY <3>1, ConcatEmptySeq
    <3>3. <<>> \o <<>> = <<>>
      BY <3>1, ConcatEmptySeq
    <3> QED
      BY <3>2, <3>3
  <2>6. it[1][start] = IF Ends1(start) THEN <<>> ELSE Found1(start)
    <3> HIDE DEF Ends1, Found1, After1
    <3> QED
      BY <2>2, <2>4, <2>5
  <2> QED
    BY <1>3, <1>4, <1>7, <2>6 DEF ReadAt
<1> QED
  BY <1>6, <1>7

LEMMA Joined ==
  ASSUME NEW s \in Seq(Nat), NEW t \in Seq(Nat)
  PROVE  /\ s \o t \in Seq(Nat) /\ Len(s \o t) = Len(s) + Len(t)
         /\ \A i \in 1..Len(s) : (s \o t)[i] = s[i]
         /\ \A k \in 1..Len(t) : (s \o t)[Len(s) + k] = t[k]
<1>1. /\ s \o t \in Seq(Nat) /\ Len(s \o t) = Len(s) + Len(t)
      /\ \A i \in 1..(Len(s) + Len(t)) : (s \o t)[i] = IF i <= Len(s) THEN s[i] ELSE t[i - Len(s)]
  BY ConcatProperties
<1>2. Len(s) \in Nat /\ Len(t) \in Nat
  BY LenProperties
<1>3. \A i \in 1..Len(s) : (s \o t)[i] = s[i]
  BY <1>1, <1>2
<1>4. ASSUME NEW k \in 1..Len(t)
      PROVE  (s \o t)[Len(s) + k] = t[k]
  <2>1. /\ Len(s) + k \in 1..(Len(s) + Len(t)) /\ ~(Len(s) + k <= Len(s))
        /\ (Len(s) + k) - Len(s) = k
    BY <1>2
  <2> QED
    BY <1>1, <2>1
<1> QED
  BY <1>1, <1>3, <1>4

LEMMA JoinedThree ==
  ASSUME NEW q \in Seq(Nat), NEW mark \in Seq(Nat), Len(mark) = 2, NEW record \in Seq(Nat), Len(record) = 14
  PROVE  LET b == q \o mark \o record
             n == Len(q)
         IN  /\ b \in Seq(Nat) /\ Len(b) = n + 16
             /\ \A i \in 1..n : b[i] = q[i]
             /\ b[n + 1] = mark[1] /\ b[n + 2] = mark[2]
             /\ \A k \in 1..14 : b[n + 2 + k] = record[k]
<1> DEFINE n == Len(q)
           c == q \o mark
           b == c \o record
<1>1. n \in Nat
  BY LenProperties
<1>2. /\ c \in Seq(Nat) /\ Len(c) = n + 2
      /\ \A i \in 1..n : c[i] = q[i]
      /\ \A k \in 1..2 : c[n + k] = mark[k]
  <2>1. /\ q \o mark \in Seq(Nat) /\ Len(q \o mark) = Len(q) + Len(mark)
        /\ \A i \in 1..Len(q) : (q \o mark)[i] = q[i]
        /\ \A k \in 1..Len(mark) : (q \o mark)[Len(q) + k] = mark[k]
    BY Joined
  <2> QED
    BY <2>1
<1> HIDE DEF c, n
<1>3. /\ b \in Seq(Nat) /\ Len(b) = n + 2 + 14
      /\ \A i \in 1..(n + 2) : b[i] = c[i]
      /\ \A k \in 1..14 : b[n + 2 + k] = record[k]
  <2>1. /\ c \o record \in Seq(Nat) /\ Len(c \o record) = Len(c) + Len(record)
        /\ \A i \in 1..Len(c) : (c \o record)[i] = c[i]
        /\ \A k \in 1..Len(record) : (c \o record)[Len(c) + k] = record[k]
    BY <1>2, Joined
  <2> QED
    BY <1>2, <2>1
<1> HIDE DEF b
<1>4. n + 2 + 14 = n + 16 /\ \A i \in 1..n : i \in 1..(n + 2)
  BY <1>1
<1>5. n + 1 \in 1..(n + 2) /\ n + 2 \in 1..(n + 2) /\ 1 \in 1..2 /\ 2 \in 1..2
  BY <1>1
<1>6. b[n + 1] = mark[1] /\ b[n + 2] = mark[2]
  BY <1>2, <1>3, <1>5
<1> QED
  BY <1>2, <1>3, <1>4, <1>6 DEF b, c, n

\* Where the bytes of a reply are, n being the length of the question in it.
Trails(b, n) ==
    /\ b[n + 1] = PointerMark /\ b[n + 2] = 12
    /\ b[n + 3] = 0 /\ b[n + 4] = 1 /\ b[n + 5] = 0
    /\ b[n + 11] = 0 /\ b[n + 12] = 4
    /\ b[n + 13] = 10 /\ b[n + 14] = 0 /\ b[n + 15] = 0 /\ b[n + 16] = 9

LEMMA ReplyBytes ==
  ASSUME NEW q \in Seq(Nat), NEW n \in Nat, n = Len(q),
         NEW b, b = q \o <<PointerMark, 12>> \o Record(1, SinkholeIp)
  PROVE  /\ b \in Seq(Nat) /\ Len(b) = n + 16
         /\ \A i \in 1..n : b[i] = q[i]
         /\ Trails(b, n)
<1> DEFINE mark == <<PointerMark, 12>>
           record == Record(1, SinkholeIp)
<1>1. SinkholeIp \in Seq(Nat) /\ Len(SinkholeIp) = 4
  BY DEF SinkholeIp
<1>2. /\ record \in Seq(Nat) /\ Len(record) = 14
      /\ record[1] = 0 /\ record[2] = 1 /\ record[3] = 0 /\ record[9] = 0 /\ record[10] = 4
      /\ record[11] = 10 /\ record[12] = 0 /\ record[13] = 0 /\ record[14] = 9
  <2> DEFINE front == <<0, 1, 0, 1, 0, 0, 0, 30, 0, 4>>
  <2>1. front \in Seq(Nat) /\ Len(front) = 10
    OBVIOUS
  <2>2. record = front \o SinkholeIp
    BY <1>1 DEF Record
  <2>3. front[1] = 0 /\ front[2] = 1 /\ front[3] = 0 /\ front[9] = 0 /\ front[10] = 4
    OBVIOUS
  <2>4. SinkholeIp[1] = 10 /\ SinkholeIp[2] = 0 /\ SinkholeIp[3] = 0 /\ SinkholeIp[4] = 9
    BY DEF SinkholeIp
  <2> HIDE DEF front
  <2>5. /\ front \o SinkholeIp \in Seq(Nat)
        /\ Len(front \o SinkholeIp) = Len(front) + Len(SinkholeIp)
        /\ \A i \in 1..Len(front) : (front \o SinkholeIp)[i] = front[i]
        /\ \A k \in 1..Len(SinkholeIp) : (front \o SinkholeIp)[Len(front) + k] = SinkholeIp[k]
    BY <1>1, <2>1, Joined
  <2>a. 10 + 4 = 14
    OBVIOUS
  <2>b. /\ front \o SinkholeIp \in Seq(Nat) /\ Len(front \o SinkholeIp) = 14
        /\ \A i \in 1..10 : (front \o SinkholeIp)[i] = front[i]
        /\ \A k \in 1..4 : (front \o SinkholeIp)[10 + k] = SinkholeIp[k]
    BY Zenon, <1>1, <2>1, <2>5, <2>a
  <2> HIDE DEF record
  <2>6. /\ record \in Seq(Nat) /\ Len(record) = 14
        /\ \A i \in 1..10 : record[i] = front[i]
        /\ \A k \in 1..4 : record[10 + k] = SinkholeIp[k]
    BY Zenon, <2>2, <2>b
  <2>7. /\ record[10 + 1] = SinkholeIp[1] /\ record[10 + 2] = SinkholeIp[2]
        /\ record[10 + 3] = SinkholeIp[3] /\ record[10 + 4] = SinkholeIp[4]
    BY <2>6
  <2>8. /\ record[1] = front[1] /\ record[2] = front[2] /\ record[3] = front[3]
        /\ record[9] = front[9] /\ record[10] = front[10]
    BY <2>6
  <2> QED
    BY <2>3, <2>4, <2>6, <2>7, <2>8
<1>3. mark \in Seq(Nat) /\ Len(mark) = 2 /\ mark[1] = PointerMark /\ mark[2] = 12
  BY PacketsAssumption
<1>4. b = q \o mark \o record
  OBVIOUS
<1> HIDE DEF mark, record
<1>5. /\ b \in Seq(Nat) /\ Len(b) = n + 16
      /\ \A i \in 1..n : b[i] = q[i]
      /\ b[n + 1] = mark[1] /\ b[n + 2] = mark[2]
      /\ \A k \in 1..14 : b[n + 2 + k] = record[k]
  <2>1. LET c == q \o mark \o record
            k == Len(q)
        IN  /\ c \in Seq(Nat) /\ Len(c) = k + 16
            /\ \A i \in 1..k : c[i] = q[i]
            /\ c[k + 1] = mark[1] /\ c[k + 2] = mark[2]
            /\ \A i \in 1..14 : c[k + 2 + i] = record[i]
    BY Zenon, <1>2, <1>3, JoinedThree
  <2> QED
    BY Zenon, <1>4, <2>1
<1>6. /\ b[n + 2 + 1] = record[1] /\ b[n + 2 + 2] = record[2] /\ b[n + 2 + 3] = record[3]
      /\ b[n + 2 + 9] = record[9] /\ b[n + 2 + 10] = record[10] /\ b[n + 2 + 11] = record[11]
      /\ b[n + 2 + 12] = record[12] /\ b[n + 2 + 13] = record[13] /\ b[n + 2 + 14] = record[14]
  <2>1. /\ 1 \in 1..14 /\ 2 \in 1..14 /\ 3 \in 1..14 /\ 9 \in 1..14 /\ 10 \in 1..14
        /\ 11 \in 1..14 /\ 12 \in 1..14 /\ 13 \in 1..14 /\ 14 \in 1..14
    OBVIOUS
  <2> QED
    BY Zenon, <1>5, <2>1
<1>7. /\ n + 2 + 1 = n + 3 /\ n + 2 + 2 = n + 4 /\ n + 2 + 3 = n + 5
      /\ n + 2 + 9 = n + 11 /\ n + 2 + 10 = n + 12 /\ n + 2 + 11 = n + 13
      /\ n + 2 + 12 = n + 14 /\ n + 2 + 13 = n + 15 /\ n + 2 + 14 = n + 16
  OBVIOUS
<1>8. Trails(b, n)
  BY <1>2, <1>3, <1>5, <1>6, <1>7 DEF Trails
<1> QED
  BY <1>5, <1>8

LEMMA FourBytes ==
  ASSUME NEW b \in Seq(Nat), NEW lo \in Nat, lo # 0, NEW hi \in Nat, hi = lo + 3, hi <= Len(b)
  PROVE  /\ SubSeq(b, lo, hi) \in Seq(Nat) /\ Len(SubSeq(b, lo, hi)) = 4
         /\ \A i \in 1..4 : SubSeq(b, lo, hi)[i] = b[lo + i - 1]
<1>1. \A i \in lo..hi : b[i] \in Nat
  <2>1. \A i \in lo..hi : i \in 1..Len(b)
    BY LenProperties
  <2> QED
    BY Zenon, <2>1, ElementOfSeq
<1>2. lo \in Int /\ hi \in Int /\ lo <= hi /\ hi - lo + 1 = 4
  OBVIOUS
<1>3. /\ SubSeq(b, lo, hi) \in Seq(Nat)
      /\ Len(SubSeq(b, lo, hi)) = IF lo <= hi THEN hi - lo + 1 ELSE 0
      /\ \A i \in 1..(hi - lo + 1) : SubSeq(b, lo, hi)[i] = b[lo + i - 1]
  <2>1. lo \in Int /\ hi \in Int
    BY <1>2
  <2> QED
    BY <1>1, <2>1, SubSeqProperties
<1>4. hi - lo + 1 = 4
  BY <1>2
<1>5. \A i \in 1..4 : SubSeq(b, lo, hi)[i] = b[lo + i - 1]
  BY Zenon, <1>3, <1>4
<1>6. Len(SubSeq(b, lo, hi)) = hi - lo + 1
  BY Zenon, <1>2, <1>3
<1> QED
  BY Zenon, <1>3, <1>4, <1>5, <1>6

\* What is read where the record is looked for: the record behind a whole
\* question, and nothing behind one that its class is missing of, wholly or half.
LEMMA RecordIsRead ==
  ASSUME NEW b \in Seq(Nat), NEW n \in Nat, Len(b) = n + 16, Trails(b, n)
  PROVE  /\ ReadAt(b, n + 1) = <<[name |-> <<>>, address |-> SinkholeIp]>>
         /\ ReadAt(b, n + 2) = <<>>
         /\ ReadAt(b, n + 3) = <<>>
<1>0. /\ b[n + 1] = PointerMark /\ b[n + 2] = 12
      /\ b[n + 3] = 0 /\ b[n + 4] = 1 /\ b[n + 5] = 0
      /\ b[n + 11] = 0 /\ b[n + 12] = 4
      /\ b[n + 13] = 10 /\ b[n + 14] = 0 /\ b[n + 15] = 0 /\ b[n + 16] = 9
  BY DEF Trails
<1>1. U16(b, n + 4) # 1
  <2>1. n + 4 + 1 = n + 5
    OBVIOUS
  <2> QED
    BY <1>0, <2>1 DEF U16
<1>2. ReadAt(b, n + 1) = <<[name |-> <<>>, address |-> SinkholeIp]>>
  <2>1. n + 1 \in Positions /\ ~(n + 1 > Len(b)) /\ b[n + 1] # 0 /\ b[n + 1] >= PointerMark
        /\ n + 1 + 2 = n + 3
    BY <1>0, PacketsAssumption DEF Positions
  <2>2. DecodeName(b, n + 1) = [labels |-> <<>>, next |-> n + 3]
    BY <2>1, DecodeStep
  <2>3. /\ DecodeName(b, n + 1) # Overrun /\ DecodeName(b, n + 1).next = n + 3
        /\ DecodeName(b, n + 1).labels = <<>>
    BY <2>2 DEF Overrun
  <2>4. Within(b, n + 3, 10)
    BY DEF Within
  <2>5. U16(b, n + 3) = 1
    <3>1. n + 3 + 1 = n + 4
      OBVIOUS
    <3> QED
      BY <1>0, <3>1 DEF U16
  <2>6. U16(b, n + 3 + 8) = 4
    <3>1. n + 3 + 8 = n + 11 /\ n + 11 + 1 = n + 12
      OBVIOUS
    <3> QED
      BY <1>0, <3>1 DEF U16
  <2>7. Slice(b, n + 3 + 10, 4) = SinkholeIp
    <3>1. n + 3 + 10 = n + 13 /\ n + 13 + 4 - 1 = n + 16 /\ n + 16 <= Len(b)
      OBVIOUS
    <3>2. Slice(b, n + 13, 4) = SubSeq(b, n + 13, n + 16)
      BY <3>1 DEF Slice
    <3>5. /\ SubSeq(b, n + 13, n + 16) \in Seq(Nat)
          /\ Len(SubSeq(b, n + 13, n + 16)) = 4
          /\ \A i \in 1..4 : SubSeq(b, n + 13, n + 16)[i] = b[(n + 13) + i - 1]
      <4>1. /\ n + 13 \in Nat /\ n + 13 # 0 /\ n + 16 \in Nat /\ n + 16 = (n + 13) + 3
            /\ n + 16 <= Len(b)
        OBVIOUS
      <4> QED
        BY Zenon, <4>1, FourBytes
    <3>6. /\ (n + 13) + 1 - 1 = n + 13 /\ (n + 13) + 2 - 1 = n + 14
          /\ (n + 13) + 3 - 1 = n + 15 /\ (n + 13) + 4 - 1 = n + 16
      OBVIOUS
    <3>7. /\ SubSeq(b, n + 13, n + 16)[1] = 10 /\ SubSeq(b, n + 13, n + 16)[2] = 0
          /\ SubSeq(b, n + 13, n + 16)[3] = 0 /\ SubSeq(b, n + 13, n + 16)[4] = 9
      BY <1>0, <3>5, <3>6
    <3>8. SubSeq(b, n + 13, n + 16) = SinkholeIp
      <4>1. SinkholeIp \in Seq(Nat) /\ Len(SinkholeIp) = 4
            /\ SinkholeIp[1] = 10 /\ SinkholeIp[2] = 0 /\ SinkholeIp[3] = 0 /\ SinkholeIp[4] = 9
        BY DEF SinkholeIp
      <4>2. \A i \in 1..4 : i = 1 \/ i = 2 \/ i = 3 \/ i = 4
        OBVIOUS
      <4> DEFINE slice == SubSeq(b, n + 13, n + 16)
      <4>3. \A i \in 1..4 : slice[i] = SinkholeIp[i]
        BY <3>7, <4>1, <4>2
      <4>4. slice \in Seq(Nat) /\ Len(slice) = 4
        BY <3>5
      <4> HIDE DEF slice
      <4>5. slice = SinkholeIp
        BY <4>1, <4>3, <4>4, SeqEqual
      <4> QED
        BY <4>5 DEF slice
    <3> QED
      BY <3>1, <3>2, <3>8
  <2>8. Dotted(<<>>) = <<>>
    BY DEF Dotted
  <2> QED
    BY <2>3, <2>4, <2>5, <2>6, <2>7, <2>8 DEF ReadAt
<1>3. ReadAt(b, n + 3) = <<>>
  <2>1. n + 3 \in Positions /\ ~(n + 3 > Len(b)) /\ n + 3 + 1 = n + 4
    BY DEF Positions
  <2>2. DecodeName(b, n + 3) = [labels |-> <<>>, next |-> n + 4]
    BY <1>0, <2>1, DecodeStep
  <2>3. DecodeName(b, n + 3).next = n + 4
    BY <2>2
  <2> QED
    BY <1>1, <2>3 DEF ReadAt
<1>4. ReadAt(b, n + 2) = <<>>
  <2>1. n + 2 \in Positions /\ ~(n + 2 > Len(b)) /\ b[n + 2] # 0 /\ n + 2 + 2 = n + 4
    BY <1>0 DEF Positions
  <2>2. CASE 12 >= PointerMark
    <3>1. DecodeName(b, n + 2) = [labels |-> <<>>, next |-> n + 4]
      BY <1>0, <2>1, <2>2, DecodeStep
    <3>2. DecodeName(b, n + 2).next = n + 4
      BY <3>1
    <3> QED
      BY <1>1, <3>2 DEF ReadAt
  <2>3. CASE ~(12 >= PointerMark)
    <3> DEFINE rest == DecodeName(b, n + 15)
    <3>1. n + 15 \in Positions /\ ~(n + 15 > Len(b)) /\ n + 15 + 1 = n + 16 /\ n + 16 # 0
      BY DEF Positions
    <3>2. rest = [labels |-> <<>>, next |-> n + 16]
      BY <1>0, <3>1, DecodeStep
    <3>3. rest # Overrun /\ rest.next = n + 16
      BY <3>1, <3>2 DEF Overrun
    <3>4. n + 2 + 1 + 12 = n + 15
      OBVIOUS
    <3>5. DecodeName(b, n + 2) = IF rest = Overrun THEN Overrun
              ELSE [labels |-> <<Slice(b, n + 2 + 1, 12)>> \o rest.labels, next |-> rest.next]
      <4>1. DecodeName(b, n + 2) =
               IF n + 2 > Len(b) THEN Overrun
               ELSE IF b[n + 2] = 0 THEN [labels |-> <<>>, next |-> n + 2 + 1]
               ELSE IF b[n + 2] >= PointerMark THEN [labels |-> <<>>, next |-> n + 2 + 2]
               ELSE LET more == DecodeName(b, n + 2 + 1 + b[n + 2]) IN
                    IF more = Overrun THEN Overrun
                    ELSE [labels |-> <<Slice(b, n + 2 + 1, b[n + 2])>> \o more.labels, next |-> more.next]
        BY Zenon, <2>1, DecodeStep
      <4>2. b[n + 2] = 12 /\ n + 2 + 1 + b[n + 2] = n + 15
        BY <1>0, <3>4
      <4> QED
        BY Zenon, <2>1, <2>3, <4>1, <4>2
    <3> HIDE DEF rest
    <3>6. DecodeName(b, n + 2).next = n + 16
      BY <3>3, <3>5
    <3>7. ~Within(b, n + 16, 10)
      BY DEF Within
    <3> QED
      BY <3>6, <3>7 DEF ReadAt
  <2> QED
    BY <2>2, <2>3
<1> QED
  BY <1>2, <1>3, <1>4

\* The question of a reply, cut where the query's message ends.
LEMMA QuestionBytes ==
  ASSUME NEW m \in Seq(Nat), NEW e \in 1..Len(m)
  PROVE  LET q == Slice(m, 1, e + 4)
         IN  /\ q \in Seq(Nat)
             /\ Len(q) = IF e + 4 <= Len(m) THEN e + 4 ELSE Len(m)
             /\ e <= Len(q)
             /\ \A i \in 1..Len(q) : q[i] = m[i]
<1> DEFINE last == IF e + 4 <= Len(m) THEN e + 4 ELSE Len(m)
<1>1. Len(m) \in Nat /\ e \in Nat /\ last \in 1..Len(m) /\ e <= last
  BY LenProperties
<1>2. Slice(m, 1, e + 4) = SubSeq(m, 1, last)
  <2>1. 1 + (e + 4) - 1 = e + 4
    BY <1>1
  <2> QED
    BY <2>1 DEF Slice
<1> HIDE DEF last
<1>3. \A i \in 1..last : m[i] \in Nat
  BY <1>1, ElementOfSeq
<1>4. /\ SubSeq(m, 1, last) \in Seq(Nat) /\ Len(SubSeq(m, 1, last)) = last
      /\ \A i \in 1..last : SubSeq(m, 1, last)[i] = m[i]
  BY <1>1, <1>3, SubSeqProperties
<1> QED
  BY <1>1, <1>2, <1>4 DEF last

\* Where its parts end, for a name that ends at e of a message of L bytes.
PlacesIn(e, n, L) ==
    /\ e <= n /\ n <= L /\ e <= n + 16
    /\ e + 4 <= L => e + 5 = n + 1
    /\ ~(e + 4 <= L) => e + 5 = n + 2 \/ e + 5 = n + 3
    /\ \A i \in 1..e : i \in 1..n /\ i \in 1..L
    /\ (e + 1) + 4 = e + 5 /\ e + 5 \in Positions

LEMMA ReplyPlaces ==
  ASSUME NEW e \in Nat, NEW L \in Nat, NEW n \in Nat, e # 0, e + 2 <= L,
         n = IF e + 4 <= L THEN e + 4 ELSE L
  PROVE  PlacesIn(e, n, L)
BY DEF PlacesIn, Positions

\* The answers in a reply with one record, n being the length of its question.
LEMMA ReplyIsRead ==
  ASSUME NEW m \in Seq(Nat), NameEnd(m) # 0, NameEnd(m) + 2 <= Len(m), OnlyLabels(m),
         NEW reply, reply.qdcount = 1, reply.ancount = 1,
         reply.body = Slice(m, 1, NameEnd(m) + 4) \o <<PointerMark, 12>> \o Record(1, SinkholeIp)
  PROVE  Answers(reply) = IF NameEnd(m) + 4 <= Len(m)
                          THEN <<[name |-> <<>>, address |-> SinkholeIp]>> ELSE <<>>
<1> DEFINE e == NameEnd(m)
           L == Len(m)
           q == Slice(m, 1, e + 4)
           n == Len(q)
           b == reply.body
<1>a. /\ e \in 1..Len(m) /\ L \in Nat /\ L = Len(m) /\ e \in Nat /\ e = NameEnd(m) /\ e # 0 /\ e + 2 <= L
  BY NameEndIsEnd, LenProperties
<1>b. /\ q \in Seq(Nat) /\ n = Len(q) /\ n = (IF e + 4 <= L THEN e + 4 ELSE L)
      /\ \A i \in 1..n : q[i] = m[i]
  <2> HIDE DEF e
  <2> QED
    BY <1>a, QuestionBytes
<1>c. n \in Nat
  BY <1>b, LenProperties
<1>d. /\ b = q \o <<PointerMark, 12>> \o Record(1, SinkholeIp) /\ b = reply.body
  OBVIOUS
<1> HIDE DEF e, L, q, n, b
<1>1. /\ b \in Seq(Nat) /\ Len(b) = n + 16
      /\ \A i \in 1..n : b[i] = q[i]
      /\ Trails(b, n)
  BY Zenon, <1>b, <1>c, <1>d, ReplyBytes
<1>2. /\ e <= n /\ n <= L /\ e <= n + 16
      /\ e + 4 <= L => e + 5 = n + 1
      /\ ~(e + 4 <= L) => e + 5 = n + 2 \/ e + 5 = n + 3
      /\ \A i \in 1..e : i \in 1..n /\ i \in 1..L
      /\ (e + 1) + 4 = e + 5 /\ e + 5 \in Positions
  <2>1. PlacesIn(e, n, L)
    BY Zenon, <1>a, <1>b, <1>c, ReplyPlaces
  <2> QED
    BY Zenon, <2>1 DEF PlacesIn
<1>3. \A i \in 1..e : b[i] = m[i]
  BY Zenon, <1>1, <1>2, <1>b
<1>4. DecodeName(b, 1) # Overrun /\ DecodeName(b, 1).next = e + 1
  <2>1. NameEnd(m) <= Len(b)
    BY Zenon, <1>1, <1>2, <1>a
  <2>2. \A i \in 1..NameEnd(m) : b[i] = m[i]
    BY Zenon, <1>3, <1>a
  <2>3. DecodeName(b, 1) # Overrun /\ DecodeName(b, 1).next = NameEnd(m) + 1
    BY Zenon, <1>1, <2>1, <2>2, DecodeFollows
  <2> QED
    BY Zenon, <2>3, <1>a
<1>5. AfterQuestions(reply) = e + 5 /\ e + 5 \in Positions
  <2>1. AfterQuestions(reply) = DecodeName(b, 1).next + 4
    BY Zenon, <1>4, <1>d, OneQuestion
  <2> QED
    BY Zenon, <1>2, <1>4, <2>1
<1>6. Answers(reply) = ReadAt(b, e + 5)
  <2>1. reply.body \in Seq(Nat) /\ reply.ancount \in 0..1 /\ reply.ancount # 0
    <3>1. reply.body \in Seq(Nat)
      BY Zenon, <1>1, <1>d
    <3>2. 1 \in 0..1 /\ 1 # 0
      OBVIOUS
    <3> QED
      BY Zenon, <3>1, <3>2
  <2>2. AfterQuestions(reply) \in Positions
    BY <1>5
  <2>3. Answers(reply) = IF reply.ancount = 0 THEN <<>>
                         ELSE ReadAt(reply.body, AfterQuestions(reply))
    BY <2>1, <2>2, OneRecord
  <2> QED
    BY Zenon, <1>5, <1>d, <2>1, <2>3
<1>7. /\ ReadAt(b, n + 1) = <<[name |-> <<>>, address |-> SinkholeIp]>>
      /\ ReadAt(b, n + 2) = <<>>
      /\ ReadAt(b, n + 3) = <<>>
  BY Zenon, <1>1, <1>c, RecordIsRead
<1>8. CASE e + 4 <= L
  BY Zenon, <1>2, <1>6, <1>7, <1>8, <1>a
<1>9. CASE ~(e + 4 <= L)
  BY Zenon, <1>2, <1>6, <1>7, <1>9, <1>a
<1> QED
  BY <1>8, <1>9 DEF e, L

LEMMA QuestionHolds ==
  ASSUME NEW m \in Seq(Nat), NameEnd(m) # 0
  PROVE  /\ Slice(m, 1, NameEnd(m) + 4) \in Seq(Nat)
         /\ NameEnd(m) <= Len(Slice(m, 1, NameEnd(m) + 4))
         /\ \A i \in 1..Len(Slice(m, 1, NameEnd(m) + 4)) : Slice(m, 1, NameEnd(m) + 4)[i] = m[i]
<1>1. NameEnd(m) \in 1..Len(m)
  BY NameEndIsEnd, LenProperties
<1> QED
  BY <1>1, QuestionBytes

\* A reply without a record tells no address.
LEMMA BareReplyIsRead ==
  ASSUME NEW m \in Seq(Nat), NameEnd(m) # 0, OnlyLabels(m),
         NEW reply, reply.qdcount = 1, reply.ancount = 0,
         reply.body = Slice(m, 1, NameEnd(m) + 4)
  PROVE  Answers(reply) = <<>>
<1> DEFINE e == NameEnd(m)
           L == Len(m)
           q == Slice(m, 1, e + 4)
<1>a. e \in 1..Len(m) /\ L \in Nat /\ L = Len(m) /\ e \in Nat /\ e = NameEnd(m) /\ e # 0
  BY NameEndIsEnd, LenProperties
<1>b. q \in Seq(Nat) /\ e <= Len(q) /\ \A i \in 1..Len(q) : q[i] = m[i]
  BY Zenon, QuestionHolds
<1>e. e <= L
  BY <1>a
<1>c. Len(q) \in Nat
  BY <1>b, LenProperties
<1>d. reply.body = q
  OBVIOUS
<1> HIDE DEF e, L, q
<1>1. \A i \in 1..e : q[i] = m[i]
  <2>1. \A i \in 1..e : i \in 1..Len(q)
    BY <1>a, <1>b, <1>c, <1>e
  <2> QED
    BY Zenon, <1>b, <2>1
<1>2. DecodeName(q, 1) # Overrun /\ DecodeName(q, 1).next = e + 1
  <2>1. DecodeName(q, 1) # Overrun /\ DecodeName(q, 1).next = NameEnd(m) + 1
    BY <1>1, <1>a, <1>b, DecodeFollows
  <2> QED
    BY <1>a, <2>1
<1>3. AfterQuestions(reply) \in Positions
  <2>1. AfterQuestions(reply) = DecodeName(q, 1).next + 4
    BY <1>2, <1>d, OneQuestion
  <2>2. (e + 1) + 4 \in Positions
    BY <1>a DEF Positions
  <2> QED
    BY <1>2, <2>1, <2>2
<1> QED
  BY <1>3, <1>b, <1>d, OneRecord

\* What is said of a reply, for a query with any bytes.
Readable(query, out) ==
    LET m == query.body
        SaysType == \E e \in NameEnds(m) : e + 2 <= Len(m)
        WholeA == \E e \in NameEnds(m) : e + 4 <= Len(m) /\ U16(m, e + 1) = 1
    IN  /\ out # NoReply <=> ~query.short /\ query.qdcount > 0 /\ SaysType
        /\ out # NoReply /\ OnlyLabels(m) =>
              Answers(out) = IF WholeA THEN <<[name |-> <<>>, address |-> SinkholeIp]>> ELSE <<>>

LEMMA ReplyToAny ==
  ASSUME NEW query, query.short \in BOOLEAN, query.qdcount \in Nat, query.body \in Seq(Nat)
  PROVE  Readable(query, Respond(query, SinkholeIp))
<1> DEFINE m == query.body
           L == Len(m)
           e == NameEnd(m)
           All == NameEnds(m)
           question == Slice(m, 1, e + 4)
           record == question \o <<PointerMark, 12>> \o Record(1, SinkholeIp)
           out == Respond(query, SinkholeIp)
           found == <<[name |-> <<>>, address |-> SinkholeIp]>>
           WholeA == \E k \in All : k + 4 <= L /\ U16(m, k + 1) = 1
           asked == ~query.short /\ query.qdcount > 0 /\ e # 0 /\ e + 2 <= L
<1>1. /\ m \in Seq(Nat) /\ L \in Nat /\ e \in 0..L
      /\ e # 0 => \E starts \in SUBSET (1..L) : IsName(m, starts, e)
      /\ \A k \in 1..L, starts \in SUBSET (1..L) : IsName(m, starts, k) => e = k
  BY LenProperties, NameEndIsEnd
<1>2. \A k : k \in All <=> e # 0 /\ k = e
  <2> HIDE DEF e, L, m
  <2>1. \A k : k \in 1..L /\ e # 0 /\ k = e <=> e # 0 /\ k = e
    BY <1>1
  <2>2. NameEnds(m) = {k \in 1..L : \E starts \in SUBSET (1..L) : IsName(m, starts, k)}
    BY Zenon DEF NameEnds, L
  <2> QED
    BY <1>1, <2>1, <2>2
<1>3. out = IF ~asked THEN NoReply
            ELSE IF U16(m, e + 1) # 1 THEN [qdcount |-> 1, ancount |-> 0, body |-> question]
            ELSE [qdcount |-> 1, ancount |-> 1, body |-> record]
  <2>1. Within(m, e + 1, 2) <=> e + 2 <= L
    <3> HIDE DEF e, L
    <3> QED
      BY <1>1 DEF Within, L
  <2>2. query.qdcount < 1 <=> ~(query.qdcount > 0)
    OBVIOUS
  <2> QED
    BY Zenon, <2>1, <2>2 DEF Respond
<1> HIDE DEF out, question, record
<1>4. out # NoReply <=> asked
  <2>1. NoReply.qdcount = 0
    BY DEF NoReply
  <2>2. asked => out.qdcount = 1
    BY <1>3
  <2> QED
    BY <1>3, <2>1, <2>2
<1> HIDE DEF All, e, L, m
<1>5. out # NoReply <=> ~query.short /\ query.qdcount > 0 /\ \E k \in All : k + 2 <= L
  BY <1>2, <1>4
<1>6. WholeA <=> e # 0 /\ e + 4 <= L /\ U16(m, e + 1) = 1
  BY <1>2
<1> HIDE DEF WholeA
<1>7. ASSUME asked, OnlyLabels(m)
      PROVE  Answers(out) = IF WholeA THEN found ELSE <<>>
  <2>1. /\ question \in Seq(Nat) /\ Len(question) = (IF e + 4 <= L THEN e + 4 ELSE L)
        /\ e <= Len(question) /\ \A i \in 1..Len(question) : question[i] = m[i]
    <3>1. e \in 1..Len(m)
      BY <1>1, <1>7 DEF L
    <3> QED
      BY <1>1, <3>1, QuestionBytes DEF question, L
  <2>2. /\ L = Len(m) /\ e = NameEnd(m) /\ e \in Nat /\ e <= L /\ L \in Nat /\ m \in Seq(Nat)
        /\ Len(question) \in Nat /\ e # 0 /\ e + 2 <= L
    BY <1>1, <1>7, <2>1 DEF L, e
  <2>3. CASE U16(m, e + 1) = 1
    <3>1. out.qdcount = 1 /\ out.ancount = 1 /\ out.body = record
      BY <1>3, <1>7, <2>3
    <3>2. Answers(out) = IF e + 4 <= L THEN found ELSE <<>>
      <4>2. record = Slice(m, 1, NameEnd(m) + 4) \o <<PointerMark, 12>> \o Record(1, SinkholeIp)
        BY Zenon, <2>2 DEF record, question
      <4>3. NameEnd(m) # 0 /\ NameEnd(m) + 2 <= Len(m)
        BY Zenon, <2>2
      <4>4. Answers(out) = IF NameEnd(m) + 4 <= Len(m) THEN found ELSE <<>>
        BY <1>7, <2>2, <3>1, <4>2, <4>3, ReplyIsRead
      <4> QED
        BY Zenon, <2>2, <4>4
    <3>3. WholeA <=> e + 4 <= L
      BY Zenon, <1>6, <2>2, <2>3
    <3> QED
      BY Zenon, <3>2, <3>3
  <2>4. CASE U16(m, e + 1) # 1
    <3>1. out.qdcount = 1 /\ out.ancount = 0 /\ out.body = question
      BY <1>3, <1>7, <2>4
    <3>3. out.body = Slice(m, 1, NameEnd(m) + 4) /\ NameEnd(m) # 0
      BY Zenon, <2>2, <3>1 DEF question
    <3>4. Answers(out) = <<>>
      BY <1>7, <2>2, <3>1, <3>3, BareReplyIsRead
    <3> QED
      BY Zenon, <1>6, <2>4, <3>4
  <2> QED
    BY <2>3, <2>4
<1> QED
  BY Zenon, <1>4, <1>5, <1>7 DEF Readable, out, All, L, m, WholeA

-----------------------------------------------------------------------------
(* The process tree *)

\* Parents of nodes, and the sets a walk up the parents does not leave.
Hangs(par, S) == IsFiniteSet(S) /\ NoPid \notin S /\ par \in [S -> S \cup {NoPid}]
Closed(par, S, T) == T \subseteq S /\ \A t \in T : par[t] # NoPid => par[t] \in T

\* The nodes above one: those of every closed set that its parent is in.
Ancestors(par, S, n) ==
    {m \in S : \A T \in SUBSET S : Closed(par, S, T) /\ (par[n] # NoPid => par[n] \in T) => m \in T}

LEMMA AncestorsAbove ==
  ASSUME NEW S, NEW par, Hangs(par, S), NEW n \in S
  PROVE  /\ Closed(par, S, Ancestors(par, S, n))
         /\ par[n] # NoPid => par[n] \in Ancestors(par, S, n)
         /\ par[n] = NoPid => Ancestors(par, S, n) = {}
         /\ \A T : Closed(par, S, T) /\ (par[n] # NoPid => par[n] \in T) => Ancestors(par, S, n) \subseteq T
<1> DEFINE A == Ancestors(par, S, n)
<1>1. \A T : Closed(par, S, T) /\ (par[n] # NoPid => par[n] \in T) => A \subseteq T
  BY DEF Ancestors, Closed
<1>2. par[n] # NoPid => par[n] \in A
  BY DEF Ancestors, Hangs
<1>3. Closed(par, S, A)
  <2> SUFFICES ASSUME NEW t \in A, par[t] # NoPid PROVE par[t] \in A
    BY DEF Closed, Ancestors
  <2>1. t \in S /\ par[t] \in S
    BY DEF Ancestors, Hangs
  <2> QED
    BY <2>1 DEF Ancestors, Closed
<1>4. par[n] = NoPid => A = {}
  <2>1. Closed(par, S, {})
    BY DEF Closed
  <2> QED
    BY <1>1, <2>1
<1> QED
  BY <1>1, <1>2, <1>3, <1>4

LEMMA AncestorsOfAncestors ==
  ASSUME NEW S, NEW par, Hangs(par, S), NEW n \in S
  PROVE  /\ \A m \in Ancestors(par, S, n) : Ancestors(par, S, m) \subseteq Ancestors(par, S, n)
         /\ \A m \in Ancestors(par, S, n) :
               par[n] # NoPid /\ (m = par[n] \/ m \in Ancestors(par, S, par[n]))
<1>1. ASSUME NEW m \in Ancestors(par, S, n)
      PROVE  Ancestors(par, S, m) \subseteq Ancestors(par, S, n)
  <2>1. m \in S
    BY DEF Ancestors
  <2>2. par[m] # NoPid => par[m] \in Ancestors(par, S, n)
    BY AncestorsAbove DEF Closed
  <2> QED
    BY <2>1, <2>2, AncestorsAbove
<1>2. ASSUME NEW m \in Ancestors(par, S, n)
      PROVE  par[n] # NoPid /\ (m = par[n] \/ m \in Ancestors(par, S, par[n]))
  <2>1. par[n] # NoPid
    BY AncestorsAbove
  <2>2. par[n] \in S
    BY <2>1 DEF Hangs
  <2> DEFINE T == {par[n]} \cup Ancestors(par, S, par[n])
  <2>3. Closed(par, S, T)
    BY <2>2, AncestorsAbove DEF Closed
  <2>4. Ancestors(par, S, n) \subseteq T
    BY <2>3, AncestorsAbove
  <2> QED
    BY <2>1, <2>4
<1> QED
  BY <1>1, <1>2

\* What is known of depths: numbers that follow the parents, but for one node of
\* each circle, which is 0.
Depths(S) == [S -> {Unknown} \cup {Known(d) : d \in Nat}]
Followed(par, S, D) ==
    /\ D \in Depths(S)
    /\ \A n \in S : D[n].known /\ par[n] # NoPid => D[par[n]].known
    /\ \A n \in S : D[n].known /\ D[n].value # 0 =>
          par[n] # NoPid /\ D[n].value = D[par[n]].value + 1
    /\ \A n \in S : D[n].known /\ D[n].value = 0 /\ par[n] # NoPid => n \in Ancestors(par, S, n)
    /\ \A n, m \in S : /\ D[n].known /\ D[n].value = 0 /\ D[m].known /\ D[m].value = 0
                       /\ n \in Ancestors(par, S, m) /\ m \in Ancestors(par, S, n)
                       => n = m

LEMMA DepthValues ==
  ASSUME NEW S, NEW D \in Depths(S), NEW n \in S
  PROVE  D[n].value \in Nat /\ D[n].known \in BOOLEAN
<1>1. D[n] = Unknown \/ \E d \in Nat : D[n] = Known(d)
  BY DEF Depths
<1>2. Unknown.value = 0 /\ Unknown.known = FALSE
  BY DEF Unknown
<1>3. \A d : Known(d).value = d /\ Known(d).known = TRUE
  BY DEF Known
<1>4. D[n].value \in Nat
  <2>1. CASE D[n] = Unknown
    BY <1>2, <2>1
  <2>2. CASE \E d \in Nat : D[n] = Known(d)
    BY Zenon, <1>3, <2>2
  <2> QED
    BY <1>1, <2>1, <2>2
<1>5. D[n].known = FALSE \/ D[n].known = TRUE
  BY Zenon, <1>1, <1>2, <1>3
<1> QED
  BY Zenon, <1>4, <1>5

\* DepthsFollowParents of one tree.
Follow(par, S, depth) ==
    \A n \in S :
        /\ par[n] = NoPid => depth[n] = 0
        /\ par[n] # NoPid /\ n \notin Ancestors(par, S, n) => depth[n] = depth[par[n]] + 1
        /\ n \in Ancestors(par, S, n) =>
              /\ Cardinality({m \in {k \in Ancestors(par, S, n) : n \in Ancestors(par, S, k)} :
                                 depth[m] = 0}) = 1
              /\ depth[n] # 0 => depth[n] = depth[par[n]] + 1

LEMMA CirclesHaveOneZero ==
  ASSUME NEW S, NEW par, Hangs(par, S), NEW D, Followed(par, S, D), \A n \in S : D[n].known
  PROVE  Follow(par, S, [n \in S |-> D[n].value])
<1> DEFINE depth == [n \in S |-> D[n].value]
<1>1. /\ \A n \in S : depth[n] = D[n].value /\ depth[n] \in Nat
      /\ \A n \in S : par[n] # NoPid => par[n] \in S
  BY DepthValues DEF Followed, Hangs
<1>2. /\ \A n \in S : depth[n] # 0 => par[n] # NoPid /\ depth[n] = depth[par[n]] + 1
      /\ \A n \in S : depth[n] = 0 /\ par[n] # NoPid => n \in Ancestors(par, S, n)
      /\ \A n, m \in S : /\ depth[n] = 0 /\ depth[m] = 0
                         /\ n \in Ancestors(par, S, m) /\ m \in Ancestors(par, S, n)
                         => n = m
  BY <1>1 DEF Followed
<1> HIDE DEF depth
<1>3. ASSUME NEW n \in S, n \in Ancestors(par, S, n)
      PROVE  Cardinality({m \in {k \in Ancestors(par, S, n) : n \in Ancestors(par, S, k)} :
                                 depth[m] = 0}) = 1
  <2> DEFINE circle == {k \in Ancestors(par, S, n) : n \in Ancestors(par, S, k)}
  <2>1. n \in circle /\ circle \subseteq S
    BY <1>3 DEF Ancestors
  <2>2. \A m \in circle : par[m] # NoPid /\ par[m] \in circle
    <3> SUFFICES ASSUME NEW m \in circle PROVE par[m] # NoPid /\ par[m] \in circle
      OBVIOUS
    <3>0. m \in S /\ m \in Ancestors(par, S, n) /\ n \in Ancestors(par, S, m)
      BY <2>1
    <3>1. par[m] # NoPid /\ (n = par[m] \/ n \in Ancestors(par, S, par[m]))
      BY <3>0, AncestorsOfAncestors
    <3>2. par[m] \in Ancestors(par, S, n)
      BY <3>0, <3>1, AncestorsAbove DEF Closed
    <3> QED
      BY <1>3, <3>1, <3>2
  <2> HIDE DEF circle
  <2> DEFINE values == {depth[m] : m \in circle}
  <2>3. values \in SUBSET Nat /\ values # {}
    BY <1>1, <2>1
  <2>4. PICK v \in values : \A w \in values : v <= w
    BY <2>3, LeastExists
  <2>5. PICK z \in circle : depth[z] = v
    BY <2>4
  <2>6. depth[z] = 0
    <3> SUFFICES ASSUME depth[z] # 0 PROVE FALSE
      OBVIOUS
    <3>1. z \in S /\ par[z] \in circle /\ par[z] \in S /\ depth[z] = depth[par[z]] + 1
      BY <1>1, <1>2, <2>1, <2>2, <2>5
    <3>2. depth[z] <= depth[par[z]]
      BY <2>4, <2>5, <3>1
    <3> QED
      BY <1>1, <3>1, <3>2
  <2>7. \A m \in circle : depth[m] = 0 => m = z
    <3> SUFFICES ASSUME NEW m \in circle, depth[m] = 0 PROVE m = z
      OBVIOUS
    <3>1. /\ m \in S /\ z \in S /\ m \in Ancestors(par, S, n) /\ n \in Ancestors(par, S, m)
          /\ z \in Ancestors(par, S, n) /\ n \in Ancestors(par, S, z)
      BY <2>1 DEF circle
    <3>2. z \in Ancestors(par, S, m) /\ m \in Ancestors(par, S, z)
      BY <3>1, AncestorsOfAncestors
    <3> QED
      BY <1>2, <2>6, <3>1, <3>2
  <2>8. {m \in circle : depth[m] = 0} = {z}
    BY <2>6, <2>7
  <2>9. Cardinality({m \in circle : depth[m] = 0}) = 1
    BY <2>8, FS_Singleton
  <2> QED
    BY <2>9 DEF circle
<1>4. \A n \in S : par[n] = NoPid => depth[n] = 0
  BY <1>2
<1>5. \A n \in S : par[n] # NoPid /\ n \notin Ancestors(par, S, n) => depth[n] = depth[par[n]] + 1
  BY <1>2
<1>6. \A n \in S : depth[n] # 0 => depth[n] = depth[par[n]] + 1
  BY <1>2
<1>7. Follow(par, S, depth)
  BY <1>3, <1>4, <1>5, <1>6 DEF Follow
<1> QED
  BY <1>7 DEF depth

\* One step of resolve: w[up] tells the depths after a walk that has seen up.
WalkStep(par, depth, w, up, p) ==
    IF depth[p].known THEN depth
    ELSE IF par[p] = NoPid \/ par[p] \in up THEN [depth EXCEPT ![p] = Known(0)]
    ELSE LET after == w[up \cup {par[p]}][par[p]] IN
         [after EXCEPT ![p] = Known(after[par[p]].value + 1)]
Walks(w, par, depth) ==
    w = [up \in SUBSET DOMAIN par |-> [p \in DOMAIN par |-> WalkStep(par, depth, w, up, p)]]

\* A walk leaves fewer nodes to be seen.
LEMMA FewerLeft ==
  ASSUME NEW S, IsFiniteSet(S), NEW up \in SUBSET S, NEW q \in S, q \notin up
  PROVE  /\ up \cup {q} \in SUBSET S
         /\ Cardinality(S \ up) \in Nat
         /\ Cardinality(S \ (up \cup {q})) \in Nat
         /\ Cardinality(S \ (up \cup {q})) + 1 = Cardinality(S \ up)
<1>1. S \ (up \cup {q}) = (S \ up) \ {q} /\ q \in S \ up
  OBVIOUS
<1>2. IsFiniteSet(S \ up) /\ IsFiniteSet((S \ up) \ {q})
  BY FS_Subset
<1>3. Cardinality((S \ up) \ {q}) = Cardinality(S \ up) - 1
  BY <1>1, <1>2, FS_RemoveElement
<1>4. Cardinality(S \ up) \in Nat /\ Cardinality((S \ up) \ {q}) \in Nat
  BY <1>2, FS_CardinalityType
<1> QED
  BY <1>1, <1>3, <1>4

LEMMA WalkExists ==
  ASSUME NEW S, NEW par, Hangs(par, S), NEW depth
  PROVE  \E w : Walks(w, par, depth)
<1> DEFINE Step(h, up, p) == WalkStep(par, depth, h, up, p)
           P(n) == \E h : /\ h = [up \in SUBSET S |-> h[up]]
                          /\ \A up \in SUBSET S : Cardinality(S \ up) < n =>
                                h[up] = [p \in S |-> Step(h, up, p)]
<1>0. /\ IsFiniteSet(S) /\ DOMAIN par = S /\ \A p \in S : par[p] # NoPid => par[p] \in S
      /\ \A up \in SUBSET S : Cardinality(S \ up) \in Nat
  BY FS_Subset, FS_CardinalityType DEF Hangs
<1>1. P(0)
  <2> DEFINE h == [up \in SUBSET S |-> {}]
  <2>1. h = [up \in SUBSET S |-> h[up]]
    OBVIOUS
  <2>2. \A up \in SUBSET S : ~(Cardinality(S \ up) < 0)
    BY <1>0
  <2> HIDE DEF h, Step
  <2> QED
    BY <2>1, <2>2
<1>2. ASSUME NEW n \in Nat, P(n)
      PROVE  P(n + 1)
  <2>1. PICK h : /\ h = [up \in SUBSET S |-> h[up]]
                 /\ \A up \in SUBSET S : Cardinality(S \ up) < n =>
                       h[up] = [p \in S |-> Step(h, up, p)]
    BY <1>2
  <2> HIDE DEF Step
  <2> DEFINE k == [up \in SUBSET S |-> IF Cardinality(S \ up) < n THEN h[up]
                                       ELSE [p \in S |-> Step(h, up, p)]]
  <2>2. \A up \in SUBSET S : k[up] = [p \in S |-> Step(h, up, p)]
    BY <2>1
  <2>3. \A up \in SUBSET S : Cardinality(S \ up) < n => k[up] = h[up]
    OBVIOUS
  <2>4. k = [up \in SUBSET S |-> k[up]]
    OBVIOUS
  <2> HIDE DEF k
  <2>5. ASSUME NEW up \in SUBSET S, Cardinality(S \ up) < n + 1, NEW p \in S
        PROVE  Step(h, up, p) = Step(k, up, p)
    <3>1. CASE par[p] = NoPid \/ par[p] \in up
      BY <3>1 DEF Step, WalkStep
    <3>2. CASE par[p] # NoPid /\ par[p] \notin up
      <4>1. up \cup {par[p]} \in SUBSET S /\ Cardinality(S \ (up \cup {par[p]})) < n
        BY <1>0, <2>5, <3>2, FewerLeft
      <4>2. k[up \cup {par[p]}] = h[up \cup {par[p]}]
        BY <2>3, <4>1
      <4> QED
        BY <4>2 DEF Step, WalkStep
    <3> QED
      BY <3>1, <3>2
  <2>6. \A up \in SUBSET S : Cardinality(S \ up) < n + 1 => k[up] = [p \in S |-> Step(k, up, p)]
    BY <2>2, <2>5
  <2> QED
    BY <2>4, <2>6
<1>3. P(Cardinality(S) + 1)
  <2> HIDE DEF P
  <2> DEFINE T == {n \in Nat : P(n)}
  <2>1. 0 \in T /\ \A n \in Nat : n \in T => n + 1 \in T
    BY <1>1, <1>2
  <2>2. \A n \in Nat : n \in T
    BY <2>1, Induction
  <2> QED
    BY <1>0, <2>2, FS_CardinalityType
<1>4. PICK h : /\ h = [up \in SUBSET S |-> h[up]]
               /\ \A up \in SUBSET S : Cardinality(S \ up) < Cardinality(S) + 1 =>
                     h[up] = [p \in S |-> Step(h, up, p)]
  BY <1>3
<1>5. \A up \in SUBSET S : Cardinality(S \ up) < Cardinality(S) + 1
  <2> SUFFICES ASSUME NEW up \in SUBSET S PROVE Cardinality(S \ up) < Cardinality(S) + 1
    OBVIOUS
  <2>1. Cardinality(S \ up) <= Cardinality(S)
    BY <1>0, FS_Subset
  <2>2. Cardinality(S) \in Nat /\ Cardinality(S \ up) \in Nat
    BY <1>0, FS_CardinalityType
  <2> QED
    BY <2>1, <2>2
<1> HIDE DEF Step
<1>6. h = [up \in SUBSET S |-> [p \in S |-> Step(h, up, p)]]
  BY <1>4, <1>5
<1> QED
  BY <1>0, <1>6 DEF Step, Walks

Put(depth, p, d) == [depth EXCEPT ![p] = Known(d)]

\* What resolve finds above p: its parent q, the depths A after asking for q, and
\* the depth v that follows.
Asked(par, depth, up, p, q, A, v) ==
    q = par[p] /\ A = Resolve(par, depth, q, up \cup {q}) /\ v = A[q].value + 1

\* Asking for a pid goes as resolve says.
LEMMA ResolveStep ==
  ASSUME NEW S, NEW par, Hangs(par, S), NEW depth, NEW up \in SUBSET S, NEW p \in S,
         NEW q, NEW A, NEW v, Asked(par, depth, up, p, q, A, v)
  PROVE  /\ depth[p].known => Resolve(par, depth, p, up) = depth
         /\ ~depth[p].known /\ (q = NoPid \/ q \in up) =>
               Resolve(par, depth, p, up) = Put(depth, p, 0)
         /\ ~depth[p].known /\ q # NoPid /\ q \notin up =>
               Resolve(par, depth, p, up) = Put(A, p, v)
<1> DEFINE it == CHOOSE w : Walks(w, par, depth)
<1>1. Walks(it, par, depth)
  BY WalkExists
<1>2. \A r, seen : Resolve(par, depth, r, seen) = it[seen][r]
  BY DEF Resolve, Walks, WalkStep
<1> HIDE DEF it
<1>3. DOMAIN par = S
  BY DEF Hangs
<1>4. it[up][p] = WalkStep(par, depth, it, up, p)
  BY <1>1, <1>3 DEF Walks
<1> QED
  BY <1>2, <1>4 DEF WalkStep, Put, Asked

\* What a walk that has seen up and is at p finds out: depths R instead of D.
Discovered(par, S, D, R, p, up) ==
    /\ R \in Depths(S) /\ R[p].known
    /\ \A n \in S : D[n].known => R[n] = D[n]
    /\ \A n \in S : R[n].known /\ ~D[n].known =>
          /\ n = p \/ n \notin up
          /\ R[n].value = 0 /\ par[n] # NoPid =>
                n \in Ancestors(par, S, n) /\ (par[n] \in up \/ R[par[n]].known)
          /\ R[n].value # 0 =>
                par[n] # NoPid /\ R[par[n]].known /\ R[n].value = R[par[n]].value + 1
    /\ \A n, m \in S : /\ R[n].known /\ ~D[n].known /\ R[m].known /\ ~D[m].known
                       /\ R[n].value = 0 /\ R[m].value = 0
                       => n = m

\* What was seen leads to where the walk is.
OnTheWay(par, S, p, up) == p \in up /\ \A u \in up : u = p \/ p \in Ancestors(par, S, u)

LEMMA KnownPut ==
  ASSUME NEW S, NEW D \in Depths(S), NEW p \in S, NEW d \in Nat
  PROVE  /\ Put(D, p, d) \in Depths(S) /\ Put(D, p, d)[p].known /\ Put(D, p, d)[p].value = d
         /\ \A n \in S : n # p => Put(D, p, d)[n] = D[n]
<1>1. /\ Put(D, p, d) \in Depths(S) /\ Put(D, p, d)[p] = Known(d)
      /\ \A n \in S : n # p => Put(D, p, d)[n] = D[n]
  BY DEF Depths, Put
<1>2. Known(d).known /\ Known(d).value = d
  BY DEF Known
<1> QED
  BY Zenon, <1>1, <1>2

LEMMA WalkFinds ==
  ASSUME NEW S, NEW par, Hangs(par, S), NEW D \in Depths(S)
  PROVE  \A up \in SUBSET S, p \in S : OnTheWay(par, S, p, up) => Discovered(par, S, D, Resolve(par, D, p, up), p, up)
<1> DEFINE Claim(n) == \A up \in SUBSET S : Cardinality(S \ up) < n =>
              \A p \in S : OnTheWay(par, S, p, up) => Discovered(par, S, D, Resolve(par, D, p, up), p, up)
<1>0. /\ IsFiniteSet(S) /\ \A p \in S : par[p] # NoPid => par[p] \in S
      /\ \A up \in SUBSET S : Cardinality(S \ up) \in Nat
  BY FS_Subset, FS_CardinalityType DEF Hangs
<1>1. Claim(0)
  BY <1>0
<1>2. ASSUME NEW n \in Nat, Claim(n)
      PROVE  Claim(n + 1)
  <2> SUFFICES ASSUME NEW up \in SUBSET S, Cardinality(S \ up) < n + 1,
                      NEW p \in S, OnTheWay(par, S, p, up)
               PROVE  Discovered(par, S, D, Resolve(par, D, p, up), p, up)
    OBVIOUS
  <2>a. PICK q : q = par[p]
    OBVIOUS
  <2>b. PICK A : A = Resolve(par, D, q, up \cup {q})
    OBVIOUS
  <2>c. PICK v : v = A[q].value + 1
    OBVIOUS
  <2>d. PICK R : R = Resolve(par, D, p, up)
    OBVIOUS
  <2>e. /\ D[p].known => R = D
        /\ ~D[p].known /\ (q = NoPid \/ q \in up) => R = Put(D, p, 0)
        /\ ~D[p].known /\ q # NoPid /\ q \notin up => R = Put(A, p, v)
    <3>1. Asked(par, D, up, p, q, A, v)
      BY <2>a, <2>b, <2>c DEF Asked
    <3> QED
      BY <2>d, <3>1, ResolveStep
  <2>1. CASE D[p].known
    <3>1. R = D
      BY <2>1, <2>e
    <3>2. Discovered(par, S, D, D, p, up)
      BY <2>1 DEF Discovered
    <3> QED
      BY <2>d, <3>1, <3>2
  <2>2. CASE ~D[p].known /\ (par[p] = NoPid \/ par[p] \in up)
    <3>1. R = Put(D, p, 0)
      BY <2>2, <2>a, <2>e
    <3>2. /\ R \in Depths(S) /\ R[p].known /\ R[p].value = 0
          /\ \A k \in S : k # p => R[k] = D[k]
      BY <3>1, KnownPut
    <3>3. par[p] # NoPid => p \in Ancestors(par, S, p)
      <4> SUFFICES ASSUME par[p] # NoPid PROVE p \in Ancestors(par, S, p)
        OBVIOUS
      <4>1. par[p] \in S /\ par[p] \in Ancestors(par, S, p)
            /\ (par[p] = p \/ p \in Ancestors(par, S, par[p]))
        BY <1>0, <2>2, AncestorsAbove DEF OnTheWay
      <4> QED
        BY <4>1, AncestorsOfAncestors
    <3>4. \A k \in S : D[k].known => R[k] = D[k]
      BY <2>2, <3>2
    <3>5. Discovered(par, S, D, R, p, up)
      BY <2>2, <3>2, <3>3, <3>4, <2>a DEF Discovered
    <3> QED
      BY <2>d, <3>5
  <2>3. CASE ~D[p].known /\ par[p] # NoPid /\ par[p] \notin up
    <3>1. q \in S /\ q # p /\ q \notin up /\ p \in up
      BY <1>0, <2>3, <2>a DEF OnTheWay
    <3>2. up \cup {q} \in SUBSET S /\ Cardinality(S \ (up \cup {q})) < n
      BY <1>0, <1>2, <3>1, FewerLeft
    <3>3. OnTheWay(par, S, q, up \cup {q})
      <4>1. q \in Ancestors(par, S, p)
        BY <2>3, <2>a, AncestorsAbove
      <4>2. \A u \in up : q \in Ancestors(par, S, u)
        BY <4>1, AncestorsOfAncestors DEF OnTheWay
      <4> QED
        BY <4>2 DEF OnTheWay
    <3>4. Discovered(par, S, D, A, q, up \cup {q})
      BY <1>2, <2>b, <3>1, <3>2, <3>3
    <3>5. R = Put(A, p, v)
      BY <2>3, <2>a, <2>e
    <3>6. /\ A \in Depths(S) /\ A[q].known
          /\ \A k \in S : D[k].known => A[k] = D[k]
          /\ \A k \in S : A[k].known /\ ~D[k].known =>
                /\ k = q \/ k \notin up
                /\ A[k].value = 0 /\ par[k] # NoPid =>
                      k \in Ancestors(par, S, k) /\ (par[k] \in up \/ par[k] = q \/ A[par[k]].known)
                /\ A[k].value # 0 =>
                      par[k] # NoPid /\ A[par[k]].known /\ A[k].value = A[par[k]].value + 1
          /\ \A k, m \in S : /\ A[k].known /\ ~D[k].known /\ A[m].known /\ ~D[m].known
                             /\ A[k].value = 0 /\ A[m].value = 0
                             => k = m
      BY <3>4 DEF Discovered
    <3>7. v \in Nat /\ v # 0 /\ v = A[q].value + 1
      BY <2>c, <3>1, <3>6, DepthValues
    <3>8. /\ R \in Depths(S) /\ R[p].known /\ R[p].value = v
          /\ \A k \in S : k # p => R[k] = A[k]
            <4>0. v \in Nat
        BY <3>7
      <4>1. A \in Depths(S)
        BY <3>6
      <4>2. /\ Put(A, p, v) \in Depths(S) /\ Put(A, p, v)[p].known /\ Put(A, p, v)[p].value = v
            /\ \A k \in S : k # p => Put(A, p, v)[k] = A[k]
        BY <4>0, <4>1, KnownPut
      <4> QED
        BY Zenon, <3>5, <4>2
    <3>9. ~A[p].known
      BY <2>3, <3>1, <3>6
    <3>10. ASSUME NEW k \in S, R[k].known, ~D[k].known
           PROVE  /\ k = p \/ k \notin up
                  /\ R[k].value = 0 /\ par[k] # NoPid =>
                        k \in Ancestors(par, S, k) /\ (par[k] \in up \/ R[par[k]].known)
                  /\ R[k].value # 0 =>
                        par[k] # NoPid /\ R[par[k]].known /\ R[k].value = R[par[k]].value + 1
      <4>1. CASE k = p
        BY <2>3, <3>1, <3>6, <3>7, <3>8, <4>1, <2>a
      <4>2. CASE k # p
        <5>1. R[k] = A[k] /\ A[k].known
          BY <3>8, <3>10, <4>2
        <5>2. k = p \/ k \notin up
          BY <3>1, <3>6, <3>10, <5>1
        <5>3. ASSUME A[k].value = 0, par[k] # NoPid
              PROVE  k \in Ancestors(par, S, k) /\ (par[k] \in up \/ R[par[k]].known)
          <6>1. k \in Ancestors(par, S, k) /\ (par[k] \in up \/ par[k] = q \/ A[par[k]].known)
            BY <3>6, <3>10, <5>1, <5>3
          <6>2. par[k] \in S
            BY <1>0, <5>3
          <6>3. par[k] \in up \/ (par[k] # p /\ A[par[k]].known)
            BY <3>1, <3>6, <3>9, <6>1
          <6> QED
            BY <3>8, <6>1, <6>2, <6>3
        <5>4. ASSUME A[k].value # 0
              PROVE  par[k] # NoPid /\ R[par[k]].known /\ A[k].value = R[par[k]].value + 1
          <6>1. par[k] # NoPid /\ A[par[k]].known /\ A[k].value = A[par[k]].value + 1
            BY <3>6, <3>10, <5>1, <5>4
          <6>2. par[k] \in S /\ par[k] # p
            BY <1>0, <3>9, <6>1
          <6> QED
            BY <3>8, <6>1, <6>2
        <5> QED
          BY <5>1, <5>2, <5>3, <5>4
      <4> QED
        BY <4>1, <4>2
    <3>11. ASSUME NEW k \in S, NEW m \in S, R[k].known, ~D[k].known, R[m].known, ~D[m].known,
                  R[k].value = 0, R[m].value = 0
           PROVE  k = m
      <4>1. k # p /\ m # p
        BY <3>7, <3>8, <3>11
      <4>2. R[k] = A[k] /\ R[m] = A[m]
        BY <3>8, <4>1
      <4> QED
        BY <3>6, <3>11, <4>2
    <3>12. \A k \in S : D[k].known => R[k] = D[k]
      BY <2>3, <3>6, <3>8
    <3>13. \A k \in S : R[k].known /\ ~D[k].known =>
             /\ k = p \/ k \notin up
             /\ R[k].value = 0 /\ par[k] # NoPid =>
                   k \in Ancestors(par, S, k) /\ (par[k] \in up \/ R[par[k]].known)
             /\ R[k].value # 0 =>
                   par[k] # NoPid /\ R[par[k]].known /\ R[k].value = R[par[k]].value + 1
      BY Zenon, <3>10
    <3>14. \A k, m \in S : /\ R[k].known /\ ~D[k].known /\ R[m].known /\ ~D[m].known
                           /\ R[k].value = 0 /\ R[m].value = 0
                           => k = m
      BY Zenon, <3>11
    <3>15. R \in Depths(S) /\ R[p].known
      BY Zenon, <3>8
    <3>16. Discovered(par, S, D, R, p, up)
      BY Zenon, <3>12, <3>13, <3>14, <3>15 DEF Discovered
    <3> QED
      BY <2>d, <3>16
  <2> QED
    BY <2>1, <2>2, <2>3
<1>3. \A n \in Nat : Claim(n)
  <2> HIDE DEF Claim
  <2> DEFINE T == {n \in Nat : Claim(n)}
  <2>1. 0 \in T /\ \A n \in Nat : n \in T => n + 1 \in T
    BY <1>1, <1>2
  <2>2. \A n \in Nat : n \in T
    BY <2>1, Induction
  <2> QED
    BY <2>2
<1> SUFFICES ASSUME NEW up \in SUBSET S
             PROVE  \A p \in S : OnTheWay(par, S, p, up) => Discovered(par, S, D, Resolve(par, D, p, up), p, up)
  OBVIOUS
<1>4. PICK c \in Nat : c = Cardinality(S \ up)
  BY <1>0
<1>5. Claim(c + 1) /\ Cardinality(S \ up) < c + 1
  <2>1. c + 1 \in Nat /\ c < c + 1
    BY <1>4
  <2> HIDE DEF Claim
  <2> QED
    BY <1>3, <1>4, <2>1
<1> QED
  BY <1>5

\* One pid asked for: what is known follows the parents still.
LEMMA ResolveFollows ==
  ASSUME NEW S, NEW par, Hangs(par, S), NEW D, Followed(par, S, D), NEW p \in S
  PROVE  LET R == Resolve(par, D, p, {p})
         IN  /\ Followed(par, S, R) /\ R[p].known
             /\ \A n \in S : D[n].known => R[n].known
<1> DEFINE R == Resolve(par, D, p, {p})
<1>1. Discovered(par, S, D, R, p, {p})
  <2>1. OnTheWay(par, S, p, {p}) /\ {p} \in SUBSET S /\ D \in Depths(S)
    BY DEF OnTheWay, Followed
  <2> QED
    BY <2>1, WalkFinds
<1> HIDE DEF R
<1>0. \A n \in S : par[n] # NoPid => par[n] \in S
  BY DEF Hangs
<1>2. /\ R \in Depths(S) /\ R[p].known
      /\ \A n \in S : D[n].known => R[n] = D[n] /\ R[n].known
      /\ \A n \in S : R[n].known /\ ~D[n].known =>
            /\ R[n].value = 0 /\ par[n] # NoPid =>
                  n \in Ancestors(par, S, n) /\ (par[n] = p \/ R[par[n]].known)
            /\ R[n].value # 0 =>
                  par[n] # NoPid /\ R[par[n]].known /\ R[n].value = R[par[n]].value + 1
      /\ \A n, m \in S : /\ R[n].known /\ ~D[n].known /\ R[m].known /\ ~D[m].known
                         /\ R[n].value = 0 /\ R[m].value = 0
                         => n = m
  BY <1>1 DEF Discovered
<1>3. /\ \A n \in S : D[n].known /\ par[n] # NoPid => D[par[n]].known
      /\ \A n \in S : D[n].known /\ D[n].value # 0 =>
            par[n] # NoPid /\ D[n].value = D[par[n]].value + 1
      /\ \A n \in S : D[n].known /\ D[n].value = 0 /\ par[n] # NoPid => n \in Ancestors(par, S, n)
      /\ \A n, m \in S : /\ D[n].known /\ D[n].value = 0 /\ D[m].known /\ D[m].value = 0
                         /\ n \in Ancestors(par, S, m) /\ m \in Ancestors(par, S, n)
                         => n = m
  BY DEF Followed
<1>4. ASSUME NEW n \in S, D[n].known, NEW m \in Ancestors(par, S, n)
      PROVE  D[m].known
  <2> DEFINE T == {k \in S : D[k].known}
  <2>1. Closed(par, S, T) /\ (par[n] # NoPid => par[n] \in T)
    BY <1>0, <1>3, <1>4 DEF Closed
  <2>2. Ancestors(par, S, n) \subseteq T
    BY <2>1, AncestorsAbove
  <2> QED
    BY <2>2
<1>5. ASSUME NEW n \in S, R[n].known, par[n] # NoPid
      PROVE  R[par[n]].known
  BY <1>0, <1>2, <1>3, <1>5
<1>6. ASSUME NEW n \in S, R[n].known, R[n].value # 0
      PROVE  par[n] # NoPid /\ R[n].value = R[par[n]].value + 1
  <2>1. CASE D[n].known
    <3>1. R[n] = D[n] /\ par[n] # NoPid /\ D[n].value = D[par[n]].value + 1
      BY <1>2, <1>3, <1>6, <2>1
    <3>2. par[n] \in S /\ D[par[n]].known
      BY <1>0, <1>3, <2>1, <3>1
    <3> QED
      BY <1>2, <3>1, <3>2
  <2>2. CASE ~D[n].known
    BY <1>2, <1>6, <2>2
  <2> QED
    BY <2>1, <2>2
<1>7. ASSUME NEW n \in S, R[n].known, R[n].value = 0, par[n] # NoPid
      PROVE  n \in Ancestors(par, S, n)
  BY <1>2, <1>3, <1>7
<1>8. ASSUME NEW n \in S, NEW m \in S, R[n].known, R[n].value = 0, R[m].known, R[m].value = 0,
             n \in Ancestors(par, S, m), m \in Ancestors(par, S, n)
      PROVE  n = m
  <2>1. CASE D[n].known
    <3>1. D[m].known
      BY <1>4, <1>8, <2>1
    <3>2. R[n] = D[n] /\ R[m] = D[m]
      BY <1>2, <2>1, <3>1
    <3> QED
      BY <1>3, <1>8, <2>1, <3>1, <3>2
  <2>2. CASE ~D[n].known
    <3>1. ~D[m].known
      BY <1>4, <1>8, <2>2
    <3> QED
      BY <1>2, <1>8, <2>2, <3>1
  <2> QED
    BY <2>1, <2>2
<1>9. Followed(par, S, R)
  BY <1>2, <1>5, <1>6, <1>7, <1>8 DEF Followed
<1> QED
  BY <1>2, <1>9 DEF R

\* A function of the numbers up to one, each value made from the one before.
Iterates(h, N, x, F) == h[0] = x /\ \A k \in 1..N : h[k] = F[k][h[k - 1]]

LEMMA Iterated ==
  ASSUME NEW N \in Nat, NEW X, NEW x \in X, NEW F \in [1..N -> [X -> X]]
  PROVE  \E h \in [0..N -> X] : Iterates(h, N, x, F)
<1> DEFINE P(n) == \E h \in [0..n -> X] : h[0] = x /\ \A k \in 1..n : h[k] = F[k][h[k - 1]]
           T == {n \in Nat : n <= N => P(n)}
<1>1. P(0)
  <2> DEFINE h == [k \in 0..0 |-> x]
  <2>1. h \in [0..0 -> X] /\ h[0] = x /\ \A k \in 1..0 : h[k] = F[k][h[k - 1]]
    OBVIOUS
  <2> QED
    BY <2>1
<1>2. ASSUME NEW n \in Nat, n + 1 <= N, P(n)
      PROVE  P(n + 1)
  <2>1. PICK h \in [0..n -> X] : h[0] = x /\ \A k \in 1..n : h[k] = F[k][h[k - 1]]
    BY <1>2
  <2> DEFINE y == F[n + 1][h[n]]
             g == [k \in 0..(n + 1) |-> IF k = n + 1 THEN y ELSE h[k]]
  <2>2. y \in X
    <3>1. n + 1 \in 1..N /\ h[n] \in X
      BY <1>2, <2>1
    <3> QED
      BY <3>1
  <2> HIDE DEF y
  <2>3. \A k \in 0..n : g[k] = h[k] /\ h[k] \in X
    BY <2>1
  <2>4. g[n + 1] = y /\ g[n] = h[n] /\ (n + 1) - 1 = n
    BY <2>3
  <2>5. g \in [0..(n + 1) -> X]
    BY <2>2, <2>3
  <2> HIDE DEF g
  <2>6. g[0] = x
    BY <2>1, <2>3
  <2>7. ASSUME NEW k \in 1..(n + 1)
        PROVE  g[k] = F[k][g[k - 1]]
    <3>1. CASE k = n + 1
      BY <2>4, <3>1 DEF y
    <3>2. CASE k # n + 1
      <4>1. k \in 1..n /\ k \in 0..n /\ k - 1 \in 0..n
        BY <3>2
      <4> QED
        BY <2>1, <2>3, <4>1
    <3> QED
      BY <3>1, <3>2
  <2> QED
    BY <2>5, <2>6, <2>7
<1>3. 0 \in T /\ \A n \in Nat : n \in T => n + 1 \in T
  <2> HIDE DEF P
  <2> QED
    BY <1>1, <1>2
<1>4. N \in T
  <2> HIDE DEF T
  <2> QED
    BY <1>3, Induction
<1> QED
  BY <1>4 DEF Iterates

\* The nodes of the tree are pids.
LEMMA NodesArePids ==
  ASSUME NEW events, Len(events) \in Nat,
         \A k \in 1..Len(events) : events[k].pid \in Pids \cup {NoPid}
  PROVE  Nodes(events) \in Seq(Pids \ {NoPid})
<1> DEFINE n == Len(events)
           X == Seq(Pids \ {NoPid})
           Met(k, nodes) ==
              LET e == events[k] IN
              IF e.type = "exec" /\ e.pid # NoPid /\ e.pid \notin ToSet(nodes)
              THEN Append(nodes, e.pid) ELSE nodes
           Next(h, k) == IF k = 0 THEN <<>> ELSE Met(k, h[k - 1])
           Seen(h) == h = [k \in 0..n |-> Next(h, k)]
           it == CHOOSE h : Seen(h)
<1>1. \A k \in 1..n : \A nodes \in X : Met(k, nodes) \in X
  <2> SUFFICES ASSUME NEW k \in 1..n, NEW nodes \in X
               PROVE  Met(k, nodes) \in X
    OBVIOUS
  <2>1. events[k].pid # NoPid => Append(nodes, events[k].pid) \in X
    BY AppendProperties
  <2> QED
    BY <2>1
<1>2. Nodes(events) = it[n]
  BY DEF Nodes
<1> HIDE DEF Met
<1>3. <<>> \in X
  BY EmptySeq
<1> HIDE DEF X
<1>4. \E h : Seen(h)
  <2> DEFINE F == [k \in 1..n |-> [nodes \in X |-> Met(k, nodes)]]
  <2>1. F \in [1..n -> [X -> X]] /\ n \in Nat
    BY <1>1
  <2>2. PICK h \in [0..n -> X] : Iterates(h, n, <<>>, F)
    <3> HIDE DEF F, n
    <3> QED
      BY <1>3, <2>1, Iterated
  <2>3. ASSUME NEW k \in 1..n
        PROVE  h[k] = Met(k, h[k - 1])
    <3>1. k - 1 \in 0..n
      OBVIOUS
    <3>2. h[k - 1] \in X
      BY <3>1
    <3> QED
      BY <2>2, <3>2 DEF Iterates
  <2>4. \A k \in 0..n : h[k] = Next(h, k)
    <3>1. \A k \in 0..n : k = 0 \/ k \in 1..n
      OBVIOUS
    <3>2. \A k \in 1..n : k # 0
      OBVIOUS
    <3> QED
      BY <2>2, <2>3, <3>1, <3>2 DEF Iterates
  <2>5. h = [k \in 0..n |-> h[k]]
    OBVIOUS
  <2> HIDE DEF Next
  <2> QED
    BY <2>4, <2>5
<1>5. Seen(it)
  <2> HIDE DEF Seen
  <2> QED
    BY <1>4
<1> HIDE DEF it
<1>6. it[0] = <<>> /\ \A k \in 1..n : it[k] = Met(k, it[k - 1])
  <2>1. 0 \in 0..n /\ \A k \in 1..n : k # 0 /\ k \in 0..n
    OBVIOUS
  <2>2. \A k \in 0..n : it[k] = Next(it, k)
    <3> HIDE DEF Next
    <3> QED
      BY <1>5
  <2> HIDE DEF Seen
  <2> QED
    BY <2>1, <2>2
<1> HIDE DEF Seen
<1> DEFINE T == {k \in Nat : k <= n => it[k] \in X}
<1>7. 0 \in T
  BY <1>3, <1>6
<1>8. ASSUME NEW k \in Nat, k \in T
      PROVE  k + 1 \in T
  <2> SUFFICES ASSUME k + 1 <= n PROVE it[k + 1] \in X
    OBVIOUS
  <2>1. k + 1 \in 1..n /\ (k + 1) - 1 = k /\ k <= n
    OBVIOUS
  <2>2. it[k] \in X
    BY <1>8, <2>1
  <2> QED
    BY <1>1, <1>6, <2>1, <2>2
<1>9. n \in T
  <2> HIDE DEF T
  <2> QED
    BY <1>7, <1>8, Induction
<1> QED
  BY <1>2, <1>9 DEF X

\* The parents of the nodes, and what TreeDepths makes of them.
LEMMA TreeHangs ==
  ASSUME NEW events, Nodes(events) \in Seq(Pids \ {NoPid})
  PROVE  /\ DOMAIN Parents(events) = ToSet(Nodes(events))
         /\ ToSet(Nodes(events)) \subseteq Pids
         /\ Hangs(Parents(events), ToSet(Nodes(events)))
<1> DEFINE S == ToSet(Nodes(events))
<1>1. S \subseteq Pids \ {NoPid}
  <2> DEFINE order == Nodes(events)
  <2> HIDE DEF order
  <2>1. order \in Seq(Pids \ {NoPid}) => ToSet(order) \subseteq Pids \ {NoPid}
    BY DEF ToSet
  <2> QED
    BY <2>1 DEF order
<1>2. IsFiniteSet(S)
  BY <1>1, PidsAssumption, FS_Subset
<1>3. Parents(events) \in [S -> S \cup {NoPid}]
  <2> HIDE DEF S
  <2>1. \E last : Parents(events) = [n \in S |-> IF last[n] \in S THEN last[n] ELSE NoPid]
    BY DEF Parents, S
  <2> QED
    BY <2>1
<1> HIDE DEF S
<1>4. DOMAIN Parents(events) = S
  BY <1>3
<1>5. NoPid \notin S
  BY <1>1
<1> QED
  BY <1>1, <1>2, <1>3, <1>4, <1>5 DEF S, Hangs

LEMMA TreeFollows ==
  ASSUME NEW events, Nodes(events) \in Seq(Pids \ {NoPid})
  PROVE  Follow(Parents(events), ToSet(Nodes(events)), TreeDepths(events))
<1> DEFINE S == ToSet(Nodes(events))
           par == Parents(events)
           order == Nodes(events)
           n == Len(order)
           X == {D \in Depths(S) : Followed(par, S, D)}
           none == [p \in S |-> Unknown]
           Asking(k, D) == Resolve(par, D, order[k], {order[k]})
           Next(h, k) == IF k = 0 THEN [p \in DOMAIN par |-> Unknown] ELSE Asking(k, h[k - 1])
           All(h) == h = [k \in 0..n |-> Next(h, k)]
           it == CHOOSE h : All(h)
<1>1. TreeDepths(events) = [p \in DOMAIN par |-> it[n][p].value]
  BY DEF TreeDepths
<1>2. Hangs(par, S) /\ DOMAIN par = S
  BY TreeHangs
<1>3. n \in Nat /\ (\A k \in 1..n : order[k] \in S) /\ (\A p \in S : \E k \in 1..n : order[k] = p)
  BY LenProperties DEF ToSet
<1> HIDE DEF S, par, order
<1>4. none \in X
  <2>1. Unknown.known = FALSE
    BY DEF Unknown
  <2>2. none \in Depths(S) /\ \A p \in S : none[p] = Unknown
    BY DEF Depths
  <2> HIDE DEF none
  <2> QED
    BY <2>1, <2>2 DEF Followed
<1>5. ASSUME NEW k \in 1..n, NEW D \in X
      PROVE  /\ Asking(k, D) \in X /\ Asking(k, D)[order[k]].known
             /\ \A p \in S : D[p].known => Asking(k, D)[p].known
  <2>1. order[k] \in S /\ Followed(par, S, D)
    BY <1>3
  <2>2. PICK q \in S : q = order[k]
    BY <2>1
  <2>3. PICK R : R = Resolve(par, D, q, {q})
    OBVIOUS
  <2>4. Followed(par, S, R) /\ R[q].known /\ \A p \in S : D[p].known => R[p].known
    BY Zenon, <1>2, <2>1, <2>3, ResolveFollows
  <2>5. R \in Depths(S)
    BY <2>4 DEF Followed
  <2>6. Asking(k, D) = R
    BY <2>2, <2>3
  <2> HIDE DEF Asking
  <2> QED
    BY Zenon, <2>2, <2>4, <2>5, <2>6
<1> HIDE DEF X, Asking, n
<1>6. \E h : All(h)
  <2> DEFINE F == [k \in 1..n |-> [D \in X |-> Asking(k, D)]]
  <2>1. F \in [1..n -> [X -> X]]
    BY <1>5
  <2>2. PICK h \in [0..n -> X] : Iterates(h, n, none, F)
    <3> HIDE DEF F, none
    <3> QED
      BY <1>3, <1>4, <2>1, Iterated
  <2>3. ASSUME NEW k \in 1..n
        PROVE  h[k] = Asking(k, h[k - 1])
    <3>1. k - 1 \in 0..n
      BY <1>3
    <3>2. h[k - 1] \in X
      BY <3>1
    <3> QED
      BY <2>2, <3>2 DEF Iterates
  <2>4. \A k \in 0..n : h[k] = Next(h, k)
    <3>1. \A k \in 0..n : k = 0 \/ k \in 1..n
      BY <1>3
    <3>2. \A k \in 1..n : k # 0
      BY <1>3
    <3> QED
      BY <1>2, <2>2, <2>3, <3>1, <3>2 DEF Iterates
  <2>5. h = [k \in 0..n |-> h[k]]
    OBVIOUS
  <2> HIDE DEF Next
  <2> QED
    BY <2>4, <2>5
<1>7. All(it)
  <2> HIDE DEF All
  <2> QED
    BY <1>6
<1> HIDE DEF it
<1>8. it[0] = none /\ \A k \in 1..n : it[k] = Asking(k, it[k - 1])
  <2>1. 0 \in 0..n /\ \A k \in 1..n : k # 0 /\ k \in 0..n
    BY <1>3
  <2>2. \A k \in 0..n : it[k] = Next(it, k)
    <3> HIDE DEF Next
    <3> QED
      BY <1>7
  <2> HIDE DEF All
  <2> QED
    BY <1>2, <2>1, <2>2
<1> HIDE DEF All, Next
<1> DEFINE Done(k) == it[k] \in X /\ \A i \in 1..k : it[k][order[i]].known
           T == {k \in Nat : k <= n => Done(k)}
<1>9. 0 \in T
  BY <1>4, <1>8
<1>10. ASSUME NEW k \in Nat, k \in T, k + 1 <= n
       PROVE  Done(k + 1)
  <2>1. k + 1 \in 1..n /\ (k + 1) - 1 = k /\ k <= n
    BY <1>3, <1>10
  <2>2. Done(k)
    BY <1>10, <2>1
  <2>3. PICK D : D = it[k]
    OBVIOUS
  <2>4. PICK R : R = it[k + 1]
    OBVIOUS
  <2>5. R = Asking(k + 1, D)
    BY <1>8, <2>1, <2>3, <2>4
  <2>6. /\ R \in X /\ R[order[k + 1]].known
        /\ \A p \in S : D[p].known => R[p].known
    BY <1>5, <2>1, <2>2, <2>3, <2>5
  <2>7. ASSUME NEW i \in 1..(k + 1)
        PROVE  R[order[i]].known
    <3>1. CASE i = k + 1
      BY <2>6, <3>1
    <3>2. CASE i # k + 1
      <4>1. i \in 1..k /\ i \in 1..n
        BY <1>3, <2>1, <3>2
      <4>2. D[order[i]].known /\ order[i] \in S
        BY <1>3, <2>2, <2>3, <4>1
      <4> QED
        BY <2>6, <4>2
    <3> QED
      BY <3>1, <3>2
  <2> QED
    BY <2>4, <2>6, <2>7
<1>11. Done(n)
  <2> HIDE DEF Done
  <2>1. \A k \in Nat : k \in T => k + 1 \in T
    BY <1>10
  <2>2. n \in T
    <3> HIDE DEF T
    <3> QED
      BY <1>3, <1>9, <2>1, Induction
  <2> QED
    BY <1>3, <2>2
<1>12. PICK D : D = it[n]
  OBVIOUS
<1>13. Followed(par, S, D) /\ \A p \in S : D[p].known
  BY <1>3, <1>11, <1>12 DEF X
<1>14. Follow(par, S, [p \in S |-> D[p].value])
  BY <1>2, <1>13, CirclesHaveOneZero
<1> QED
  BY <1>1, <1>2, <1>12, <1>14 DEF par, S

\* Above of DepthsFollowParents: the nodes above one, gone up as often as there
\* are pids.
Climb(par, n) ==
    LET up[k \in 0..Cardinality(Pids)] ==
            IF k = 0 THEN {par[n]} \ {NoPid}
            ELSE up[k - 1] \cup ({par[m] : m \in up[k - 1]} \ {NoPid})
    IN  up[Cardinality(Pids)]

\* Going up as often as there are pids finds the nodes above one.
Climbs(up, par, n, c) ==
    up = [k \in 0..c |-> IF k = 0 THEN {par[n]} \ {NoPid}
                         ELSE up[k - 1] \cup ({par[m] : m \in up[k - 1]} \ {NoPid})]

LEMMA ClimbExists ==
  ASSUME NEW S, NEW par, Hangs(par, S), NEW c \in Nat, NEW n \in S
  PROVE  \E up : Climbs(up, par, n, c)
<1> DEFINE X == SUBSET S
           Higher(U) == U \cup ({par[m] : m \in U} \ {NoPid})
           low == {par[n]} \ {NoPid}
           F == [k \in 1..c |-> [U \in X |-> Higher(U)]]
<1>1. low \in X /\ \A U \in X : Higher(U) \in X
  BY DEF Hangs
<1>2. F \in [1..c -> [X -> X]]
  BY <1>1
<1>3. PICK up \in [0..c -> X] : Iterates(up, c, low, F)
  <2> HIDE DEF F, low, X
  <2> QED
    BY <1>1, <1>2, Iterated
<1> HIDE DEF low, Higher
<1>4. \A k \in 1..c : up[k] = Higher(up[k - 1])
  <2> SUFFICES ASSUME NEW k \in 1..c PROVE up[k] = Higher(up[k - 1])
    OBVIOUS
  <2>1. k - 1 \in 0..c
    OBVIOUS
  <2>2. up[k - 1] \in X
    BY <2>1
  <2> QED
    BY <1>3, <2>2 DEF Iterates
<1>5. \A k \in 0..c : up[k] = IF k = 0 THEN low ELSE Higher(up[k - 1])
  <2>1. \A k \in 0..c : k = 0 \/ k \in 1..c
    OBVIOUS
  <2>2. \A k \in 1..c : k # 0
    OBVIOUS
  <2> QED
    BY <1>3, <1>4, <2>1, <2>2 DEF Iterates
<1>6. up = [k \in 0..c |-> up[k]]
  OBVIOUS
<1>7. up = [k \in 0..c |-> IF k = 0 THEN low ELSE Higher(up[k - 1])]
  BY <1>5, <1>6
<1> QED
  BY <1>7 DEF low, Higher, Climbs

LEMMA ClimbFindsAncestors ==
  ASSUME NEW S, NEW par, Hangs(par, S), S \subseteq Pids, NEW n \in S
  PROVE  Climb(par, n) = Ancestors(par, S, n)
<1> DEFINE c == Cardinality(Pids)
           A == Ancestors(par, S, n)
           Higher(U) == U \cup ({par[m] : m \in U} \ {NoPid})
           it == CHOOSE up : Climbs(up, par, n, c)
<1>1. c \in Nat /\ IsFiniteSet(S) /\ Cardinality(S) <= c
  BY PidsAssumption, FS_CardinalityType, FS_Subset
<1>2. Climb(par, n) = it[c]
  BY DEF Climb, Climbs
<1>3. Climbs(it, par, n, c)
  <2> HIDE DEF c
  <2> QED
    BY <1>1, ClimbExists
<1> HIDE DEF it, c
<1>4. it[0] = {par[n]} \ {NoPid} /\ \A k \in 1..c : it[k] = Higher(it[k - 1])
  <2>1. 0 \in 0..c /\ \A k \in 1..c : k # 0 /\ k \in 0..c
    BY <1>1
  <2> QED
    BY <1>3, <2>1 DEF Climbs
<1>5. /\ A \subseteq S /\ Closed(par, S, A) /\ (par[n] # NoPid => par[n] \in A)
      /\ \A U : Closed(par, S, U) /\ (par[n] # NoPid => par[n] \in U) => A \subseteq U
  BY AncestorsAbove DEF Closed
<1> HIDE DEF A
<1> DEFINE Up(k) == /\ it[k] \subseteq A
                    /\ par[n] # NoPid => par[n] \in it[k]
                    /\ Closed(par, S, it[k]) \/ Cardinality(it[k]) > k
           T == {k \in Nat : k <= c => Up(k)}
<1>6. Up(0)
  <2>1. CASE par[n] = NoPid
    <3>1. it[0] = {}
      BY <1>4, <2>1
    <3> QED
      BY <2>1, <3>1 DEF Closed
  <2>2. CASE par[n] # NoPid
    <3>1. it[0] = {par[n]}
      BY <1>4, <2>2
    <3>2. Cardinality(it[0]) = 1
      BY <3>1, FS_Singleton
    <3> QED
      BY <1>5, <2>2, <3>1, <3>2
  <2> QED
    BY <2>1, <2>2
<1>7. ASSUME NEW k \in Nat, k + 1 <= c, Up(k)
      PROVE  Up(k + 1)
  <2>1. PICK U : U = it[k]
    OBVIOUS
  <2>2. PICK V : V = it[k + 1]
    OBVIOUS
  <2>3. V = Higher(U)
    <3>1. k + 1 \in 1..c /\ (k + 1) - 1 = k
      BY <1>1, <1>7
    <3> HIDE DEF Higher
    <3> QED
      BY <1>4, <2>1, <2>2, <3>1
  <2>4. /\ U \subseteq A /\ (par[n] # NoPid => par[n] \in U)
        /\ Closed(par, S, U) \/ Cardinality(U) > k
    BY <1>7, <2>1
  <2>5. U \subseteq V /\ V \subseteq A
    BY <1>5, <2>3, <2>4 DEF Closed
  <2>6. Closed(par, S, V) \/ Cardinality(V) > k + 1
    <3>1. CASE Closed(par, S, U)
      <4>1. V = U
        BY <2>3, <3>1 DEF Closed
      <4> QED
        BY <3>1, <4>1
    <3>2. CASE ~Closed(par, S, U)
      <4>1. U # V
        BY <1>5, <2>3, <2>4, <3>2 DEF Closed
      <4>2. IsFiniteSet(V) /\ IsFiniteSet(U)
        BY <1>1, <1>5, <2>4, <2>5, FS_Subset
      <4>3. Cardinality(U) <= Cardinality(V) /\ Cardinality(U) # Cardinality(V)
        BY <2>5, <4>1, <4>2, FS_Subset
      <4>4. Cardinality(U) \in Nat /\ Cardinality(V) \in Nat /\ Cardinality(U) > k
        BY <2>4, <3>2, <4>2, FS_CardinalityType
      <4> QED
        BY <4>3, <4>4
    <3> QED
      BY <3>1, <3>2
  <2> QED
    BY <2>2, <2>4, <2>5, <2>6
<1>8. Up(c)
  <2> HIDE DEF Up
  <2>1. 0 \in T /\ \A k \in Nat : k \in T => k + 1 \in T
    <3> SUFFICES ASSUME NEW k \in Nat, k \in T, k + 1 <= c PROVE Up(k + 1)
      BY <1>6
    <3>1. k <= c
      BY <1>1
    <3> QED
      BY <1>7, <3>1
  <2>2. c \in T
    <3> HIDE DEF T
    <3> QED
      BY <1>1, <2>1, Induction
  <2> QED
    BY <1>1, <2>2
<1>9. Closed(par, S, it[c])
  <2>1. Cardinality(it[c]) <= Cardinality(S) /\ Cardinality(it[c]) \in Nat /\ Cardinality(S) \in Nat
    BY <1>1, <1>5, <1>8, FS_Subset, FS_CardinalityType
  <2>2. ~(Cardinality(it[c]) > c)
    BY <1>1, <2>1
  <2> QED
    BY <1>8, <2>2
<1>10. it[c] = A
  BY <1>5, <1>8, <1>9
<1> QED
  BY <1>2, <1>10 DEF A

\* DepthsFollowParents of one call.
LEMMA DepthsOfCall ==
  ASSUME NEW c, Nodes(c.in) \in Seq(Pids \ {NoPid}), c.out = TreeDepths(c.in)
  PROVE  LET parent == Parents(c.in)
             depth == c.out
             Above(n) == LET up[k \in 0..Cardinality(Pids)] ==
                                 IF k = 0 THEN {parent[n]} \ {NoPid}
                                 ELSE up[k - 1] \cup ({parent[m] : m \in up[k - 1]} \ {NoPid})
                         IN  up[Cardinality(Pids)]
             Circle(n) == {m \in Above(n) : n \in Above(m)}
         IN  \A n \in DOMAIN parent :
                 /\ parent[n] = NoPid => depth[n] = 0
                 /\ parent[n] # NoPid /\ n \notin Above(n) => depth[n] = depth[parent[n]] + 1
                 /\ n \in Above(n) =>
                       /\ Cardinality({m \in Circle(n) : depth[m] = 0}) = 1
                       /\ depth[n] # 0 => depth[n] = depth[parent[n]] + 1
<1> DEFINE parent == Parents(c.in)
           depth == c.out
           S == ToSet(Nodes(c.in))
           Above(n) == LET up[k \in 0..Cardinality(Pids)] ==
                               IF k = 0 THEN {parent[n]} \ {NoPid}
                               ELSE up[k - 1] \cup ({parent[m] : m \in up[k - 1]} \ {NoPid})
                       IN  up[Cardinality(Pids)]
           Circle(n) == {m \in Above(n) : n \in Above(m)}
<1>1. DOMAIN parent = S /\ S \subseteq Pids /\ Hangs(parent, S)
  BY TreeHangs
<1>2. Follow(parent, S, depth)
  BY TreeFollows
<1>3. \A n : Above(n) = Climb(parent, n)
  BY DEF Climb
<1> HIDE DEF parent, S, depth, Above
<1>4. \A n \in S : Above(n) = Ancestors(parent, S, n)
  BY <1>1, <1>3, ClimbFindsAncestors
<1>5. ASSUME NEW n \in S
      PROVE  {m \in Circle(n) : depth[m] = 0}
                 = {m \in {k \in Ancestors(parent, S, n) : n \in Ancestors(parent, S, k)} :
                       depth[m] = 0}
  <2>1. Ancestors(parent, S, n) \subseteq S
    BY DEF Ancestors
  <2>2. \A m \in Ancestors(parent, S, n) : Above(m) = Ancestors(parent, S, m)
    BY <1>4, <2>1
  <2>3. Above(n) = Ancestors(parent, S, n)
    BY <1>4
  <2>4. Circle(n) = {k \in Ancestors(parent, S, n) : n \in Ancestors(parent, S, k)}
    BY <2>2, <2>3
  <2> QED
    BY <2>4
<1> HIDE DEF Circle
<1>6. \A n \in DOMAIN parent :
          /\ parent[n] = NoPid => depth[n] = 0
          /\ parent[n] # NoPid /\ n \notin Above(n) => depth[n] = depth[parent[n]] + 1
          /\ n \in Above(n) =>
                /\ Cardinality({m \in Circle(n) : depth[m] = 0}) = 1
                /\ depth[n] # 0 => depth[n] = depth[parent[n]] + 1
  BY <1>1, <1>2, <1>4, <1>5 DEF Follow
<1> QED
  BY <1>6 DEF parent, depth, Above, Circle

-----------------------------------------------------------------------------
(* The distance of two names *)

Cost(x, y) == IF x # y THEN 1 ELSE 0

LEMMA LeastIsLeast ==
  ASSUME NEW x \in Nat, NEW y \in Nat, NEW z \in Nat
  PROVE  /\ Least({x, y, z}) \in {x, y, z} /\ Least({x, y, z}) \in Nat
         /\ Least({x, y, z}) <= x /\ Least({x, y, z}) <= y /\ Least({x, y, z}) <= z
<1>1. \E m \in {x, y, z} : \A n \in {x, y, z} : m <= n
  BY LeastExists
<1> QED
  BY <1>1 DEF Least

\* What NextRow says of a row, from the row before.
Follows(cur, a, b, i, prev) ==
    /\ cur[0] = i
    /\ \A j \in 1..Len(b) :
          cur[j] = Least({prev[j] + 1, cur[j - 1] + 1, prev[j - 1] + Cost(a[i], b[j])})

LEMMA NextRowFollows ==
  ASSUME NEW a, NEW b, Len(b) \in Nat, NEW i \in Nat, NEW prev \in [0..Len(b) -> Nat]
  PROVE  /\ NextRow(a, b, i, prev) \in [0..Len(b) -> Nat]
         /\ Follows(NextRow(a, b, i, prev), a, b, i, prev)
<1> DEFINE Entry(j, x) == Least({prev[j] + 1, x + 1, prev[j - 1] + Cost(a[i], b[j])})
           F == [j \in 1..Len(b) |-> [x \in Nat |-> Entry(j, x)]]
           IsRow(cur) == cur = [j \in 0..Len(b) |-> IF j = 0 THEN i ELSE Entry(j, cur[j - 1])]
<1>1. \A j \in 1..Len(b), x \in Nat : Entry(j, x) \in Nat
  <2> SUFFICES ASSUME NEW j \in 1..Len(b), NEW x \in Nat PROVE Entry(j, x) \in Nat
    OBVIOUS
  <2>1. prev[j] + 1 \in Nat /\ x + 1 \in Nat /\ prev[j - 1] + Cost(a[i], b[j]) \in Nat
    BY DEF Cost
  <2> QED
    BY <2>1, LeastIsLeast
<1> HIDE DEF Entry
<1>2. F \in [1..Len(b) -> [Nat -> Nat]]
  BY <1>1
<1>3. PICK h \in [0..Len(b) -> Nat] : Iterates(h, Len(b), i, F)
  <2> HIDE DEF F
  <2> QED
    BY <1>2, Iterated
<1>4. h[0] = i /\ \A j \in 1..Len(b) : h[j] = Entry(j, h[j - 1])
  <2>1. \A j \in 1..Len(b) : j - 1 \in 0..Len(b)
    OBVIOUS
  <2> QED
    BY <1>3, <2>1 DEF Iterates
<1>5. IsRow(h)
  <2>1. \A j \in 0..Len(b) : h[j] = IF j = 0 THEN i ELSE Entry(j, h[j - 1])
    BY <1>4
  <2>2. h = [j \in 0..Len(b) |-> h[j]]
    OBVIOUS
  <2> QED
    BY <2>1, <2>2
<1> DEFINE cur == CHOOSE c : IsRow(c)
<1>6. IsRow(cur)
  <2> HIDE DEF IsRow
  <2> QED
    BY <1>5
<1>7. NextRow(a, b, i, prev) = cur
  BY Zenon DEF NextRow, Entry, Cost
<1> HIDE DEF cur
<1>8. cur[0] = i /\ \A j \in 1..Len(b) : cur[j] = Entry(j, cur[j - 1])
  <2>1. \A j \in 0..Len(b) : cur[j] = IF j = 0 THEN i ELSE Entry(j, cur[j - 1])
    BY Zenon, <1>6
  <2>2. 0 \in 0..Len(b) /\ \A j \in 1..Len(b) : j \in 0..Len(b) /\ j # 0
    OBVIOUS
  <2> QED
    BY Zenon, <2>1, <2>2
<1>9. \A j \in 0..Len(b) : cur[j] \in Nat
  <2> DEFINE T == {n \in Nat : n <= Len(b) => cur[n] \in Nat}
  <2>1. 0 \in T
    BY <1>8
  <2>2. ASSUME NEW n \in Nat, n \in T
        PROVE  n + 1 \in T
    <3>1. CASE n + 1 <= Len(b)
      <4>1. n + 1 \in 1..Len(b) /\ (n + 1) - 1 = n /\ cur[n] \in Nat
        BY <2>2, <3>1
      <4>2. PICK k \in 1..Len(b), x \in Nat : k = n + 1 /\ x = cur[n]
        BY <4>1
      <4>3. cur[k] = Entry(k, x)
        BY <1>8, <4>1, <4>2
      <4>4. cur[k] \in Nat
        BY <1>1, <4>3
      <4> QED
        BY <4>2, <4>4
    <3> QED
      BY <3>1
  <2>3. \A n \in Nat : n \in T
    <3> HIDE DEF T
    <3> QED
      BY <2>1, <2>2, Induction
  <2> QED
    BY <2>3
<1> QED
  <2>1. cur = [j \in 0..Len(b) |-> cur[j]]
    BY <1>6
  <2>2. cur \in [0..Len(b) -> Nat]
    BY <1>9, <2>1
  <2> QED
    BY <1>7, <1>8, <2>2 DEF Follows, Entry

\* The distance table of two names.
Rows(r, a, b) ==
    /\ r \in [0..Len(a) -> [0..Len(b) -> Nat]]
    /\ r[0] = [j \in 0..Len(b) |-> j]
    /\ \A i \in 1..Len(a) : Follows(r[i], a, b, i, r[i - 1])

LEMMA LevenshteinRows ==
  ASSUME NEW a, NEW b, Len(a) \in Nat, Len(b) \in Nat
  PROVE  \E r : Rows(r, a, b) /\ Levenshtein(a, b) = r[Len(a)][Len(b)]
<1> DEFINE X == [0..Len(b) -> Nat]
           first == [j \in 0..Len(b) |-> j]
           Next(i, x) == NextRow(a, b, i, x)
           F == [i \in 1..Len(a) |-> [x \in X |-> Next(i, x)]]
           IsTable(row) == row = [i \in 0..Len(a) |-> IF i = 0 THEN first ELSE Next(i, row[i - 1])]
<1>1. first \in X
  OBVIOUS
<1>2. \A i \in 1..Len(a), x \in X : Next(i, x) \in X /\ Follows(Next(i, x), a, b, i, x)
  BY NextRowFollows
<1> HIDE DEF X, first, Next
<1>3. PICK h \in [0..Len(a) -> X] : Iterates(h, Len(a), first, F)
  <2>1. F \in [1..Len(a) -> [X -> X]]
    BY <1>2
  <2> HIDE DEF F
  <2> QED
    BY <1>1, <2>1, Iterated
<1>4. h[0] = first /\ \A i \in 1..Len(a) : h[i] = Next(i, h[i - 1])
  <2>1. \A i \in 1..Len(a) : i - 1 \in 0..Len(a)
    OBVIOUS
  <2> QED
    BY <1>3, <2>1 DEF Iterates
<1>5. IsTable(h)
  <2>1. \A i \in 0..Len(a) : h[i] = IF i = 0 THEN first ELSE Next(i, h[i - 1])
    BY <1>4
  <2>2. h = [i \in 0..Len(a) |-> h[i]]
    OBVIOUS
  <2> QED
    BY <2>1, <2>2
<1> DEFINE row == CHOOSE r : IsTable(r)
<1>6. IsTable(row)
  <2> HIDE DEF IsTable
  <2> QED
    BY <1>5
<1>7. Levenshtein(a, b) = row[Len(a)][Len(b)]
  BY Zenon DEF Levenshtein, first, Next
<1> HIDE DEF row
<1>8. row[0] = first /\ \A i \in 1..Len(a) : row[i] = Next(i, row[i - 1])
  BY <1>6
<1>9. \A i \in 0..Len(a) : row[i] \in X
  <2> DEFINE T == {n \in Nat : n <= Len(a) => row[n] \in X}
  <2>1. 0 \in T
    BY <1>1, <1>8
  <2>2. ASSUME NEW n \in Nat, n \in T
        PROVE  n + 1 \in T
    <3>1. CASE n + 1 <= Len(a)
      <4>1. n + 1 \in 1..Len(a) /\ (n + 1) - 1 = n /\ row[n] \in X
        BY <2>2, <3>1
      <4>2. row[n + 1] = Next(n + 1, row[n])
        BY <1>8, <4>1
      <4> QED
        BY <1>2, <4>1, <4>2
    <3> QED
      BY <3>1
  <2>3. \A n \in Nat : n \in T
    <3> HIDE DEF T
    <3> QED
      BY <2>1, <2>2, Induction
  <2> QED
    BY <2>3
<1>10. Rows(row, a, b)
  <2>1. row \in [0..Len(a) -> X]
    <3>1. row = [i \in 0..Len(a) |-> row[i]]
      BY <1>6
    <3> QED
      BY <1>9, <3>1
  <2>2. ASSUME NEW i \in 1..Len(a)
        PROVE  Follows(row[i], a, b, i, row[i - 1])
    <3>1. PICK x : x = row[i - 1]
      OBVIOUS
    <3>2. i - 1 \in 0..Len(a)
      OBVIOUS
    <3>3. x \in X /\ row[i] = Next(i, x)
      BY <1>8, <1>9, <3>1, <3>2
    <3>4. Follows(row[i], a, b, i, x)
      BY <1>2, <3>3
    <3> QED
      BY <3>1, <3>4
  <2> QED
    BY <1>8, <2>1, <2>2 DEF Rows, X, first
<1> QED
  BY <1>7, <1>10

\* An entry, and the entries next to it.
At(r, i, j) == r[i][j]
Table(r, a, b) ==
    /\ \A i \in 0..Len(a), j \in 0..Len(b) : At(r, i, j) \in Nat
    /\ \A j \in 0..Len(b) : At(r, 0, j) = j
    /\ \A i \in 0..Len(a) : At(r, i, 0) = i
    /\ \A i \in 1..Len(a), j \in 1..Len(b) :
          /\ At(r, i, j) <= At(r, i - 1, j) + 1
          /\ At(r, i, j) <= At(r, i, j - 1) + 1
          /\ At(r, i, j) <= At(r, i - 1, j - 1) + Cost(a[i], b[j])
          /\ \/ At(r, i, j) = At(r, i - 1, j) + 1
             \/ At(r, i, j) = At(r, i, j - 1) + 1
             \/ At(r, i, j) = At(r, i - 1, j - 1) + Cost(a[i], b[j])

LEMMA LevenshteinTable ==
  ASSUME NEW a, NEW b, Len(a) \in Nat, Len(b) \in Nat
  PROVE  \E r : Table(r, a, b) /\ Levenshtein(a, b) = At(r, Len(a), Len(b))
<1>1. PICK r : Rows(r, a, b) /\ Levenshtein(a, b) = r[Len(a)][Len(b)]
  BY LevenshteinRows
<1>2. \A i \in 0..Len(a), j \in 0..Len(b) : At(r, i, j) \in Nat
  BY <1>1 DEF Rows, At
<1>3. \A j \in 0..Len(b) : At(r, 0, j) = j
  BY <1>1 DEF Rows, At
<1>4. \A i \in 0..Len(a) : At(r, i, 0) = i
  <2>1. \A i \in 0..Len(a) : i = 0 \/ i \in 1..Len(a)
    OBVIOUS
  <2> QED
    BY <1>1, <1>3, <2>1 DEF Rows, At, Follows
<1>5. ASSUME NEW i \in 1..Len(a), NEW j \in 1..Len(b)
      PROVE  /\ At(r, i, j) <= At(r, i - 1, j) + 1
             /\ At(r, i, j) <= At(r, i, j - 1) + 1
             /\ At(r, i, j) <= At(r, i - 1, j - 1) + Cost(a[i], b[j])
             /\ \/ At(r, i, j) = At(r, i - 1, j) + 1
                \/ At(r, i, j) = At(r, i, j - 1) + 1
                \/ At(r, i, j) = At(r, i - 1, j - 1) + Cost(a[i], b[j])
  <2>1. At(r, i, j) = Least({At(r, i - 1, j) + 1, At(r, i, j - 1) + 1,
                             At(r, i - 1, j - 1) + Cost(a[i], b[j])})
    BY <1>1 DEF Rows, At, Follows
  <2>2. PICK p \in 0..Len(a), q \in 0..Len(b) : p = i - 1 /\ q = j - 1
    OBVIOUS
  <2>3. At(r, p, j) \in Nat /\ At(r, i, q) \in Nat /\ At(r, p, q) \in Nat
    BY <1>2
  <2>4. At(r, p, j) + 1 \in Nat /\ At(r, i, q) + 1 \in Nat /\ At(r, p, q) + Cost(a[i], b[j]) \in Nat
    BY <2>3 DEF Cost
  <2> QED
    BY <2>1, <2>2, <2>4, LeastIsLeast
<1>6. Levenshtein(a, b) = At(r, Len(a), Len(b))
  BY <1>1 DEF At
<1> QED
  BY <1>2, <1>3, <1>4, <1>5, <1>6 DEF Table

\* A name with its letter i left out, with a letter put in after its letter i, and
\* with its letter i replaced.
Less(x, i) == SubSeq(x, 1, i - 1) \o SubSeq(x, i + 1, Len(x))
More(x, i, c) == SubSeq(x, 1, i) \o <<c>> \o SubSeq(x, i + 1, Len(x))
Other(x, i, c) == [x EXCEPT ![i] = c]

LEMMA EditedNames ==
  ASSUME NEW x
  PROVE  Edited(x) = {x} \cup {Less(x, i) : i \in 1..Len(x)}
                     \cup {More(x, i, c) : i \in 0..Len(x), c \in Letters}
                     \cup {Other(x, i, c) : i \in 1..Len(x), c \in Letters}
BY DEF Edited, Less, More, Other

\* A name with its letter i left out, and with a letter put in after its letter i.
LEMMA LeftOut ==
  ASSUME NEW S, NEW x \in Seq(S), NEW i \in 1..Len(x)
  PROVE  LET y == Less(x, i)
         IN  /\ y \in Seq(S) /\ Len(y) = Len(x) - 1
             /\ \A k \in 1..Len(y) : y[k] = IF k < i THEN x[k] ELSE x[k + 1]
<1> DEFINE l == SubSeq(x, 1, i - 1)
           r == SubSeq(x, i + 1, Len(x))
           y == l \o r
<1>1. Len(x) \in Nat /\ \A k \in 1..Len(x) : x[k] \in S
  BY LenProperties, ElementOfSeq
<1>2. /\ l \in Seq(S) /\ Len(l) = i - 1
      /\ \A k \in 1..(i - 1) : l[k] = x[k]
  <2>1. \A k \in 1..(i - 1) : x[k] \in S
    BY <1>1
  <2>2. 1 \in Int /\ i - 1 \in Int
    OBVIOUS
  <2>3. /\ l \in Seq(S) /\ Len(l) = IF 1 <= i - 1 THEN (i - 1) - 1 + 1 ELSE 0
        /\ \A k \in 1..((i - 1) - 1 + 1) : l[k] = x[1 + k - 1]
    BY <2>1, <2>2, SubSeqProperties
  <2> HIDE DEF l
  <2> QED
    BY <2>3
<1>3. /\ r \in Seq(S) /\ Len(r) = Len(x) - i
      /\ \A k \in 1..(Len(x) - i) : r[k] = x[k + i]
  <2>1. \A k \in (i + 1)..Len(x) : x[k] \in S
    BY <1>1
  <2>2. i + 1 \in Int /\ Len(x) \in Int
    BY <1>1
  <2>3. /\ r \in Seq(S) /\ Len(r) = IF i + 1 <= Len(x) THEN Len(x) - (i + 1) + 1 ELSE 0
        /\ \A k \in 1..(Len(x) - (i + 1) + 1) : r[k] = x[(i + 1) + k - 1]
    BY <2>1, <2>2, SubSeqProperties
  <2> HIDE DEF r
  <2>4. \A k \in 1..(Len(x) - i) : k \in 1..(Len(x) - (i + 1) + 1) /\ (i + 1) + k - 1 = k + i
    BY <1>1
  <2>5. Len(r) = Len(x) - i
    BY <1>1, <2>3
  <2> QED
    BY <2>3, <2>4, <2>5
<1> HIDE DEF l, r
<1>4. /\ y \in Seq(S) /\ Len(y) = Len(l) + Len(r)
      /\ \A k \in 1..(Len(l) + Len(r)) : y[k] = IF k <= Len(l) THEN l[k] ELSE r[k - Len(l)]
  BY <1>2, <1>3, ConcatProperties
<1> HIDE DEF y
<1>5. Len(y) = Len(x) - 1
  BY <1>1, <1>2, <1>3, <1>4
<1>6. ASSUME NEW k \in 1..Len(y)
      PROVE  y[k] = IF k < i THEN x[k] ELSE x[k + 1]
  <2>1. k \in 1..(Len(l) + Len(r))
    BY <1>4
  <2>2. y[k] = IF k <= Len(l) THEN l[k] ELSE r[k - Len(l)]
    BY <1>4, <2>1
  <2>3. CASE k < i
    BY <1>2, <2>2, <2>3
  <2>4. CASE ~(k < i)
    <3>1. PICK n \in 1..(Len(x) - i) : n = k - Len(l) /\ n + i = k + 1
      BY <1>1, <1>2, <1>5, <2>4
    <3>2. ~(k <= Len(l))
      BY <1>2, <2>4
    <3> QED
      BY <1>3, <2>2, <2>4, <3>1, <3>2
  <2> QED
    BY <2>3, <2>4
<1> QED
  BY <1>4, <1>5, <1>6 DEF y, l, r, Less

LEMMA PutIn ==
  ASSUME NEW x \in Seq(Letters), NEW i \in 0..Len(x), NEW c \in Letters
  PROVE  /\ More(x, i, c) \in Seq(Letters) /\ Len(More(x, i, c)) = Len(x) + 1
         /\ \A k \in 1..i : More(x, i, c)[k] = x[k]
         /\ More(x, i, c)[i + 1] = c
         /\ \A k \in (i + 1)..Len(x) : More(x, i, c)[k + 1] = x[k]
<1> DEFINE l == SubSeq(x, 1, i)
           r == SubSeq(x, i + 1, Len(x))
           w == l \o <<c>>
           y == w \o r
<1>1. Len(x) \in Nat /\ i \in Nat /\ \A k \in 1..Len(x) : x[k] \in Letters
  BY LenProperties, ElementOfSeq
<1>2. /\ l \in Seq(Letters) /\ Len(l) = i
      /\ \A k \in 1..i : l[k] = x[k]
  <2>1. \A k \in 1..i : x[k] \in Letters
    BY <1>1
  <2>2. 1 \in Int /\ i \in Int
    OBVIOUS
  <2>3. /\ l \in Seq(Letters) /\ Len(l) = IF 1 <= i THEN i - 1 + 1 ELSE 0
        /\ \A k \in 1..(i - 1 + 1) : l[k] = x[1 + k - 1]
    BY <2>1, <2>2, SubSeqProperties
  <2> HIDE DEF l
  <2> QED
    BY <2>3
<1>3. /\ r \in Seq(Letters) /\ Len(r) = Len(x) - i
      /\ \A k \in 1..(Len(x) - i) : r[k] = x[k + i]
  <2>1. \A k \in (i + 1)..Len(x) : x[k] \in Letters
    BY <1>1
  <2>2. i + 1 \in Int /\ Len(x) \in Int
    BY <1>1
  <2>3. /\ r \in Seq(Letters) /\ Len(r) = IF i + 1 <= Len(x) THEN Len(x) - (i + 1) + 1 ELSE 0
        /\ \A k \in 1..(Len(x) - (i + 1) + 1) : r[k] = x[(i + 1) + k - 1]
    BY <2>1, <2>2, SubSeqProperties
  <2> HIDE DEF r
  <2>4. \A k \in 1..(Len(x) - i) : k \in 1..(Len(x) - (i + 1) + 1) /\ (i + 1) + k - 1 = k + i
    BY <1>1
  <2>5. Len(r) = Len(x) - i
    BY <1>1, <2>3
  <2> QED
    BY <2>3, <2>4, <2>5
<1> HIDE DEF l, r
<1>4. /\ w \in Seq(Letters) /\ Len(w) = i + 1
      /\ \A k \in 1..(i + 1) : w[k] = IF k <= i THEN l[k] ELSE c
  <2>1. <<c>> \in Seq(Letters) /\ Len(<<c>>) = 1 /\ <<c>>[1] = c
    OBVIOUS
  <2> DEFINE v == <<c>>
  <2> HIDE DEF v
  <2>2. /\ l \o v \in Seq(Letters) /\ Len(l \o v) = Len(l) + Len(v)
        /\ \A k \in 1..(Len(l) + Len(v)) : (l \o v)[k] = IF k <= Len(l) THEN l[k] ELSE v[k - Len(l)]
    BY <1>2, <2>1, ConcatProperties DEF v
  <2>3. \A k \in 1..(i + 1) : k <= i \/ k - i = 1
    BY <1>1
  <2>4. \A k \in 1..(i + 1) : (l \o v)[k] = IF k <= i THEN l[k] ELSE v[k - i]
    BY <1>2, <2>1, <2>2 DEF v
  <2> QED
    BY <1>2, <2>1, <2>2, <2>3, <2>4 DEF v
<1> HIDE DEF w
<1>5. /\ y \in Seq(Letters) /\ Len(y) = Len(w) + Len(r)
      /\ \A k \in 1..(Len(w) + Len(r)) : y[k] = IF k <= Len(w) THEN w[k] ELSE r[k - Len(w)]
  BY <1>3, <1>4, ConcatProperties
<1> HIDE DEF y
<1>6. Len(y) = Len(x) + 1
  BY <1>1, <1>3, <1>4, <1>5
<1>7. \A k \in 1..(i + 1) : y[k] = w[k]
  BY <1>1, <1>3, <1>4, <1>5
<1>8. ASSUME NEW k \in (i + 1)..Len(x)
      PROVE  y[k + 1] = x[k]
  <2>1. PICK n \in 1..(Len(x) - i), m \in 1..(Len(w) + Len(r)) :
           n = k - i /\ m = k + 1 /\ n = m - Len(w) /\ n + i = k /\ ~(m <= Len(w))
    BY <1>1, <1>3, <1>4
  <2>2. y[m] = r[n]
    BY <1>5, <2>1
  <2>3. r[n] = x[n + i]
    BY <1>3
  <2> QED
    BY <2>1, <2>2, <2>3
<1>9. (\A k \in 1..i : y[k] = x[k]) /\ y[i + 1] = c
  <2>1. \A k \in 1..i : k \in 1..(i + 1) /\ k <= i
    BY <1>1
  <2>2. i + 1 \in 1..(i + 1) /\ ~(i + 1 <= i)
    BY <1>1
  <2> QED
    BY <1>2, <1>4, <1>7, <2>1, <2>2
<1> QED
  BY <1>5, <1>6, <1>8, <1>9 DEF y, w, l, r, More

\* y is x with its letter p put in; with another letter at p.
Inserts(x, y, p) ==
    /\ Len(y) = Len(x) + 1 /\ p \in 1..Len(y)
    /\ \A k \in 1..Len(x) : k < p => y[k] = x[k]
    /\ \A k \in 1..Len(x) : ~(k < p) => y[k + 1] = x[k]
Replaces(x, y, p) ==
    /\ Len(y) = Len(x) /\ p \in 1..Len(x)
    /\ \A k \in 1..Len(x) : k # p => y[k] = x[k]
OneEdit(x, y) ==
    \/ x = y
    \/ \E p \in 1..Len(y) : Inserts(x, y, p)
    \/ \E p \in 1..Len(x) : Inserts(y, x, p)
    \/ \E p \in 1..Len(x) : Replaces(x, y, p)

LEMMA EditedIsOneEdit ==
  ASSUME NEW x \in Seq(Letters), NEW y \in Edited(x)
  PROVE  y \in Seq(Letters) /\ OneEdit(x, y)
<1>1. CASE y = x
  BY <1>1 DEF OneEdit
<1>2. CASE \E i \in 1..Len(x) : y = Less(x, i)
  <2>1. PICK i \in 1..Len(x) : y = Less(x, i)
    BY <1>2
  <2>2. /\ y \in Seq(Letters) /\ Len(y) = Len(x) - 1
        /\ \A k \in 1..Len(y) : y[k] = IF k < i THEN x[k] ELSE x[k + 1]
    BY <2>1, LeftOut
  <2>3. Len(x) \in Nat /\ Len(x) = Len(y) + 1
    BY <2>2, LenProperties
  <2>4. Inserts(y, x, i)
    BY <2>2, <2>3 DEF Inserts
  <2> QED
    BY <2>2, <2>4 DEF OneEdit
<1>3. CASE \E i \in 0..Len(x), c \in Letters :
              y = More(x, i, c)
  <2>1. PICK i \in 0..Len(x), c \in Letters :
           y = More(x, i, c)
    BY <1>3
  <2>2. /\ y \in Seq(Letters) /\ Len(y) = Len(x) + 1
        /\ \A k \in 1..i : y[k] = x[k]
        /\ \A k \in (i + 1)..Len(x) : y[k + 1] = x[k]
    BY <2>1, PutIn
  <2>3. Len(x) \in Nat
    BY LenProperties
  <2>4. PICK p \in 1..Len(y) : p = i + 1
    BY <2>2, <2>3
  <2>5. Inserts(x, y, p)
    BY <2>2, <2>3, <2>4 DEF Inserts
  <2> QED
    BY <2>2, <2>5 DEF OneEdit
<1>4. CASE \E i \in 1..Len(x), c \in Letters : y = Other(x, i, c)
  <2>1. PICK i \in 1..Len(x), c \in Letters : y = Other(x, i, c)
    BY <1>4
  <2>2. /\ y \in Seq(Letters) /\ Len(y) = Len(x)
        /\ \A k \in 1..Len(x) : y[k] = IF k = i THEN c ELSE x[k]
    BY <2>1, ExceptSeq DEF Other
  <2>3. Replaces(x, y, i)
    BY <2>2 DEF Replaces
  <2> QED
    BY <2>2, <2>3 DEF OneEdit
<1> QED
  BY <1>1, <1>2, <1>3, <1>4, EditedNames

LEMMA OneEditIsEdited ==
  ASSUME NEW x \in Seq(Letters), NEW y \in Seq(Letters), OneEdit(x, y)
  PROVE  y \in Edited(x)
<1>0. Len(x) \in Nat /\ Len(y) \in Nat
  BY LenProperties
<1>1. CASE x = y
  BY <1>1 DEF Edited
<1>2. CASE \E p \in 1..Len(x) : Inserts(y, x, p)
  <2>1. PICK i \in 1..Len(x) : Inserts(y, x, i)
    BY <1>2
  <2> DEFINE z == Less(x, i)
  <2>2. /\ z \in Seq(Letters) /\ Len(z) = Len(x) - 1
        /\ \A k \in 1..Len(z) : z[k] = IF k < i THEN x[k] ELSE x[k + 1]
    BY LeftOut
  <2>3. z \in Edited(x)
    BY EditedNames
  <2> HIDE DEF z
  <2>4. Len(z) = Len(y)
    BY <1>0, <2>1, <2>2 DEF Inserts
  <2>5. \A k \in 1..Len(z) : z[k] = y[k]
    BY <2>1, <2>2, <2>4 DEF Inserts
  <2>6. z = y
    BY <2>2, <2>4, <2>5, SeqEqual
  <2> QED
    BY <2>3, <2>6
<1>3. CASE \E p \in 1..Len(y) : Inserts(x, y, p)
  <2>1. PICK p \in 1..Len(y) : Inserts(x, y, p)
    BY <1>3
  <2>2. PICK i \in 0..Len(x) : p = i + 1 /\ i = p - 1
    BY <1>0, <2>1 DEF Inserts
  <2>3. PICK c \in Letters : c = y[p]
    BY ElementOfSeq
  <2> DEFINE z == More(x, i, c)
  <2>4. /\ z \in Seq(Letters) /\ Len(z) = Len(x) + 1
        /\ \A k \in 1..i : z[k] = x[k]
        /\ z[i + 1] = c
        /\ \A k \in (i + 1)..Len(x) : z[k + 1] = x[k]
    BY PutIn
  <2>5. z \in Edited(x)
    BY EditedNames
  <2> HIDE DEF z
  <2>6. Len(z) = Len(y)
    BY <2>1, <2>4 DEF Inserts
  <2>7. ASSUME NEW k \in 1..Len(z)
        PROVE  z[k] = y[k]
    <3>1. CASE k < p
      <4>1. k \in 1..i /\ k \in 1..Len(x)
        BY <1>0, <2>2, <3>1
      <4> QED
        BY <2>1, <2>4, <3>1, <4>1 DEF Inserts
    <3>2. CASE k = p
      BY <2>2, <2>3, <2>4, <3>2
    <3>3. CASE k > p
      <4>1. PICK n \in (i + 1)..Len(x) : k = n + 1 /\ n \in 1..Len(x) /\ ~(n < p)
        BY <1>0, <2>2, <2>4, <3>3
      <4> QED
        BY <2>1, <2>4, <4>1 DEF Inserts
    <3> QED
      BY <2>2, <3>1, <3>2, <3>3
  <2>8. z = y
    BY <2>4, <2>6, <2>7, SeqEqual
  <2> QED
    BY <2>5, <2>8
<1>4. CASE \E p \in 1..Len(x) : Replaces(x, y, p)
  <2>1. PICK i \in 1..Len(x) : Replaces(x, y, i)
    BY <1>4
  <2>2. i \in 1..Len(y)
    BY <2>1 DEF Replaces
  <2>3. PICK c \in Letters : c = y[i]
    BY <2>2, ElementOfSeq
  <2> DEFINE z == Other(x, i, c)
  <2>4. /\ z \in Seq(Letters) /\ Len(z) = Len(x)
        /\ \A k \in 1..Len(x) : z[k] = IF k = i THEN c ELSE x[k]
    BY ExceptSeq DEF Other
  <2>5. z \in Edited(x)
    BY EditedNames
  <2> HIDE DEF z
  <2>6. \A k \in 1..Len(z) : z[k] = y[k]
    BY <2>1, <2>3, <2>4 DEF Replaces
  <2>7. z = y
    BY <2>1, <2>4, <2>6, SeqEqual DEF Replaces
  <2> QED
    BY <2>5, <2>7
<1> QED
  BY <1>1, <1>2, <1>3, <1>4 DEF OneEdit

LEMMA EditsGoBack ==
  ASSUME NEW x, NEW y, OneEdit(x, y)
  PROVE  OneEdit(y, x)
BY DEF OneEdit, Replaces

\* A letter at the end is an edit; the same letter at both ends changes nothing.
LEMMA EditAtEnd ==
  ASSUME NEW x \in Seq(Letters), NEW c \in Letters, NEW d \in Letters
  PROVE  OneEdit(x, Append(x, c)) /\ OneEdit(Append(x, c), Append(x, d))
<1>1. /\ Append(x, c) \in Seq(Letters) /\ Len(Append(x, c)) = Len(x) + 1
      /\ \A i \in 1..Len(x) : Append(x, c)[i] = x[i]
  BY AppendProperties
<1>2. /\ Append(x, d) \in Seq(Letters) /\ Len(Append(x, d)) = Len(x) + 1
      /\ \A i \in 1..Len(x) : Append(x, d)[i] = x[i]
  BY AppendProperties
<1>3. PICK p \in 1..Len(Append(x, c)) : p = Len(x) + 1
  BY <1>1, LenProperties
<1>4. Inserts(x, Append(x, c), p)
  BY <1>1, <1>3, LenProperties DEF Inserts
<1>5. Replaces(Append(x, c), Append(x, d), p)
  BY <1>1, <1>2, <1>3, LenProperties DEF Replaces
<1> QED
  BY <1>4, <1>5 DEF OneEdit

LEMMA EditBeforeEnd ==
  ASSUME NEW x \in Seq(Letters), NEW y \in Seq(Letters), NEW c \in Letters, OneEdit(x, y)
  PROVE  OneEdit(Append(x, c), Append(y, c))
<1> DEFINE u == Append(x, c)
           v == Append(y, c)
<1>1. /\ u \in Seq(Letters) /\ Len(u) = Len(x) + 1
      /\ \A i \in 1..Len(x) : u[i] = x[i]
      /\ u[Len(x) + 1] = c
  BY AppendProperties
<1>2. /\ v \in Seq(Letters) /\ Len(v) = Len(y) + 1
      /\ \A i \in 1..Len(y) : v[i] = y[i]
      /\ v[Len(y) + 1] = c
  BY AppendProperties
<1>3. Len(x) \in Nat /\ Len(y) \in Nat
  BY LenProperties
<1>4. CASE x = y
  BY <1>4 DEF OneEdit
<1> HIDE DEF u, v
<1>5. CASE \E p \in 1..Len(y) : Inserts(x, y, p)
  <2>1. PICK p \in 1..Len(y) : Inserts(x, y, p)
    BY <1>5
  <2>2. Inserts(u, v, p) /\ p \in 1..Len(v)
    <3>1. Len(v) = Len(u) + 1 /\ p \in 1..Len(v)
      BY <1>1, <1>2, <1>3, <2>1 DEF Inserts
    <3>2. ASSUME NEW k \in 1..Len(u)
          PROVE  (k < p => v[k] = u[k]) /\ (~(k < p) => v[k + 1] = u[k])
      <4>1. CASE k \in 1..Len(x)
        <5>1. k \in 1..Len(y) /\ k + 1 \in 1..Len(y)
          BY <1>3, <2>1, <4>1 DEF Inserts
        <5> QED
          BY <1>1, <1>2, <2>1, <4>1, <5>1 DEF Inserts
      <4>2. CASE k = Len(x) + 1
        <5>1. ~(k < p) /\ k + 1 = Len(y) + 1
          BY <1>3, <2>1, <4>2 DEF Inserts
        <5> QED
          BY <1>1, <1>2, <4>2, <5>1
      <4> QED
        BY <1>1, <1>3, <4>1, <4>2
    <3> QED
      BY <3>1, <3>2 DEF Inserts
  <2> QED
    BY <2>2 DEF OneEdit, u, v
<1>6. CASE \E p \in 1..Len(x) : Inserts(y, x, p)
  <2>1. PICK p \in 1..Len(x) : Inserts(y, x, p)
    BY <1>6
  <2>2. Inserts(v, u, p) /\ p \in 1..Len(u)
    <3>1. Len(u) = Len(v) + 1 /\ p \in 1..Len(u)
      BY <1>1, <1>2, <1>3, <2>1 DEF Inserts
    <3>2. ASSUME NEW k \in 1..Len(v)
          PROVE  (k < p => u[k] = v[k]) /\ (~(k < p) => u[k + 1] = v[k])
      <4>1. CASE k \in 1..Len(y)
        <5>1. k \in 1..Len(x) /\ k + 1 \in 1..Len(x)
          BY <1>3, <2>1, <4>1 DEF Inserts
        <5> QED
          BY <1>1, <1>2, <2>1, <4>1, <5>1 DEF Inserts
      <4>2. CASE k = Len(y) + 1
        <5>1. ~(k < p) /\ k + 1 = Len(x) + 1
          BY <1>3, <2>1, <4>2 DEF Inserts
        <5> QED
          BY <1>1, <1>2, <4>2, <5>1
      <4> QED
        BY <1>2, <1>3, <4>1, <4>2
    <3> QED
      BY <3>1, <3>2 DEF Inserts
  <2> QED
    BY <2>2 DEF OneEdit, u, v
<1>7. CASE \E p \in 1..Len(x) : Replaces(x, y, p)
  <2>1. PICK p \in 1..Len(x) : Replaces(x, y, p)
    BY <1>7
  <2>2. Replaces(u, v, p) /\ p \in 1..Len(u)
    BY <1>1, <1>2, <1>3, <2>1 DEF Replaces
  <2> QED
    BY <2>2 DEF OneEdit, u, v
<1> QED
  BY <1>4, <1>5, <1>6, <1>7 DEF OneEdit

\* Two names so many edits from one another, up to two.
Near(k, x, y) ==
    \/ k = 0 /\ x = y
    \/ k = 1 /\ OneEdit(x, y)
    \/ k = 2 /\ \E z \in Seq(Letters) : OneEdit(x, z) /\ OneEdit(z, y)

LEMMA NearGrows ==
  ASSUME NEW k \in 0..2, NEW n, k = n + 1, n \in 0..1,
         NEW x \in Seq(Letters), NEW y \in Seq(Letters), NEW w \in Seq(Letters), Near(n, x, y)
  PROVE  /\ OneEdit(y, w) => Near(k, x, w)
         /\ OneEdit(w, x) => Near(k, w, y)
<1>1. CASE n = 0
  BY <1>1 DEF Near
<1>2. CASE n = 1
  BY <1>2 DEF Near
<1> QED
  BY <1>1, <1>2

LEMMA NearStays ==
  ASSUME NEW k \in 0..2, NEW x \in Seq(Letters), NEW y \in Seq(Letters), NEW c \in Letters, Near(k, x, y)
  PROVE  Near(k, Append(x, c), Append(y, c))
<1>1. CASE k = 0
  BY <1>1 DEF Near
<1>2. CASE k = 1
  BY <1>2, EditBeforeEnd DEF Near
<1>3. CASE k = 2
  <2>1. PICK z \in Seq(Letters) : OneEdit(x, z) /\ OneEdit(z, y)
    BY <1>3 DEF Near
  <2>2. OneEdit(Append(x, c), Append(z, c)) /\ OneEdit(Append(z, c), Append(y, c))
    BY <2>1, EditBeforeEnd
  <2> QED
    BY <1>3, <2>2, AppendProperties DEF Near
<1> QED
  BY <1>1, <1>2, <1>3

Pre(a, i) == SubSeq(a, 1, i)

LEMMA PrefixesGrow ==
  ASSUME NEW a \in Seq(Letters)
  PROVE  /\ \A i \in 0..Len(a) : Pre(a, i) \in Seq(Letters)
         /\ \A p \in 0..Len(a), i \in 1..Len(a) : i = p + 1 => Pre(a, i) = Append(Pre(a, p), a[i])
         /\ \A i \in 1..Len(a) : a[i] \in Letters
         /\ Pre(a, 0) = <<>> /\ Pre(a, Len(a)) = a
<1>1. Len(a) \in Nat /\ \A i \in 1..Len(a) : a[i] \in Letters
  BY LenProperties, ElementOfSeq
<1>2. ASSUME NEW i \in 0..Len(a)
      PROVE  Pre(a, i) \in Seq(Letters)
  <2>1. \A k \in 1..i : a[k] \in Letters
    BY <1>1
  <2>2. 1 \in Int /\ i \in Int
    OBVIOUS
  <2> QED
    BY <2>1, <2>2, SubSeqProperties DEF Pre
<1>3. ASSUME NEW p \in 0..Len(a), NEW i \in 1..Len(a), i = p + 1
      PROVE  Pre(a, i) = Append(Pre(a, p), a[i])
  <2>1. 1 \in 1..Len(a) /\ i \in 1..Len(a) /\ i - 1 = p
    BY <1>1, <1>3
  <2>2. SubSeq(a, 1, i) = SubSeq(a, 1, i - 1) \o <<a[i]>>
    BY <2>1, SubSeqRecursiveSecond
  <2>3. PICK s \in Seq(Letters), c \in Letters : s = SubSeq(a, 1, p) /\ c = a[i]
    BY <1>1, <1>2 DEF Pre
  <2>4. Append(s, c) = s \o <<c>>
    BY AppendIsConcat
  <2> QED
    BY <2>1, <2>2, <2>3, <2>4 DEF Pre
<1>4. Pre(a, 0) = <<>>
  BY SubSeqEmpty DEF Pre
<1>5. Pre(a, Len(a)) = a
  BY SubSeqFull DEF Pre
<1> QED
  BY Zenon, <1>1, <1>2, <1>3, <1>4, <1>5

\* The table does not tell names nearer than they are.
LEMMA NoNearer ==
  ASSUME NEW a \in Seq(Letters), NEW b \in Seq(Letters), NEW r, Table(r, a, b),
         NEW k \in 0..2, At(r, Len(a), Len(b)) <= k
  PROVE  Near(k, a, b)
<1>0. Len(a) \in Nat /\ Len(b) \in Nat
  BY LenProperties
<1> DEFINE I == 0..Len(a)
           J == 0..Len(b)
           T == {n \in Nat : \A i \in I, j \in J, l \in 0..2 :
                    i + j <= n /\ At(r, i, j) <= l => Near(l, Pre(a, i), Pre(b, j))}
<1>1. /\ \A i \in I : Pre(a, i) \in Seq(Letters)
      /\ \A p \in I, i \in 1..Len(a) : i = p + 1 => Pre(a, i) = Append(Pre(a, p), a[i])
      /\ \A i \in 1..Len(a) : a[i] \in Letters
      /\ Pre(a, 0) = <<>> /\ Pre(a, Len(a)) = a
  BY PrefixesGrow
<1>2. /\ \A i \in J : Pre(b, i) \in Seq(Letters)
      /\ \A p \in J, i \in 1..Len(b) : i = p + 1 => Pre(b, i) = Append(Pre(b, p), b[i])
      /\ \A i \in 1..Len(b) : b[i] \in Letters
      /\ Pre(b, 0) = <<>> /\ Pre(b, Len(b)) = b
  BY PrefixesGrow
<1>3. \A i \in I, j \in J : At(r, i, j) \in Nat
  BY DEF Table
\* An edit at the end of the one name or of the other, or of neither.
<1>4. ASSUME NEW i \in I, NEW j \in J, NEW p \in I, i = p + 1, NEW l \in 0..2,
             At(r, i, j) = At(r, p, j) + 1, At(r, i, j) <= l,
             \A m \in 0..2 : At(r, p, j) <= m => Near(m, Pre(a, p), Pre(b, j))
      PROVE  Near(l, Pre(a, i), Pre(b, j))
  <2>1. PICK m \in 0..1 : l = m + 1 /\ At(r, p, j) <= m
    BY <1>3, <1>4
  <2>2. Near(m, Pre(a, p), Pre(b, j))
    BY <1>4, <2>1
  <2>3. i \in 1..Len(a)
    BY <1>0, <1>4
  <2>4. Pre(a, i) = Append(Pre(a, p), a[i]) /\ a[i] \in Letters
    BY <1>1, <1>4, <2>3
  <2>5. OneEdit(Pre(a, p), Pre(a, i))
    BY <1>1, <2>4, EditAtEnd
  <2>6. OneEdit(Pre(a, i), Pre(a, p))
    BY <2>5, EditsGoBack
  <2> QED
    BY <1>1, <1>2, <2>1, <2>2, <2>6, NearGrows
<1>5. ASSUME NEW i \in I, NEW j \in J, NEW q \in J, j = q + 1, NEW l \in 0..2,
             At(r, i, j) = At(r, i, q) + 1, At(r, i, j) <= l,
             \A m \in 0..2 : At(r, i, q) <= m => Near(m, Pre(a, i), Pre(b, q))
      PROVE  Near(l, Pre(a, i), Pre(b, j))
  <2>1. PICK m \in 0..1 : l = m + 1 /\ At(r, i, q) <= m
    BY <1>3, <1>5
  <2>2. Near(m, Pre(a, i), Pre(b, q))
    BY <1>5, <2>1
  <2>3. j \in 1..Len(b)
    BY <1>0, <1>5
  <2>4. Pre(b, j) = Append(Pre(b, q), b[j]) /\ b[j] \in Letters
    BY <1>2, <1>5, <2>3
  <2>5. OneEdit(Pre(b, q), Pre(b, j))
    BY <1>2, <2>4, EditAtEnd
  <2> QED
    BY <1>1, <1>2, <2>1, <2>2, <2>5, NearGrows
<1>6. ASSUME NEW i \in I, NEW j \in J, NEW p \in I, NEW q \in J, i = p + 1, j = q + 1, NEW l \in 0..2,
             At(r, i, j) = At(r, p, q) + Cost(a[i], b[j]), At(r, i, j) <= l,
             \A m \in 0..2 : At(r, p, q) <= m => Near(m, Pre(a, p), Pre(b, q))
      PROVE  Near(l, Pre(a, i), Pre(b, j))
  <2>1. i \in 1..Len(a) /\ j \in 1..Len(b)
    BY <1>0, <1>6
  <2>2. PICK c \in Letters, d \in Letters : c = a[i] /\ d = b[j]
    BY <1>1, <1>2, <2>1
  <2>3. Pre(a, i) = Append(Pre(a, p), c) /\ Pre(b, j) = Append(Pre(b, q), d)
    BY <1>1, <1>2, <1>6, <2>1, <2>2
  <2>4. CASE c = d
    <3>1. At(r, p, q) <= l
      BY <1>3, <1>6, <2>2, <2>4 DEF Cost
    <3>2. Near(l, Pre(a, p), Pre(b, q))
      BY <1>6, <3>1
    <3> QED
      BY <1>1, <1>2, <2>3, <2>4, <3>2, NearStays
  <2>5. CASE c # d
    <3>1. PICK m \in 0..1 : l = m + 1 /\ At(r, p, q) <= m
      BY <1>3, <1>6, <2>2, <2>5 DEF Cost
    <3>2. Near(m, Pre(a, p), Pre(b, q))
      BY <1>6, <3>1
    <3>3. PICK x \in Seq(Letters), y \in Seq(Letters) : x = Pre(a, p) /\ y = Pre(b, q)
      BY <1>1, <1>2
    <3>4. Near(m, Append(x, c), Append(y, c))
      BY <3>2, <3>3, NearStays
    <3>5. OneEdit(Append(y, c), Append(y, d))
      BY EditAtEnd
    <3>6. Append(x, c) \in Seq(Letters) /\ Append(y, c) \in Seq(Letters) /\ Append(y, d) \in Seq(Letters)
      BY AppendProperties
    <3>7. Near(l, Append(x, c), Append(y, d))
      BY <3>1, <3>4, <3>5, <3>6, NearGrows
    <3> QED
      BY <2>3, <3>3, <3>7
  <2> QED
    BY <2>4, <2>5
<1>7. 0 \in T
  <2>1. \A i \in I, j \in J : i + j <= 0 => i = 0 /\ j = 0
    OBVIOUS
  <2>2. \A l \in 0..2 : Near(l, <<>>, <<>>)
    <3>1. PICK e \in Seq(Letters) : e = <<>>
      BY EmptySeq
    <3>2. OneEdit(e, e)
      BY DEF OneEdit
    <3>3. \A l \in 0..2 : l = 0 \/ l = 1 \/ l = 2
      OBVIOUS
    <3> QED
      BY <3>1, <3>2, <3>3 DEF Near
  <2> QED
    BY <1>1, <1>2, <2>1, <2>2
<1>8. ASSUME NEW n \in Nat, n \in T
      PROVE  n + 1 \in T
  <2> SUFFICES ASSUME NEW i \in I, NEW j \in J, NEW l \in 0..2, i + j <= n + 1, At(r, i, j) <= l
               PROVE  Near(l, Pre(a, i), Pre(b, j))
    OBVIOUS
  <2>1. CASE i = 0 /\ j = 0
    BY <1>7, <2>1
  <2>2. CASE i = 0 /\ j # 0
    <3>1. PICK q \in J : j = q + 1 /\ i + q <= n
      BY <2>2
    <3>2. At(r, i, j) = At(r, i, q) + 1
      BY <2>2, <3>1 DEF Table
    <3>3. \A m \in 0..2 : At(r, i, q) <= m => Near(m, Pre(a, i), Pre(b, q))
      BY <1>8, <3>1
    <3> QED
      BY <1>5, <3>1, <3>2, <3>3
  <2>3. CASE i # 0 /\ j = 0
    <3>1. PICK p \in I : i = p + 1 /\ p + j <= n
      BY <2>3
    <3>2. At(r, i, j) = At(r, p, j) + 1
      BY <2>3, <3>1 DEF Table
    <3>3. \A m \in 0..2 : At(r, p, j) <= m => Near(m, Pre(a, p), Pre(b, j))
      BY <1>8, <3>1
    <3> QED
      BY <1>4, <3>1, <3>2, <3>3
  <2>4. CASE i # 0 /\ j # 0
    <3>1. PICK p \in I, q \in J : i = p + 1 /\ j = q + 1 /\ p = i - 1 /\ q = j - 1
      BY <2>4
    <3>2. p + j <= n /\ i + q <= n /\ p + q <= n
      BY <3>1
    <3>3. \A m \in 0..2 : /\ At(r, p, j) <= m => Near(m, Pre(a, p), Pre(b, j))
                          /\ At(r, i, q) <= m => Near(m, Pre(a, i), Pre(b, q))
                          /\ At(r, p, q) <= m => Near(m, Pre(a, p), Pre(b, q))
      BY <1>8, <3>2
    <3>4. \/ At(r, i, j) = At(r, p, j) + 1
          \/ At(r, i, j) = At(r, i, q) + 1
          \/ At(r, i, j) = At(r, p, q) + Cost(a[i], b[j])
      <4>1. i \in 1..Len(a) /\ j \in 1..Len(b)
        BY <2>4
      <4> QED
        BY <3>1, <4>1 DEF Table
    <3> HIDE DEF I, J
    <3> QED
      BY <1>4, <1>5, <1>6, <3>1, <3>3, <3>4
  <2> QED
    BY <2>1, <2>2, <2>3, <2>4
<1>9. \A n \in Nat : n \in T
  <2> HIDE DEF T
  <2> QED
    BY <1>7, <1>8, Induction
<1>10. Near(k, Pre(a, Len(a)), Pre(b, Len(b)))
  <2>1. PICK n \in Nat : n = Len(a) + Len(b)
    BY <1>0
  <2>2. PICK i \in I, j \in J : i = Len(a) /\ j = Len(b) /\ i + j <= n
    BY <1>0, <2>1
  <2>3. n \in T
    BY <1>9
  <2>4. Near(k, Pre(a, i), Pre(b, j))
    BY <2>2, <2>3
  <2> QED
    BY <2>2, <2>4
<1> QED
  BY <1>1, <1>2, <1>10

\* A name is at no distance from itself.
LEMMA NoDistanceToSelf ==
  ASSUME NEW a \in Seq(Letters), NEW r, Table(r, a, a)
  PROVE  At(r, Len(a), Len(a)) = 0
<1> DEFINE T == {n \in Nat : n <= Len(a) => At(r, n, n) = 0}
<1>0. Len(a) \in Nat
  BY LenProperties
<1>1. 0 \in T
  BY <1>0 DEF Table
<1>2. ASSUME NEW n \in Nat, n \in T
      PROVE  n + 1 \in T
  <2> SUFFICES ASSUME n + 1 <= Len(a) PROVE At(r, n + 1, n + 1) = 0
    OBVIOUS
  <2>1. PICK i \in 1..Len(a) : i = n + 1 /\ i - 1 = n
    BY <1>0
  <2>2. At(r, i, i) <= At(r, i - 1, i - 1) + Cost(a[i], a[i])
    BY DEF Table
  <2>3. At(r, n, n) = 0 /\ Cost(a[i], a[i]) = 0
    BY <1>2 DEF Cost
  <2>4. At(r, i, i) \in Nat
    BY DEF Table
  <2> QED
    BY <2>1, <2>2, <2>3, <2>4
<1>3. \A n \in Nat : n \in T
  <2> HIDE DEF T
  <2> QED
    BY <1>1, <1>2, Induction
<1> QED
  BY <1>0, <1>3

\* What an entry is, in terms of the row and the column before.
Cell(r, i, j, p, q, cost) ==
    /\ At(r, i, j) \in Nat /\ At(r, p, j) \in Nat /\ At(r, i, q) \in Nat /\ At(r, p, q) \in Nat
    /\ cost \in 0..1
    /\ At(r, i, j) <= At(r, p, j) + 1
    /\ At(r, i, j) <= At(r, i, q) + 1
    /\ At(r, i, j) <= At(r, p, q) + cost
    /\ \/ At(r, i, j) = At(r, p, j) + 1
       \/ At(r, i, j) = At(r, i, q) + 1
       \/ At(r, i, j) = At(r, p, q) + cost

LEMMA TableAt ==
  ASSUME NEW a, NEW b, NEW r, Table(r, a, b), Len(a) \in Nat, Len(b) \in Nat,
         NEW i \in 0..Len(a), NEW j \in 0..Len(b), NEW p \in 0..Len(a), NEW q \in 0..Len(b),
         i = p + 1, j = q + 1
  PROVE  Cell(r, i, j, p, q, Cost(a[i], b[j]))
<1>1. i \in 1..Len(a) /\ j \in 1..Len(b) /\ i - 1 = p /\ j - 1 = q
  OBVIOUS
<1>2. Cost(a[i], b[j]) \in 0..1
  BY DEF Cost
<1>3. At(r, i, j) \in Nat /\ At(r, p, j) \in Nat /\ At(r, i, q) \in Nat /\ At(r, p, q) \in Nat
  BY DEF Table
<1> QED
  BY <1>1, <1>2, <1>3 DEF Table, Cell

\* Two names of which one has a letter more at the end are one from each other.
LEMMA NextColumn ==
  ASSUME NEW a \in Seq(Letters), NEW b \in Seq(Letters), NEW r, Table(r, a, b),
         NEW i \in 0..Len(a), NEW j \in 0..Len(b), NEW q \in 0..Len(b), j = q + 1
  PROVE  At(r, i, j) <= At(r, i, q) + 1 /\ At(r, i, q) <= At(r, i, j) + 1
<1> DEFINE T == {n \in Nat : \A k \in 0..Len(a) : k = n =>
                    At(r, k, j) <= At(r, k, q) + 1 /\ At(r, k, q) <= At(r, k, j) + 1}
<1>0. Len(a) \in Nat /\ Len(b) \in Nat
  BY LenProperties
<1>1. 0 \in T
  <2>1. 0 \in 0..Len(a) /\ At(r, 0, j) = j /\ At(r, 0, q) = q
    BY <1>0 DEF Table
  <2> QED
    BY <2>1
<1>2. ASSUME NEW n \in Nat, n \in T
      PROVE  n + 1 \in T
  <2> SUFFICES ASSUME NEW k \in 0..Len(a), k = n + 1
               PROVE  At(r, k, j) <= At(r, k, q) + 1 /\ At(r, k, q) <= At(r, k, j) + 1
    OBVIOUS
  <2>1. PICK p \in 0..Len(a) : p = n /\ k = p + 1
    BY <1>0
  <2>2. At(r, p, j) <= At(r, p, q) + 1 /\ At(r, p, q) <= At(r, p, j) + 1
    BY <1>2, <2>1
  <2>3. Cell(r, k, j, p, q, Cost(a[k], b[j]))
    BY <1>0, <2>1, TableAt
\* One letter more of the other name, too, makes a distance at most one more.
  <2>4. At(r, k, q) <= At(r, p, q) + 1
    <3>1. k \in 1..Len(a) /\ k - 1 = p
      BY <1>0, <2>1
    <3>2. CASE q = 0
      BY <2>1, <3>2 DEF Table
    <3>3. CASE q # 0
      <4>1. q \in 1..Len(b)
        BY <1>0, <3>3
      <4> QED
        BY <3>1, <4>1 DEF Table
    <3> QED
      BY <3>2, <3>3
  <2> QED
    BY <2>2, <2>3, <2>4 DEF Cell
<1>3. \A n \in Nat : n \in T
  <2> HIDE DEF T
  <2> QED
    BY <1>1, <1>2, Induction
<1>4. i \in T
  BY <1>0, <1>3
<1> QED
  BY <1>4

\* Where two names agree, so do their tables.
LEMMA SameColumns ==
  ASSUME NEW a \in Seq(Letters), NEW y \in Seq(Letters), NEW z \in Seq(Letters),
         NEW r, NEW s, Table(r, a, y), Table(s, a, z),
         NEW m \in 0..Len(y), m \in 0..Len(z), \A k \in 1..m : y[k] = z[k],
         NEW i \in 0..Len(a), NEW j \in 0..m
  PROVE  At(r, i, j) = At(s, i, j)
<1> DEFINE T == {n \in Nat : \A k \in 0..Len(a), l \in 0..m : k + l <= n => At(r, k, l) = At(s, k, l)}
<1>0. Len(a) \in Nat /\ Len(y) \in Nat /\ Len(z) \in Nat
  BY LenProperties
<1>1. \A l \in 0..m : l \in 0..Len(y) /\ l \in 0..Len(z)
  BY <1>0
<1>2. ASSUME NEW k \in 0..Len(a), NEW l \in 0..m, k = 0 \/ l = 0
      PROVE  At(r, k, l) = At(s, k, l)
  BY <1>1, <1>2 DEF Table
<1>3. 0 \in T
  <2>1. \A k \in 0..Len(a), l \in 0..m : k + l <= 0 => k = 0
    OBVIOUS
  <2> QED
    BY <1>2, <2>1
<1>4. ASSUME NEW n \in Nat, n \in T
      PROVE  n + 1 \in T
  <2> SUFFICES ASSUME NEW k \in 0..Len(a), NEW l \in 0..m, k + l <= n + 1, k # 0, l # 0
               PROVE  At(r, k, l) = At(s, k, l)
    BY <1>2
  <2>1. PICK p \in 0..Len(a), q \in 0..m : k = p + 1 /\ l = q + 1
    BY <1>0
  <2>2. At(r, p, l) = At(s, p, l) /\ At(r, k, q) = At(s, k, q) /\ At(r, p, q) = At(s, p, q)
    <3>1. p + l <= n /\ k + q <= n /\ p + q <= n
      BY <2>1
    <3> QED
      BY <1>4, <3>1
  <2>3. y[l] = z[l]
    BY <2>1
  <2>4. Cost(a[k], y[l]) = Cost(a[k], z[l])
    BY <2>3
  <2>5. l \in 0..Len(y) /\ q \in 0..Len(y) /\ l \in 0..Len(z) /\ q \in 0..Len(z)
    BY <1>1
  <2>6. Cell(r, k, l, p, q, Cost(a[k], y[l]))
    BY <1>0, <2>1, <2>5, TableAt
  <2>7. Cell(s, k, l, p, q, Cost(a[k], z[l]))
    BY <1>0, <2>1, <2>5, TableAt
  <2> QED
    BY <2>2, <2>4, <2>6, <2>7 DEF Cell
<1>5. \A n \in Nat : n \in T
  <2> HIDE DEF T
  <2> QED
    BY <1>3, <1>4, Induction
<1>6. PICK n \in Nat : n = i + j
  OBVIOUS
<1>7. n \in T
  BY <1>5
<1> QED
  BY <1>6, <1>7

\* An entry of one table and an entry of another, at most one apart.
Beside(v, w) == v <= w + 1 /\ w <= v + 1

\* Entries that are made in the same way from entries beside one another.
LEMMA CellsBeside ==
  ASSUME NEW r, NEW i, NEW j, NEW p, NEW q, NEW c, Cell(r, i, j, p, q, c),
         NEW s, NEW k, NEW l, NEW m, NEW n, NEW d, Cell(s, k, l, m, n, d),
         Beside(At(r, p, j), At(s, m, l)), Beside(At(r, i, q), At(s, k, n)),
         Beside(At(r, p, q), At(s, m, n)), c = d \/ At(r, p, q) = At(s, m, n)
  PROVE  Beside(At(r, i, j), At(s, k, l))
<1>1. PICK x \in Nat, up \in Nat, left \in Nat, diagonal \in Nat :
         x = At(r, i, j) /\ up = At(r, p, j) /\ left = At(r, i, q) /\ diagonal = At(r, p, q)
  BY DEF Cell
<1>2. PICK y \in Nat, above \in Nat, before \in Nat, corner \in Nat :
         y = At(s, k, l) /\ above = At(s, m, l) /\ before = At(s, k, n) /\ corner = At(s, m, n)
  BY DEF Cell
<1>3. c \in 0..1 /\ d \in 0..1
  BY DEF Cell
<1>4. /\ x <= up + 1 /\ x <= left + 1 /\ x <= diagonal + c
      /\ x = up + 1 \/ x = left + 1 \/ x = diagonal + c
  BY <1>1 DEF Cell
<1>5. /\ y <= above + 1 /\ y <= before + 1 /\ y <= corner + d
      /\ y = above + 1 \/ y = before + 1 \/ y = corner + d
  BY <1>2 DEF Cell
<1>6. /\ up <= above + 1 /\ above <= up + 1 /\ left <= before + 1 /\ before <= left + 1
      /\ diagonal <= corner + 1 /\ corner <= diagonal + 1 /\ (c = d \/ diagonal = corner)
  BY <1>1, <1>2 DEF Beside
<1>7. x <= y + 1 /\ y <= x + 1
  BY <1>3, <1>4, <1>5, <1>6
<1> QED
  BY <1>1, <1>2, <1>7 DEF Beside

\* A letter put in moves the columns after it by one, and the entries by at most one.
LEMMA InsertionMoves ==
  ASSUME NEW a \in Seq(Letters), NEW y \in Seq(Letters), NEW z \in Seq(Letters),
         NEW r, NEW s, Table(r, a, y), Table(s, a, z), NEW g \in 1..Len(z), Inserts(y, z, g)
  PROVE  Beside(At(r, Len(a), Len(y)), At(s, Len(a), Len(z)))
<1>0. Len(a) \in Nat /\ Len(y) \in Nat /\ Len(z) \in Nat /\ Len(z) = Len(y) + 1
  BY LenProperties DEF Inserts
<1>1. PICK m \in 0..Len(y) : g = m + 1 /\ m \in 0..Len(z)
  BY <1>0
<1> DEFINE T == {n \in Nat : \A k \in 0..Len(a), l \in m..Len(y), h \in 0..Len(z) :
                    k + l <= n /\ h = l + 1 => Beside(At(r, k, l), At(s, k, h))}
<1>2. \A l \in m..Len(y) : l \in 0..Len(y)
  BY <1>0
<1>3. ASSUME NEW k \in 0..Len(a), NEW l \in m..Len(y), NEW h \in 0..Len(z), h = l + 1, k = 0 \/ l = m
      PROVE  Beside(At(r, k, l), At(s, k, h))
  <2>1. CASE k = 0
    <3>1. At(r, k, l) = l /\ At(s, k, h) = h
      BY <1>2, <2>1 DEF Table
    <3> QED
      BY <1>0, <1>3, <3>1 DEF Beside
  <2>2. CASE l = m
    <3>1. \A e \in 1..m : y[e] = z[e]
      BY <1>0, <1>1 DEF Inserts
    <3>2. m \in 0..m
      OBVIOUS
    <3>3. At(r, k, m) = At(s, k, m)
      BY <1>1, <3>1, <3>2, SameColumns
    <3>4. h = m + 1
      BY <1>3, <2>2
    <3>5. At(s, k, h) <= At(s, k, m) + 1 /\ At(s, k, m) <= At(s, k, h) + 1
      BY <1>1, <3>4, NextColumn
    <3> QED
      BY <2>2, <3>3, <3>5 DEF Beside
  <2> QED
    BY <1>3, <2>1, <2>2
<1>4. 0 \in T
  <2>1. \A k \in 0..Len(a), l \in m..Len(y) : k + l <= 0 => k = 0
    OBVIOUS
  <2> QED
    BY <1>3, <2>1
<1>5. ASSUME NEW n \in Nat, n \in T
      PROVE  n + 1 \in T
  <2> SUFFICES ASSUME NEW k \in 0..Len(a), NEW l \in m..Len(y), NEW h \in 0..Len(z),
                      k + l <= n + 1, h = l + 1, k # 0, l # m
               PROVE  Beside(At(r, k, l), At(s, k, h))
    BY <1>3
  <2>1. PICK p \in 0..Len(a), q \in m..Len(y) : k = p + 1 /\ l = q + 1
    BY <1>0
  <2>2. l \in 0..Len(y) /\ q \in 0..Len(y) /\ l \in 0..Len(z)
    BY <1>0, <1>2
  <2>3. Beside(At(r, p, l), At(s, p, h)) /\ Beside(At(r, k, q), At(s, k, l)) /\ Beside(At(r, p, q), At(s, p, l))
    <3>1. p + l <= n /\ k + q <= n /\ p + q <= n
      BY <2>1
    <3> QED
      BY <1>5, <2>1, <2>2, <3>1
  <2>4. y[l] = z[h]
    <3>1. l \in 1..Len(y) /\ ~(l < g)
      BY <1>0, <1>1, <2>1
    <3> QED
      BY <3>1 DEF Inserts
  <2>5. Cost(a[k], y[l]) = Cost(a[k], z[h])
    BY <2>4
  <2>6. Cell(r, k, l, p, q, Cost(a[k], y[l]))
    BY <1>0, <2>1, <2>2, TableAt
  <2>7. Cell(s, k, h, p, l, Cost(a[k], z[h]))
    BY <1>0, <2>1, <2>2, TableAt
  <2> QED
    BY <2>3, <2>5, <2>6, <2>7, CellsBeside
<1>6. \A n \in Nat : n \in T
  <2> HIDE DEF T
  <2> QED
    BY <1>4, <1>5, Induction
<1>7. PICK n \in Nat : n = Len(a) + Len(y)
  BY <1>0
<1>8. n \in T
  BY <1>6
<1>9. PICK k \in 0..Len(a), l \in m..Len(y), h \in 0..Len(z) :
         k = Len(a) /\ l = Len(y) /\ h = Len(z) /\ k + l <= n /\ h = l + 1
  BY <1>0, <1>7
<1>10. Beside(At(r, k, l), At(s, k, h))
  BY <1>8, <1>9
<1> QED
  BY <1>9, <1>10

\* A letter replaced moves the entries by at most one.
LEMMA ReplacementMoves ==
  ASSUME NEW a \in Seq(Letters), NEW y \in Seq(Letters), NEW z \in Seq(Letters),
         NEW r, NEW s, Table(r, a, y), Table(s, a, z), NEW g \in 1..Len(y), Replaces(y, z, g)
  PROVE  Beside(At(r, Len(a), Len(y)), At(s, Len(a), Len(z)))
<1>0. Len(a) \in Nat /\ Len(y) \in Nat /\ Len(z) = Len(y)
  BY LenProperties DEF Replaces
<1>1. PICK m \in 0..Len(y) : g = m + 1 /\ m \in 0..Len(z)
  BY <1>0
<1> DEFINE T == {n \in Nat : \A k \in 0..Len(a), l \in 0..Len(y) :
                    k + l <= n => Beside(At(r, k, l), At(s, k, l))}
<1>2. ASSUME NEW k \in 0..Len(a), NEW l \in 0..Len(y), k = 0 \/ l < g
      PROVE  At(r, k, l) = At(s, k, l)
  <2>1. CASE k = 0
    BY <1>0, <2>1 DEF Table
  <2>2. CASE l < g
    <3>1. \A e \in 1..m : y[e] = z[e]
      BY <1>0, <1>1 DEF Replaces
    <3>2. l \in 0..m
      BY <1>1, <2>2
    <3> QED
      BY <1>1, <3>1, <3>2, SameColumns
  <2> QED
    BY <1>2, <2>1, <2>2
<1>3. \A k \in 0..Len(a), l \in 0..Len(y) : At(r, k, l) \in Nat /\ At(s, k, l) \in Nat
  BY <1>0 DEF Table
<1>4. 0 \in T
  <2>1. \A k \in 0..Len(a), l \in 0..Len(y) : k + l <= 0 => k = 0
    OBVIOUS
  <2> QED
    BY <1>2, <1>3, <2>1 DEF Beside
<1>5. ASSUME NEW n \in Nat, n \in T
      PROVE  n + 1 \in T
  <2> SUFFICES ASSUME NEW k \in 0..Len(a), NEW l \in 0..Len(y), k + l <= n + 1
               PROVE  Beside(At(r, k, l), At(s, k, l))
    OBVIOUS
  <2>1. CASE k = 0 \/ l < g
    BY <1>2, <1>3, <2>1 DEF Beside
  <2>2. CASE ~(k = 0 \/ l < g)
    <3>1. PICK p \in 0..Len(a), q \in 0..Len(y) : k = p + 1 /\ l = q + 1
      BY <1>0, <1>1, <2>2
    <3>2. l \in 0..Len(z) /\ q \in 0..Len(z)
      BY <1>0
    <3>3. Beside(At(r, p, l), At(s, p, l)) /\ Beside(At(r, k, q), At(s, k, q)) /\ Beside(At(r, p, q), At(s, p, q))
      <4>1. p + l <= n /\ k + q <= n /\ p + q <= n
        BY <3>1
      <4> QED
        BY <1>5, <4>1
\* The replaced letter costs at most one, after columns that are the same.
    <3>4. \/ Cost(a[k], y[l]) = Cost(a[k], z[l])
          \/ At(r, p, q) = At(s, p, q)
      <4>1. CASE l = g
        <5>1. q < g
          BY <3>1, <4>1
        <5> QED
          BY <1>2, <5>1
      <4>2. CASE l # g
        <5>1. l \in 1..Len(y)
          BY <3>1
        <5>2. y[l] = z[l]
          BY <4>2, <5>1 DEF Replaces
        <5> QED
          BY <5>2
      <4> QED
        BY <4>1, <4>2
    <3>5. Cell(r, k, l, p, q, Cost(a[k], y[l]))
      BY <1>0, <3>1, TableAt
    <3>6. Cell(s, k, l, p, q, Cost(a[k], z[l]))
      BY <1>0, <3>1, <3>2, TableAt
    <3> QED
      BY <3>3, <3>4, <3>5, <3>6, CellsBeside
  <2> QED
    BY <2>1, <2>2
<1>6. \A n \in Nat : n \in T
  <2> HIDE DEF T
  <2> QED
    BY <1>4, <1>5, Induction
<1>7. PICK n \in Nat : n = Len(a) + Len(y)
  BY <1>0
<1>8. n \in T
  BY <1>6
<1>9. PICK k \in 0..Len(a), l \in 0..Len(y) : k = Len(a) /\ l = Len(y) /\ l = Len(z) /\ k + l <= n
  BY <1>0, <1>7
<1>10. Beside(At(r, k, l), At(s, k, l))
  BY <1>8, <1>9
<1> QED
  BY <1>9, <1>10

\* One edit moves a distance by at most one.
LEMMA EditMoves ==
  ASSUME NEW a \in Seq(Letters), NEW y \in Seq(Letters), NEW z \in Seq(Letters),
         NEW r, NEW s, Table(r, a, y), Table(s, a, z), OneEdit(y, z)
  PROVE  Beside(At(r, Len(a), Len(y)), At(s, Len(a), Len(z)))
<1>0. Len(a) \in Nat /\ Len(y) \in Nat /\ Len(z) \in Nat
  BY LenProperties
<1>1. CASE y = z
  <2>1. At(r, Len(a), Len(y)) = At(s, Len(a), Len(y))
    <3>1. PICK i \in 0..Len(a), m \in 0..Len(y) : i = Len(a) /\ m = Len(y) /\ m \in 0..m
      BY <1>0
    <3>2. At(r, i, m) = At(s, i, m)
      BY <1>1, <3>1, SameColumns
    <3> QED
      BY <3>1, <3>2
  <2>2. PICK i \in 0..Len(a), m \in 0..Len(y) : i = Len(a) /\ m = Len(y)
    BY <1>0
  <2>3. At(r, i, m) \in Nat
    BY DEF Table
  <2> QED
    BY <1>1, <2>1, <2>2, <2>3 DEF Beside
<1>2. CASE \E p \in 1..Len(z) : Inserts(y, z, p)
  BY <1>2, InsertionMoves
<1>3. CASE \E p \in 1..Len(y) : Inserts(z, y, p)
  <2>1. Beside(At(s, Len(a), Len(z)), At(r, Len(a), Len(y)))
    BY <1>3, InsertionMoves
  <2> QED
    BY <2>1 DEF Beside
<1>4. CASE \E p \in 1..Len(y) : Replaces(y, z, p)
  BY <1>4, ReplacementMoves
<1> QED
  BY <1>1, <1>2, <1>3, <1>4 DEF OneEdit

\* The distance of two names is at most two, at most one, or none if and only if
\* so many edits lead from the one to the other.
LEMMA DistanceCountsEdits ==
  ASSUME NEW a \in Seq(Letters), NEW b \in Seq(Letters)
  PROVE  /\ Levenshtein(a, b) \in Nat
         /\ Levenshtein(a, b) = 0 <=> a = b
         /\ Levenshtein(a, b) <= 1 <=> OneEdit(a, b)
         /\ Levenshtein(a, b) <= 2 <=> Near(2, a, b)
<1>0. Len(a) \in Nat /\ Len(b) \in Nat
  BY LenProperties
<1>1. PICK r : Table(r, a, b) /\ Levenshtein(a, b) = At(r, Len(a), Len(b))
  BY <1>0, LevenshteinTable
<1>2. Levenshtein(a, b) \in Nat
  <2>1. PICK i \in 0..Len(a), j \in 0..Len(b) : i = Len(a) /\ j = Len(b)
    BY <1>0
  <2>2. At(r, i, j) \in Nat
    BY <1>1 DEF Table
  <2> QED
    BY <1>1, <2>1, <2>2
<1>3. \A k \in 0..2 : Levenshtein(a, b) <= k => Near(k, a, b)
  BY <1>1, NoNearer
<1>4. a = b => Levenshtein(a, b) = 0
  BY <1>1, NoDistanceToSelf
<1>5. \A z \in Seq(Letters) : OneEdit(a, z) => Levenshtein(a, z) \in Nat /\ Levenshtein(a, z) <= 1
  <2> SUFFICES ASSUME NEW z \in Seq(Letters), OneEdit(a, z)
               PROVE  Levenshtein(a, z) \in Nat /\ Levenshtein(a, z) <= 1
    OBVIOUS
  <2>1. PICK t : Table(t, a, a)
    BY <1>0, LevenshteinTable
  <2>2. Len(z) \in Nat
    BY LenProperties
  <2>3. PICK s : Table(s, a, z) /\ Levenshtein(a, z) = At(s, Len(a), Len(z))
    BY <1>0, <2>2, LevenshteinTable
  <2>4. At(t, Len(a), Len(a)) = 0
    BY <2>1, NoDistanceToSelf
  <2>5. Beside(At(t, Len(a), Len(a)), At(s, Len(a), Len(z)))
    BY <2>1, <2>3, EditMoves
  <2>6. PICK i \in 0..Len(a), j \in 0..Len(z) : i = Len(a) /\ j = Len(z)
    BY <1>0, <2>2
  <2>7. At(s, i, j) \in Nat
    BY <2>3 DEF Table
  <2> QED
    BY <2>3, <2>4, <2>5, <2>6, <2>7 DEF Beside
<1>6. ASSUME Near(2, a, b)
      PROVE  Levenshtein(a, b) <= 2
  <2>1. PICK z \in Seq(Letters) : OneEdit(a, z) /\ OneEdit(z, b)
    BY <1>6 DEF Near
  <2>2. Len(z) \in Nat
    BY LenProperties
  <2>3. PICK s : Table(s, a, z) /\ Levenshtein(a, z) = At(s, Len(a), Len(z))
    BY <1>0, <2>2, LevenshteinTable
  <2>4. Beside(At(s, Len(a), Len(z)), At(r, Len(a), Len(b)))
    BY <1>1, <2>1, <2>3, EditMoves
  <2>5. Levenshtein(a, z) \in Nat /\ Levenshtein(a, z) <= 1
    BY <1>5, <2>1
  <2> QED
    BY <1>1, <1>2, <2>3, <2>4, <2>5 DEF Beside
<1>7. Levenshtein(a, b) = 0 => a = b
  BY <1>2, <1>3 DEF Near
<1>8. Levenshtein(a, b) <= 1 => OneEdit(a, b)
  <2>1. 1 \in 0..2 /\ 1 # 0 /\ 1 # 2
    OBVIOUS
  <2> QED
    BY <1>3, <2>1 DEF Near
<1>9. Levenshtein(a, b) <= 2 => Near(2, a, b)
  BY <1>3
<1> QED
  BY <1>2, <1>4, <1>5, <1>6, <1>7, <1>8, <1>9

\* The distance of two names of any lengths (_levenshtein) is at most two if and
\* only if so many edits put in one by one lead from the one to the other, and is
\* their least number.
THEOREM DistanceIsEdits ==
  ASSUME NEW a \in Seq(Letters), NEW b \in Seq(Letters)
  PROVE  /\ Levenshtein(a, b) \in Nat
         /\ Levenshtein(a, b) <= 2 <=> b \in Within2(a)
         /\ b \in Within2(a) => Levenshtein(a, b) = IF b = a THEN 0 ELSE IF b \in Edited(a) THEN 1 ELSE 2
<1>1. OneEdit(a, b) <=> b \in Edited(a)
  BY EditedIsOneEdit, OneEditIsEdited
<1>2. Near(2, a, b) <=> b \in Within2(a)
  <2>1. ASSUME Near(2, a, b)
        PROVE  b \in Within2(a)
    <3>1. PICK z \in Seq(Letters) : OneEdit(a, z) /\ OneEdit(z, b)
      BY <2>1 DEF Near
    <3>2. z \in Edited(a) /\ b \in Edited(z)
      BY <3>1, OneEditIsEdited
    <3> QED
      BY <3>2 DEF Within2
  <2>2. ASSUME b \in Within2(a)
        PROVE  Near(2, a, b)
    <3>1. PICK z \in Edited(a) : b \in Edited(z)
      BY <2>2 DEF Within2
    <3>2. z \in Seq(Letters) /\ OneEdit(a, z)
      BY EditedIsOneEdit
    <3>3. OneEdit(z, b)
      BY <3>1, <3>2, EditedIsOneEdit
    <3> QED
      BY <3>2, <3>3 DEF Near
  <2> QED
    BY <2>1, <2>2
<1>3. /\ Levenshtein(a, b) \in Nat
      /\ Levenshtein(a, b) = 0 <=> a = b
      /\ Levenshtein(a, b) <= 1 <=> OneEdit(a, b)
      /\ Levenshtein(a, b) <= 2 <=> Near(2, a, b)
  BY DistanceCountsEdits
<1> QED
  BY <1>1, <1>2, <1>3

\* Normalisation leaves the separators out.
LEMMA NormalizeKeeps ==
  ASSUME NEW name, Len(name) \in Nat
  PROVE  \E kept : /\ kept[0] = <<>>
                   /\ \A i \in 1..Len(name) :
                         kept[i] = IF name[i] = Separator THEN kept[i - 1]
                                   ELSE Append(kept[i - 1], name[i])
                   /\ Normalize(name) = kept[Len(name)]
<1> DEFINE S == {name[i] : i \in 1..Len(name)}
           X == Seq(S)
           Next(i, x) == IF name[i] = Separator THEN x ELSE Append(x, name[i])
           F == [i \in 1..Len(name) |-> [x \in X |-> Next(i, x)]]
           IsKept(k) == k = [i \in 0..Len(name) |-> IF i = 0 THEN <<>> ELSE Next(i, k[i - 1])]
<1>1. \A i \in 1..Len(name), x \in X : Next(i, x) \in X
  OBVIOUS
<1>2. <<>> \in X
  OBVIOUS
<1> HIDE DEF X
<1>3. PICK h \in [0..Len(name) -> X] : Iterates(h, Len(name), <<>>, F)
  <2>1. F \in [1..Len(name) -> [X -> X]]
    <3> HIDE DEF Next
    <3> QED
      BY <1>1
  <2> HIDE DEF F
  <2> QED
    BY <1>2, <2>1, Iterated
<1> HIDE DEF Next
<1>4. h[0] = <<>> /\ \A i \in 1..Len(name) : h[i] = Next(i, h[i - 1])
  <2>1. \A i \in 1..Len(name) : i - 1 \in 0..Len(name)
    OBVIOUS
  <2> QED
    BY <1>3, <2>1 DEF Iterates
<1>5. IsKept(h)
  <2>1. \A i \in 0..Len(name) : h[i] = IF i = 0 THEN <<>> ELSE Next(i, h[i - 1])
    BY <1>4
  <2>2. h = [i \in 0..Len(name) |-> h[i]]
    OBVIOUS
  <2> QED
    BY <2>1, <2>2
<1> DEFINE kept == CHOOSE k : IsKept(k)
<1>6. IsKept(kept)
  <2> HIDE DEF IsKept
  <2> QED
    BY <1>5
<1>7. Normalize(name) = kept[Len(name)]
  BY Zenon DEF Normalize, Next
<1> HIDE DEF kept
<1>8. kept[0] = <<>> /\ \A i \in 1..Len(name) : kept[i] = Next(i, kept[i - 1])
  BY <1>6
<1> QED
  BY Zenon, <1>7, <1>8 DEF Next

LEMMA NormalizeType ==
  ASSUME NEW name \in Seq(Letters \cup {Separator})
  PROVE  Normalize(name) \in Seq(Letters)
<1>0. Len(name) \in Nat /\ \A i \in 1..Len(name) : name[i] \in Letters \cup {Separator}
  BY LenProperties, ElementOfSeq
<1>1. PICK kept : /\ kept[0] = <<>>
                  /\ \A i \in 1..Len(name) :
                        kept[i] = IF name[i] = Separator THEN kept[i - 1]
                                  ELSE Append(kept[i - 1], name[i])
                  /\ Normalize(name) = kept[Len(name)]
  BY <1>0, NormalizeKeeps
<1> DEFINE T == {n \in Nat : n <= Len(name) => kept[n] \in Seq(Letters)}
<1>2. 0 \in T
  BY <1>1, EmptySeq
<1>3. ASSUME NEW n \in Nat, n \in T
      PROVE  n + 1 \in T
  <2> SUFFICES ASSUME n + 1 <= Len(name) PROVE kept[n + 1] \in Seq(Letters)
    OBVIOUS
  <2>1. PICK i \in 1..Len(name) : i = n + 1 /\ i - 1 = n
    BY <1>0
  <2>2. kept[i] = IF name[i] = Separator THEN kept[n] ELSE Append(kept[n], name[i])
    BY <1>1, <2>1
  <2>3. kept[n] \in Seq(Letters)
    BY <1>0, <1>3
  <2>4. name[i] # Separator => name[i] \in Letters
    BY <1>0
  <2>5. kept[i] \in Seq(Letters)
    BY <2>2, <2>3, <2>4, AppendProperties
  <2> QED
    BY <2>1, <2>5
<1>4. \A n \in Nat : n \in T
  <2> HIDE DEF T
  <2> QED
    BY <1>2, <1>3, Induction
<1> QED
  BY <1>0, <1>1, <1>4

LEMMA NormalizeLetters ==
  ASSUME NEW name \in Seq(Letters), Separator \notin Letters
  PROVE  Normalize(name) = name
<1>0. Len(name) \in Nat /\ \A i \in 1..Len(name) : name[i] \in Letters
  BY LenProperties, ElementOfSeq
<1>1. PICK kept : /\ kept[0] = <<>>
                  /\ \A i \in 1..Len(name) :
                        kept[i] = IF name[i] = Separator THEN kept[i - 1]
                                  ELSE Append(kept[i - 1], name[i])
                  /\ Normalize(name) = kept[Len(name)]
  BY <1>0, NormalizeKeeps
<1>2. /\ \A p \in 0..Len(name), i \in 1..Len(name) : i = p + 1 => Pre(name, i) = Append(Pre(name, p), name[i])
      /\ Pre(name, 0) = <<>> /\ Pre(name, Len(name)) = name
  BY PrefixesGrow
<1> DEFINE T == {n \in Nat : n <= Len(name) => kept[n] = Pre(name, n)}
<1>3. 0 \in T
  BY <1>1, <1>2
<1>4. ASSUME NEW n \in Nat, n \in T
      PROVE  n + 1 \in T
  <2> SUFFICES ASSUME n + 1 <= Len(name) PROVE kept[n + 1] = Pre(name, n + 1)
    OBVIOUS
  <2>1. PICK i \in 1..Len(name), p \in 0..Len(name) : i = n + 1 /\ i - 1 = n /\ p = n
    BY <1>0
  <2>2. kept[i] = Append(kept[p], name[i])
    BY <1>0, <1>1, <2>1
  <2>3. kept[p] = Pre(name, p)
    BY <1>0, <1>4, <2>1
  <2>4. Pre(name, i) = Append(Pre(name, p), name[i])
    BY <1>2, <2>1
  <2> QED
    BY <2>1, <2>2, <2>3, <2>4
<1>5. \A n \in Nat : n \in T
  <2> HIDE DEF T
  <2> QED
    BY <1>3, <1>4, Induction
<1> QED
  BY <1>0, <1>1, <1>2, <1>5

LEMMA NearestOfTyposquat ==
  ASSUME NEW c, c.in.name \in Seq(Letters), Len(c.in.popular) \in Nat,
         \A i \in 1..Len(c.in.popular) : c.in.popular[i] \in Seq(Letters \cup {Separator}),
         c.out = Typosquat(c.in.name, c.in.popular)
  PROVE  LET own == c.in.name
             popular == [i \in 1..Len(c.in.popular) |-> Normalize(c.in.popular[i])]
             near == {i \in 1..Len(popular) : popular[i] \in Within2(own)}
             edits == [i \in near |-> IF popular[i] = own THEN 0
                                      ELSE IF popular[i] \in Edited(own) THEN 1 ELSE 2]
             same == \E i \in near : edits[i] = 0
             place == c.out.place
         IN  /\ c.out.exact <=> same
             /\ place # 0 <=> ~same /\ near # {}
             /\ place # 0 =>
                   /\ place \in near /\ c.out.distance = edits[place]
                   /\ \A i \in near : edits[i] > edits[place] \/ (edits[i] = edits[place] /\ i >= place)
<1> DEFINE own == c.in.name
           n == Len(c.in.popular)
           popular == [i \in 1..n |-> Normalize(c.in.popular[i])]
           near == {i \in 1..Len(popular) : popular[i] \in Within2(own)}
           edits == [i \in near |-> IF popular[i] = own THEN 0
                                    ELSE IF popular[i] \in Edited(own) THEN 1 ELSE 2]
           same == \E i \in near : edits[i] = 0
           place == c.out.place
           distance == [i \in 1..n |-> Levenshtein(own, Normalize(c.in.popular[i]))]
           close == {i \in 1..n : distance[i] <= 2}
           nearest == {i \in close : \A k \in close : distance[i] <= distance[k]}
<1>1. Len(popular) = n
  OBVIOUS
<1>2. \A i \in 1..n : popular[i] \in Seq(Letters)
  BY NormalizeType
<1>3. Normalize(own) = own
  BY LettersAssumption, NormalizeLetters
<1>4. c.out = IF \E i \in close : distance[i] = 0 THEN [exact |-> TRUE, place |-> 0, distance |-> 0]
              ELSE IF close = {} THEN NoCandidate
              ELSE [exact |-> FALSE, place |-> Least(nearest), distance |-> distance[Least(nearest)]]
  BY Zenon, <1>3 DEF Typosquat
<1>5. ASSUME NEW i \in 1..n
      PROVE  /\ distance[i] \in Nat
             /\ i \in close <=> i \in near
             /\ i \in near => distance[i] = edits[i]
  <2>1. PICK b \in Seq(Letters) : b = popular[i]
    BY <1>2
  <2>2. /\ Levenshtein(own, b) \in Nat
        /\ Levenshtein(own, b) <= 2 <=> b \in Within2(own)
        /\ b \in Within2(own) =>
              Levenshtein(own, b) = IF b = own THEN 0 ELSE IF b \in Edited(own) THEN 1 ELSE 2
    BY DistanceIsEdits
  <2>3. distance[i] = Levenshtein(own, b)
    BY <2>1
  <2>4. i \in near <=> b \in Within2(own)
    BY <1>1, <2>1
  <2>5. i \in near => edits[i] = IF b = own THEN 0 ELSE IF b \in Edited(own) THEN 1 ELSE 2
    BY <2>1
  <2>6. i \in close <=> Levenshtein(own, b) <= 2
    BY <2>3
  <2> HIDE DEF distance, near, edits, close
  <2> QED
    BY <2>2, <2>3, <2>4, <2>5, <2>6
<1>6. close = near /\ close \subseteq 1..n
  BY <1>1, <1>5
<1> HIDE DEF near, edits, distance, own, popular
<1>7. (\E i \in close : distance[i] = 0) <=> same
  BY <1>5, <1>6
<1>8. CASE same
  <2>0. c.out = [exact |-> TRUE, place |-> 0, distance |-> 0]
    BY Zenon, <1>4, <1>7, <1>8
  <2>1. c.out.exact = TRUE /\ place = 0
    BY <2>0
  <2> QED
    BY <1>8, <2>1 DEF own, popular, near, edits
<1>9. CASE ~same /\ near = {}
  <2>1. c.out.exact = FALSE /\ place = 0
    BY <1>4, <1>6, <1>7, <1>9 DEF NoCandidate
  <2> QED
    BY <1>9, <2>1 DEF own, popular, near, edits
<1>10. CASE ~same /\ near # {}
  <2>1. PICK m \in nearest : \A k \in nearest : m <= k
    <3> DEFINE D == {distance[i] : i \in close}
    <3>1. D \in SUBSET Nat /\ D # {}
      BY <1>5, <1>6, <1>10
    <3>2. PICK d \in D : \A e \in D : d <= e
      <4> HIDE DEF D
      <4> QED
        BY <3>1, LeastExists
    <3>3. nearest \in SUBSET Nat /\ nearest # {}
      BY <1>6, <3>2
    <3> HIDE DEF nearest
    <3> QED
      BY <3>3, LeastExists
  <2>2. \A k \in nearest : k \in Nat
    BY <1>6
  <2>3. Least(nearest) = m
    <3> HIDE DEF nearest
    <3>1. \A k \in nearest : (\A l \in nearest : k <= l) => k = m
      BY <2>1, <2>2
    <3> QED
      BY <2>1, <3>1 DEF Least
  <2>4. c.out = [exact |-> FALSE, place |-> m, distance |-> distance[m]]
    BY <1>4, <1>6, <1>7, <1>10, <2>3
  <2>5. c.out.exact = FALSE /\ place = m /\ c.out.distance = distance[m]
    BY <2>4
  <2>6. m \in near /\ m # 0 /\ distance[m] = edits[m]
    BY <1>5, <1>6, <2>1
  <2>7. ASSUME NEW i \in near
        PROVE  edits[i] > edits[m] \/ (edits[i] = edits[m] /\ i >= m)
    <3>1. i \in close /\ distance[i] = edits[i] /\ distance[i] \in Nat /\ distance[m] \in Nat
      BY <1>5, <1>6, <2>1
    <3>2. distance[m] <= distance[i]
      BY <2>1, <3>1
    <3>3. CASE distance[i] = distance[m]
      <4>1. i \in nearest
        BY <2>1, <3>1, <3>3
      <4>2. m <= i /\ i \in Nat /\ m \in Nat
        BY <2>1, <2>2, <4>1
      <4> QED
        BY <2>6, <3>1, <3>3, <4>2
    <3> QED
      BY <2>6, <3>1, <3>2, <3>3
  <2> QED
    BY <1>10, <2>5, <2>6, <2>7 DEF own, popular, near, edits
<1> QED
  BY <1>8, <1>9, <1>10

-----------------------------------------------------------------------------
(* The name in a ClientHello that is cut short *)

\* What Joined says of two sequences of bytes, for chains of them.
Chained(s, t, st) ==
    /\ st \in Seq(Nat) /\ Len(st) = Len(s) + Len(t)
    /\ \A i \in 1..Len(s) : st[i] = s[i]
    /\ \A k \in 1..Len(t) : st[Len(s) + k] = t[k]

LEMMA JoinedBytes ==
  ASSUME NEW s \in Seq(Nat), NEW t \in Seq(Nat)
  PROVE  \A st : st = s \o t => Chained(s, t, st) /\ st \in Seq(Nat)
<1> SUFFICES ASSUME NEW st, st = s \o t PROVE Chained(s, t, st) /\ st \in Seq(Nat)
  OBVIOUS
<1>1. /\ s \o t \in Seq(Nat) /\ Len(s \o t) = Len(s) + Len(t)
      /\ \A i \in 1..Len(s) : (s \o t)[i] = s[i]
      /\ \A k \in 1..Len(t) : (s \o t)[Len(s) + k] = t[k]
  BY Joined
<1>2. /\ st \in Seq(Nat) /\ Len(st) = Len(s) + Len(t)
      /\ \A i \in 1..Len(s) : st[i] = s[i]
      /\ \A k \in 1..Len(t) : st[Len(s) + k] = t[k]
  BY Zenon, <1>1
<1> QED
  BY Zenon, <1>2 DEF Chained

\* Where the bytes of a ClientHello are.
HelloOf(H, E) ==
    /\ H \in Seq(Nat) /\ Len(H) = 53 + Len(E)
    /\ H[1] = 22 /\ H[6] = 1 /\ H[44] = 1 /\ H[46] = 0 /\ H[47] = 2 /\ H[50] = 1
    /\ H[52] = 0 /\ H[53] = Len(E)
    /\ \A k \in 1..Len(E) : H[53 + k] = E[k]

LEMMA HelloBytes ==
  ASSUME NEW name, NEW before, NEW after, Extensions(name, before, after) \in Seq(Nat)
  PROVE  HelloOf(Hello(name, before, after), Extensions(name, before, after))
<1> DEFINE E == Extensions(name, before, after)
           a == <<22, 3, 1, 0, 0, 1>>
           b == [i \in 1..37 |-> 7]
           c == <<1, 8>>
           d == <<0, 2, 19, 1>>
           e == <<1, 0>>
           f == <<0, Len(E)>>
           ab == a \o b
           ac == ab \o c
           ad == ac \o d
           ae == ad \o e
           af == ae \o f
           H == af \o E
<1>0. E \in Seq(Nat) /\ Len(E) \in Nat
  BY LenProperties
<1> HIDE DEF E
<1>1. a \in Seq(Nat) /\ Len(a) = 6 /\ a[1] = 22 /\ a[6] = 1
  OBVIOUS
<1>2. b \in Seq(Nat) /\ Len(b) = 37
  <2>1. b \in [1..37 -> Nat] /\ 37 \in Nat
    OBVIOUS
  <2>2. b \in Seq(Nat)
    BY <2>1, SeqDef
  <2>3. Len(b) \in Nat /\ DOMAIN b = 1..Len(b) /\ DOMAIN b = 1..37
    BY <2>2, LenProperties
  <2> QED
    BY <2>2, <2>3
<1>3. c \in Seq(Nat) /\ Len(c) = 2 /\ c[1] = 1
  OBVIOUS
<1>4. d \in Seq(Nat) /\ Len(d) = 4 /\ d[1] = 0 /\ d[2] = 2
  OBVIOUS
<1>5. e \in Seq(Nat) /\ Len(e) = 2 /\ e[1] = 1
  OBVIOUS
<1>6. f \in Seq(Nat) /\ Len(f) = 2 /\ f[1] = 0 /\ f[2] = Len(E)
  BY <1>0
<1> HIDE DEF a, b, c, d, e, f
<1>7. Hello(name, before, after) = H
  BY Zenon DEF Hello, E, a, b, c, d, e, f
<1>8. Chained(a, b, ab) /\ ab \in Seq(Nat)
  BY <1>1, <1>2, JoinedBytes DEF Chained
<1> HIDE DEF ab
<1>9. Chained(ab, c, ac) /\ ac \in Seq(Nat)
  BY <1>3, <1>8, JoinedBytes DEF Chained
<1> HIDE DEF ac
<1>10. Chained(ac, d, ad) /\ ad \in Seq(Nat)
  BY <1>4, <1>9, JoinedBytes DEF Chained
<1> HIDE DEF ad
<1>11. Chained(ad, e, ae) /\ ae \in Seq(Nat)
  BY <1>5, <1>10, JoinedBytes DEF Chained
<1> HIDE DEF ae
<1>12. Chained(ae, f, af) /\ af \in Seq(Nat)
  BY <1>6, <1>11, JoinedBytes DEF Chained
<1> HIDE DEF af
<1>13. Chained(af, E, H)
  BY <1>0, <1>12, JoinedBytes
<1> HIDE DEF H
<1>14. /\ Len(ab) = 43 /\ Len(ac) = 45 /\ Len(ad) = 49 /\ Len(ae) = 51 /\ Len(af) = 53
       /\ Len(H) = 53 + Len(E) /\ H \in Seq(Nat)
  BY <1>1, <1>2, <1>3, <1>4, <1>5, <1>6, <1>8, <1>9, <1>10, <1>11, <1>12, <1>13 DEF Chained
<1>15. ab[1] = 22 /\ ab[6] = 1
  BY <1>1, <1>8 DEF Chained
<1>16. ac[1] = 22 /\ ac[6] = 1 /\ ac[44] = 1
  <2>1. 44 = Len(ab) + 1 /\ 1 \in 1..Len(c)
    BY <1>3, <1>14
  <2>2. ac[44] = 1
    BY <1>3, <1>9, <2>1 DEF Chained
  <2> QED
    BY <1>9, <1>14, <1>15, <2>2 DEF Chained
<1>17. ad[1] = 22 /\ ad[6] = 1 /\ ad[44] = 1 /\ ad[46] = 0 /\ ad[47] = 2
  <2>1. 46 = Len(ac) + 1 /\ 1 \in 1..Len(d) /\ 47 = Len(ac) + 2 /\ 2 \in 1..Len(d)
    BY <1>4, <1>14
  <2>2. ad[46] = 0 /\ ad[47] = 2
    BY <1>4, <1>10, <2>1 DEF Chained
  <2> QED
    BY <1>10, <1>14, <1>16, <2>2 DEF Chained
<1>18. ae[1] = 22 /\ ae[6] = 1 /\ ae[44] = 1 /\ ae[46] = 0 /\ ae[47] = 2 /\ ae[50] = 1
  <2>1. 50 = Len(ad) + 1 /\ 1 \in 1..Len(e)
    BY <1>5, <1>14
  <2>2. ae[50] = 1
    BY <1>5, <1>11, <2>1 DEF Chained
  <2> QED
    BY <1>11, <1>14, <1>17, <2>2 DEF Chained
<1>19. /\ af[1] = 22 /\ af[6] = 1 /\ af[44] = 1 /\ af[46] = 0 /\ af[47] = 2 /\ af[50] = 1
       /\ af[52] = 0 /\ af[53] = Len(E)
  <2>1. 52 = Len(ae) + 1 /\ 1 \in 1..Len(f) /\ 53 = Len(ae) + 2 /\ 2 \in 1..Len(f)
    BY <1>6, <1>14
  <2>2. af[52] = 0 /\ af[53] = Len(E)
    BY <1>6, <1>12, <2>1 DEF Chained
  <2> QED
    BY <1>12, <1>14, <1>18, <2>2 DEF Chained
<1>20. \A k \in 1..Len(E) : H[53 + k] = E[k]
  BY <1>13, <1>14 DEF Chained
<1>21. /\ H[1] = 22 /\ H[6] = 1 /\ H[44] = 1 /\ H[46] = 0 /\ H[47] = 2 /\ H[50] = 1
       /\ H[52] = 0 /\ H[53] = Len(E)
  BY <1>13, <1>14, <1>19 DEF Chained
<1>22. HelloOf(H, E)
  BY Zenon, <1>14, <1>20, <1>21 DEF HelloOf
<1> QED
  BY Zenon, <1>7, <1>22 DEF E

\* Where the bytes of its extensions are: b is where the one of the name starts.
OtherPlaced(E, b) == E[b + 1] = 0 /\ E[b + 2] = 5 /\ E[b + 3] = 0 /\ E[b + 4] = 1
NamePlaced(E, b, name) ==
    /\ E[b + 1] = 0 /\ E[b + 2] = 0 /\ E[b + 8] = 0 /\ E[b + 9] = Len(name)
    /\ \A k \in 1..Len(name) : E[b + 9 + k] = name[k]
ExtensionsOf(E, name, before, after, b) ==
    /\ E \in Seq(Nat)
    /\ Len(E) = b + (IF Len(name) = 0 THEN 0 ELSE Len(name) + 9) + (IF after THEN 5 ELSE 0)
    /\ before => OtherPlaced(E, 0)
    /\ Len(name) = 0 /\ after => OtherPlaced(E, b)
    /\ Len(name) # 0 => NamePlaced(E, b, name)

\* The place of the extension of the name.
Place(before) == IF before THEN 5 ELSE 0

LEMMA ExtensionBytes ==
  ASSUME NEW name \in Seq(Nat), NEW before \in BOOLEAN, NEW after \in BOOLEAN
  PROVE  ExtensionsOf(Extensions(name, before, after), name, before, after, Place(before))
<1> DEFINE b == Place(before)
           n == Len(name)
           other == <<0, 5, 0, 1, 9>>
           x == IF before THEN other ELSE <<>>
           h == <<0, 0, 0, n + 5, 0, n + 3, 0, 0, n>>
           y == IF n = 0 THEN <<>> ELSE h \o name
           z == IF after THEN other ELSE <<>>
           xy == x \o y
           E == xy \o z
<1>0. n \in Nat /\ b \in Nat /\ b = IF before THEN 5 ELSE 0
  BY LenProperties DEF Place
<1> HIDE DEF b
<1>1. /\ other \in Seq(Nat) /\ Len(other) = 5
      /\ other[1] = 0 /\ other[2] = 5 /\ other[3] = 0 /\ other[4] = 1
  OBVIOUS
<1>2. <<>> \in Seq(Nat) /\ Len(<<>>) = 0
  OBVIOUS
<1>3. h \in Seq(Nat) /\ Len(h) = 9 /\ h[1] = 0 /\ h[2] = 0 /\ h[8] = 0 /\ h[9] = n
  BY <1>0
<1> HIDE DEF h, other
<1>4. Extensions(name, before, after) = E
  BY DEF Extensions, h, other
<1>5. x \in Seq(Nat) /\ Len(x) = b /\ (before => x = other)
  BY <1>0, <1>1, <1>2
<1>6. z \in Seq(Nat) /\ Len(z) = (IF after THEN 5 ELSE 0) /\ (after => z = other)
  BY <1>1, <1>2
<1>7. /\ y \in Seq(Nat) /\ Len(y) = (IF n = 0 THEN 0 ELSE n + 9)
      /\ n # 0 => /\ y[1] = 0 /\ y[2] = 0 /\ y[8] = 0 /\ y[9] = n
                  /\ \A k \in 1..n : y[9 + k] = name[k]
  <2>1. CASE n = 0
    BY <1>2, <2>1
  <2>2. CASE n # 0
    <3>1. Chained(h, name, h \o name)
      BY <1>3, JoinedBytes
    <3>2. y = h \o name
      BY <2>2
    <3> HIDE DEF y
    <3>3. Chained(h, name, y)
      BY <3>1, <3>2
    <3> QED
      BY <1>0, <1>3, <2>2, <3>3 DEF Chained
  <2> QED
    BY <2>1, <2>2
<1> HIDE DEF x, y, z
<1>8. Chained(x, y, xy) /\ xy \in Seq(Nat)
  BY <1>5, <1>7, JoinedBytes DEF Chained
<1> HIDE DEF xy
<1>9. Chained(xy, z, E)
  BY <1>6, <1>8, JoinedBytes
<1> HIDE DEF E
<1>10. Len(xy) = b + Len(y) /\ Len(y) \in Nat /\ Len(E) = Len(xy) + Len(z) /\ E \in Seq(Nat)
  BY <1>0, <1>5, <1>7, <1>8, <1>9 DEF Chained
<1>11. ASSUME before
       PROVE  E[1] = 0 /\ E[2] = 5 /\ E[3] = 0 /\ E[4] = 1
  <2>1. b = 5
    BY <1>0, <1>11
  <2>2. xy[1] = 0 /\ xy[2] = 5 /\ xy[3] = 0 /\ xy[4] = 1
    BY <1>1, <1>5, <1>8, <1>11, <2>1 DEF Chained
  <2>3. 1 \in 1..Len(xy) /\ 2 \in 1..Len(xy) /\ 3 \in 1..Len(xy) /\ 4 \in 1..Len(xy)
    BY <1>10, <2>1
  <2> QED
    BY <1>9, <2>2, <2>3 DEF Chained
<1>12. ASSUME n = 0, after
       PROVE  E[b + 1] = 0 /\ E[b + 2] = 5 /\ E[b + 3] = 0 /\ E[b + 4] = 1
  <2>1. Len(xy) = b /\ Len(z) = 5 /\ z = other
    BY <1>0, <1>6, <1>7, <1>10, <1>12
  <2> QED
    BY <1>0, <1>1, <1>9, <2>1 DEF Chained
<1>13. ASSUME n # 0
       PROVE  /\ E[b + 1] = 0 /\ E[b + 2] = 0 /\ E[b + 8] = 0 /\ E[b + 9] = n
              /\ \A k \in 1..n : E[b + 9 + k] = name[k]
  <2>1. Len(y) = n + 9
    BY <1>7, <1>13
  <2>2. \A k \in 1..(n + 9) : E[b + k] = y[k]
    <3> SUFFICES ASSUME NEW k \in 1..(n + 9) PROVE E[b + k] = y[k]
      OBVIOUS
    <3>1. b + k \in 1..Len(xy)
      BY <1>0, <1>10, <2>1
    <3>2. xy[b + k] = y[k]
      BY <1>5, <1>8, <2>1 DEF Chained
    <3>3. E[b + k] = xy[b + k]
      BY <1>9, <3>1 DEF Chained
    <3> QED
      BY <3>2, <3>3
  <2>3. \A k \in 1..n : E[b + 9 + k] = name[k]
    <3> SUFFICES ASSUME NEW k \in 1..n PROVE E[b + 9 + k] = name[k]
      OBVIOUS
    <3>1. PICK l \in 1..(n + 9) : l = 9 + k /\ b + l = b + 9 + k
      BY <1>0
    <3>2. E[b + l] = y[l]
      BY <2>2
    <3> QED
      BY <1>7, <1>13, <3>1, <3>2
  <2>4. 1 \in 1..(n + 9) /\ 2 \in 1..(n + 9) /\ 8 \in 1..(n + 9) /\ 9 \in 1..(n + 9)
    BY <1>0
  <2> QED
    BY <1>7, <1>13, <2>2, <2>3, <2>4
<1>14. Len(E) = b + (IF n = 0 THEN 0 ELSE n + 9) + (IF after THEN 5 ELSE 0)
  BY <1>6, <1>7, <1>10
<1>15. before => OtherPlaced(E, 0)
  BY <1>11 DEF OtherPlaced
<1>16. n = 0 /\ after => OtherPlaced(E, b)
  BY Zenon, <1>12 DEF OtherPlaced
<1>17. n # 0 => NamePlaced(E, b, name)
  BY Zenon, <1>13 DEF NamePlaced
<1>18. ExtensionsOf(E, name, before, after, b)
  BY Zenon, <1>10, <1>14, <1>15, <1>16, <1>17 DEF ExtensionsOf
<1> QED
  BY Zenon, <1>4, <1>18 DEF b

\* The walk of NameAmong.
Passes(walk, m, end) ==
    walk = [p \in Positions |->
            IF p + 4 > end \/ ~Within(m, p, 4) THEN NoName
            ELSE IF U16(m, p) = 0 THEN NameAt(m, p + 4)
            ELSE walk[p + 4 + U16(m, p + 2)]]

LEMMA PassesExists ==
  ASSUME NEW m \in Seq(Nat), NEW end
  PROVE  \E walk : Passes(walk, m, end)
<1> DEFINE Next(h, p) ==
              IF p + 4 > end \/ ~Within(m, p, 4) THEN NoName
              ELSE IF U16(m, p) = 0 THEN NameAt(m, p + 4)
              ELSE h[p + 4 + U16(m, p + 2)]
           P(n) == \E h : /\ h = [p \in Positions |-> h[p]]
                          /\ \A p \in Positions : p + n > Len(m) => h[p] = Next(h, p)
<1>0. /\ Len(m) \in Nat
      /\ \A p \in Positions : Within(m, p, 4) => p <= Len(m) /\ m[p + 2] \in Nat /\ m[p + 3] \in Nat
  <2>1. Len(m) \in Nat /\ \A i \in 1..Len(m) : m[i] \in Nat
    BY LenProperties, ElementOfSeq
  <2>2. \A p \in Positions : Within(m, p, 4) =>
            p <= Len(m) /\ p + 2 \in 1..Len(m) /\ p + 3 \in 1..Len(m)
    BY <2>1 DEF Positions, Within
  <2> QED
    BY <2>1, <2>2
<1>1. P(0)
  <2> DEFINE h == [p \in Positions |-> NoName]
  <2>1. h = [p \in Positions |-> h[p]]
    OBVIOUS
  <2>2. \A p \in Positions : p + 0 > Len(m) => ~Within(m, p, 4)
    BY <1>0 DEF Positions
  <2>3. \A p \in Positions : p + 0 > Len(m) => h[p] = Next(h, p)
    BY <2>2
  <2> HIDE DEF h, Next
  <2> QED
    BY <2>1, <2>3
<1>2. ASSUME NEW n \in Nat, P(n)
      PROVE  P(n + 1)
  <2>1. PICK h : /\ h = [p \in Positions |-> h[p]]
                 /\ \A p \in Positions : p + n > Len(m) => h[p] = Next(h, p)
    BY <1>2
  <2> HIDE DEF Next
  <2> DEFINE k == [p \in Positions |-> IF p + n > Len(m) THEN h[p] ELSE Next(h, p)]
  <2>2. \A p \in Positions : k[p] = Next(h, p)
    BY <2>1
  <2>3. \A p \in Positions : p + n > Len(m) => k[p] = h[p]
    OBVIOUS
  <2>4. k = [p \in Positions |-> k[p]]
    OBVIOUS
  <2> HIDE DEF k
  <2>5. ASSUME NEW p \in Positions, p + (n + 1) > Len(m)
        PROVE  Next(h, p) = Next(k, p)
    <3>1. CASE p + 4 > end \/ ~Within(m, p, 4)
      BY <3>1 DEF Next
    <3>2. CASE ~(p + 4 > end \/ ~Within(m, p, 4))
      <4> DEFINE q == p + 4 + U16(m, p + 2)
      <4>1. m[p + 2] \in Nat /\ m[p + 3] \in Nat /\ p \in Nat /\ p > 0
        BY <1>0, <3>2 DEF Positions
      <4>2. U16(m, p + 2) = 256 * m[p + 2] + m[p + 3]
        BY <4>1 DEF U16
      <4>a. PICK u \in Nat : u = U16(m, p + 2)
        <5>1. PICK c \in Nat, d \in Nat : c = m[p + 2] /\ d = m[p + 3]
          BY <4>1
        <5>2. 256 * c + d \in Nat
          OBVIOUS
        <5> QED
          BY <4>2, <5>1, <5>2
      <4>3. q \in Positions /\ q + n > Len(m)
        <5>1. p + 4 + u \in Nat \ {0} /\ p + 4 + u + n > Len(m)
          <6>1. PICK x \in Nat, y \in Nat : x = p /\ y = Len(m)
            BY <1>0, <4>1
          <6>2. x > 0 /\ x + (n + 1) > y
            BY Zenon, <2>5, <4>1, <6>1
          <6>3. x + 4 + u \in Nat \ {0} /\ x + 4 + u + n > y
            BY <6>2
          <6> QED
            BY Zenon, <6>1, <6>3
        <5> QED
          BY <4>a, <5>1 DEF Positions
      <4> HIDE DEF q
      <4>4. k[q] = h[q]
        BY <2>3, <4>3
      <4> QED
        BY <3>2, <4>4 DEF Next, q
    <3> QED
      BY <3>1, <3>2
  <2> QED
    BY <2>2, <2>4, <2>5
<1>3. P(Len(m))
  <2> HIDE DEF P
  <2> DEFINE T == {n \in Nat : P(n)}
  <2>1. 0 \in T /\ \A n \in Nat : n \in T => n + 1 \in T
    BY <1>1, <1>2
  <2>2. \A n \in Nat : n \in T
    BY <2>1, Induction
  <2> QED
    BY <1>0, <2>2
<1>4. PICK h : /\ h = [p \in Positions |-> h[p]]
               /\ \A p \in Positions : p + Len(m) > Len(m) => h[p] = Next(h, p)
  BY <1>3
<1>5. \A p \in Positions : h[p] = Next(h, p)
  <2>1. \A p \in Positions : p + Len(m) > Len(m)
    BY <1>0 DEF Positions
  <2> HIDE DEF Next
  <2> QED
    BY <1>4, <2>1
<1>6. h = [p \in Positions |-> Next(h, p)]
  <2> HIDE DEF Next
  <2> QED
    BY <1>4, <1>5
<1> QED
  BY <1>6 DEF Passes

\* The extensions are read one by one.
LEMMA AmongStep ==
  ASSUME NEW m \in Seq(Nat), NEW end, NEW p \in Positions
  PROVE  NameAmong(m, p, end) =
            IF p + 4 > end \/ ~Within(m, p, 4) THEN NoName
            ELSE IF U16(m, p) = 0 THEN NameAt(m, p + 4)
            ELSE NameAmong(m, p + 4 + U16(m, p + 2), end)
<1> DEFINE it == CHOOSE walk : Passes(walk, m, end)
<1>1. Passes(it, m, end)
  BY PassesExists
<1>2. \A q : NameAmong(m, q, end) = it[q]
  BY DEF NameAmong, Passes
<1> HIDE DEF it
<1>3. it[p] = IF p + 4 > end \/ ~Within(m, p, 4) THEN NoName
              ELSE IF U16(m, p) = 0 THEN NameAt(m, p + 4)
              ELSE it[p + 4 + U16(m, p + 2)]
  BY <1>1 DEF Passes
<1> QED
  BY <1>2, <1>3

\* A part of a message that holds the beginning of a name.
Starts(m, s, t, name) == \A k \in 1..t : s + k <= Len(m) /\ m[s + k] = name[k]
Same(m, s, t, name) == SubSeq(m, s + 1, s + t) = SubSeq(name, 1, t)

LEMMA SamePart ==
  ASSUME NEW m \in Seq(Nat), NEW name \in Seq(Nat), NEW s \in Nat, NEW t \in Nat,
         t <= Len(name), Starts(m, s, t, name)
  PROVE  Same(m, s, t, name)
<1> DEFINE l == SubSeq(m, s + 1, s + t)
           r == SubSeq(name, 1, t)
<1>0. Len(name) \in Nat /\ \A k \in 1..t : s + k <= Len(m) /\ m[s + k] = name[k]
  BY LenProperties DEF Starts
<1>1. r \in Seq(Nat) /\ Len(r) = t /\ \A k \in 1..t : r[k] = name[k]
  <2>1. \A k \in 1..t : k \in 1..Len(name)
    BY <1>0
  <2>2. \A k \in 1..t : name[k] \in Nat
    BY <2>1, ElementOfSeq
  <2>3. 1 \in Int /\ t \in Int
    OBVIOUS
  <2>4. /\ r \in Seq(Nat) /\ Len(r) = IF 1 <= t THEN t - 1 + 1 ELSE 0
        /\ \A k \in 1..(t - 1 + 1) : r[k] = name[1 + k - 1]
    BY <2>2, <2>3, SubSeqProperties
  <2> HIDE DEF r
  <2> QED
    BY <2>4
<1>2. l \in Seq(Nat) /\ Len(l) = t /\ \A k \in 1..t : l[k] = m[s + k]
  <2>1. \A i \in (s + 1)..(s + t) : i \in 1..Len(m)
    <3> SUFFICES ASSUME NEW i \in (s + 1)..(s + t) PROVE i \in 1..Len(m)
      OBVIOUS
    <3>1. PICK k \in 1..t : s + k = i
      <4>1. i - s \in 1..t /\ s + (i - s) = i
        OBVIOUS
      <4> QED
        BY <4>1
    <3> QED
      BY <1>0, <3>1, LenProperties
  <2>2. \A i \in (s + 1)..(s + t) : m[i] \in Nat
    BY <2>1, ElementOfSeq
  <2>3. s + 1 \in Int /\ s + t \in Int
    OBVIOUS
  <2>4. /\ l \in Seq(Nat) /\ Len(l) = IF s + 1 <= s + t THEN (s + t) - (s + 1) + 1 ELSE 0
        /\ \A k \in 1..((s + t) - (s + 1) + 1) : l[k] = m[(s + 1) + k - 1]
    BY <2>2, <2>3, SubSeqProperties
  <2> HIDE DEF l
  <2>5. (s + t) - (s + 1) + 1 = t /\ \A k \in 1..t : (s + 1) + k - 1 = s + k
    OBVIOUS
  <2>6. Len(l) = t
    BY <2>4
  <2> QED
    BY <2>4, <2>5, <2>6
<1> HIDE DEF l, r
<1>3. l = r
  <2>1. Len(l) = Len(r) /\ \A k \in 1..Len(l) : l[k] = r[k]
    BY <1>0, <1>1, <1>2
  <2> QED
    BY Zenon, <1>1, <1>2, <2>1, SeqEqual
<1> QED
  BY Zenon, <1>3 DEF l, r, Same

\* What is left of a message that was cut short.
LEMMA CutMessage ==
  ASSUME NEW h \in Seq(Nat), NEW cut \in 0..Len(h)
  PROVE  LET m == SubSeq(h, 1, cut)
         IN  m \in Seq(Nat) /\ Len(m) = cut /\ \A i \in 1..cut : m[i] = h[i]
<1> DEFINE m == SubSeq(h, 1, cut)
<1>0. Len(h) \in Nat
  BY LenProperties
<1>1. \A k \in 1..cut : k \in 1..Len(h)
  BY <1>0
<1>2. \A k \in 1..cut : h[k] \in Nat
  BY <1>1, ElementOfSeq
<1>3. 1 \in Int /\ cut \in Int /\ cut >= 0
  BY <1>0
<1>4. /\ m \in Seq(Nat) /\ Len(m) = IF 1 <= cut THEN cut - 1 + 1 ELSE 0
      /\ \A k \in 1..(cut - 1 + 1) : m[k] = h[1 + k - 1]
  BY <1>2, <1>3, SubSeqProperties
<1> HIDE DEF m
<1>5. m \in Seq(Nat) /\ Len(m) = cut /\ \A i \in 1..cut : m[i] = h[i]
  BY <1>3, <1>4
<1> QED
  BY <1>5 DEF m

\* The name is looked for behind the fixed part of the message, if that is whole.
LEMMA HelloRead ==
  ASSUME NEW m \in Seq(Nat), NEW e \in Nat,
         \A i \in 1..53 : i <= Len(m) =>
            /\ i \in {1} => m[i] = 22
            /\ i \in {6, 44, 50} => m[i] = 1
            /\ i \in {46, 52} => m[i] = 0
            /\ i = 47 => m[i] = 2
            /\ i = 53 => m[i] = e
  PROVE  HelloName(m) = IF Len(m) < 53 THEN NoName ELSE NameAmong(m, 54, 54 + e)
<1> DEFINE ciphers == 45 + m[44]
           methods == ciphers + 2 + U16(m, ciphers)
           sizeOfExtensions == methods + 1 + m[methods]
           extensions == sizeOfExtensions + 2
<1>0. Len(m) \in Nat
  BY LenProperties
<1>1. HelloName(m) =
        IF /\ Len(m) >= 6 /\ m[1] = 22 /\ m[6] = 1
           /\ Within(m, 44, 1)
           /\ Within(m, ciphers, 2)
           /\ Within(m, methods, 1)
           /\ Within(m, sizeOfExtensions, 2)
        THEN NameAmong(m, extensions, extensions + U16(m, sizeOfExtensions))
        ELSE NoName
  BY Zenon DEF HelloName
<1>2. Len(m) >= 44 => ciphers = 46
  BY <1>0
<1>3. Len(m) >= 47 => methods = 50
  <2>1. Len(m) >= 47 => m[46] = 0 /\ m[47] = 2 /\ ciphers = 46
    BY <1>0, <1>2
  <2> HIDE DEF ciphers
  <2>2. Len(m) >= 47 => U16(m, 46) = 2
    BY <2>1 DEF U16
  <2> QED
    BY <2>1, <2>2
<1>4. Len(m) >= 50 => sizeOfExtensions = 52
  BY <1>0, <1>3
<1>5. Len(m) >= 53 => extensions = 54 /\ U16(m, sizeOfExtensions) = e
  <2>1. Len(m) >= 53 => m[52] = 0 /\ m[53] = e /\ sizeOfExtensions = 52
    BY <1>0, <1>4
  <2> HIDE DEF sizeOfExtensions
  <2>2. Len(m) >= 53 => U16(m, 52) = e
    BY <2>1 DEF U16
  <2> QED
    BY <2>1, <2>2
<1>6. Len(m) >= 6 => m[1] = 22 /\ m[6] = 1
  BY <1>0
<1> HIDE DEF ciphers, methods, sizeOfExtensions, extensions
<1>7. CASE Len(m) < 53
  <2>1. Len(m) < 44 => ~Within(m, 44, 1)
    BY <1>0 DEF Within
  <2>2. Len(m) >= 44 /\ Len(m) < 47 => ~Within(m, ciphers, 2)
    BY <1>0, <1>2 DEF Within
  <2>3. Len(m) >= 47 /\ Len(m) < 50 => ~Within(m, methods, 1)
    BY <1>0, <1>3 DEF Within
  <2>4. Len(m) >= 50 => ~Within(m, sizeOfExtensions, 2)
    BY <1>0, <1>4, <1>7 DEF Within
  <2>5. Len(m) < 44 \/ (Len(m) >= 44 /\ Len(m) < 47) \/ (Len(m) >= 47 /\ Len(m) < 50) \/ Len(m) >= 50
    BY <1>0
  <2> QED
    BY Zenon, <1>1, <1>7, <2>1, <2>2, <2>3, <2>4, <2>5
<1>8. CASE ~(Len(m) < 53)
  <2>1. /\ Len(m) >= 6 /\ ciphers = 46 /\ methods = 50 /\ sizeOfExtensions = 52
        /\ extensions = 54 /\ U16(m, sizeOfExtensions) = e /\ m[1] = 22 /\ m[6] = 1
    BY <1>0, <1>2, <1>3, <1>4, <1>5, <1>6, <1>8
  <2>2. Within(m, 44, 1) /\ Within(m, 46, 2) /\ Within(m, 50, 1) /\ Within(m, 52, 2)
    BY <1>0, <1>8 DEF Within
  <2> QED
    BY Zenon, <1>1, <1>8, <2>1, <2>2
<1> QED
  BY <1>7, <1>8

\* How much there is of a name of n bytes behind the first s, in a message cut at c.
Part(c, s, n) == IF c <= s THEN 0 ELSE IF c - s < n THEN c - s ELSE n

Parts(t, c, s, n) ==
    /\ t \in Nat /\ t <= n
    /\ s <= c => /\ s + t <= c
                 /\ s + t = IF s + n <= c THEN s + n ELSE c

LEMMA WhatIsThere ==
  ASSUME NEW c \in Nat, NEW s \in Nat, NEW n \in Nat, NEW t, t = Part(c, s, n)
  PROVE  Parts(t, c, s, n)
BY DEF Part, Parts

\* The name read of a ClientHello that is cut anywhere (parse_client_hello_sni) is
\* the part of it that is there, for a name of any bytes.
THEOREM CutHello ==
  ASSUME NEW name \in Seq(Nat), NEW before \in BOOLEAN, NEW after \in BOOLEAN,
         NEW cut \in 0..Len(Hello(name, before, after))
  PROVE  HelloName(SubSeq(Hello(name, before, after), 1, cut))
            = SubSeq(name, 1, Part(cut, 62 + Place(before), Len(name)))
<1> DEFINE b == Place(before)
           n == Len(name)
           start == 62 + b
           there == Part(cut, start, n)
           E == Extensions(name, before, after)
           H == Hello(name, before, after)
           m == SubSeq(H, 1, cut)
<1>0. /\ n \in Nat /\ b \in Nat /\ start \in Nat /\ start = 62 + b
      /\ before => b = 5
      /\ ~before => b = 0
  BY LenProperties DEF Place
<1> HIDE DEF b, start
<1>n. there = IF cut <= start THEN 0 ELSE IF cut - start < n THEN cut - start ELSE n
  BY DEF Part
<1> HIDE DEF there
<1>1. /\ E \in Seq(Nat)
      /\ Len(E) = b + (IF n = 0 THEN 0 ELSE n + 9) + (IF after THEN 5 ELSE 0)
      /\ before => E[1] = 0 /\ E[2] = 5 /\ E[3] = 0 /\ E[4] = 1
      /\ n = 0 /\ after => E[b + 1] = 0 /\ E[b + 2] = 5 /\ E[b + 3] = 0 /\ E[b + 4] = 1
      /\ n # 0 => /\ E[b + 1] = 0 /\ E[b + 2] = 0 /\ E[b + 8] = 0 /\ E[b + 9] = n
                  /\ \A k \in 1..n : E[b + 9 + k] = name[k]
  <2>1. ExtensionsOf(E, name, before, after, b)
    BY Zenon, ExtensionBytes DEF b
  <2> HIDE DEF E
  <2>2. /\ E \in Seq(Nat) /\ (before => OtherPlaced(E, 0))
        /\ Len(E) = b + (IF n = 0 THEN 0 ELSE n + 9) + (IF after THEN 5 ELSE 0)
        /\ n = 0 /\ after => OtherPlaced(E, b)
        /\ n # 0 => NamePlaced(E, b, name)
    BY Zenon, <2>1 DEF ExtensionsOf
  <2>3. before => E[1] = 0 /\ E[2] = 5 /\ E[3] = 0 /\ E[4] = 1
    <3>1. 0 + 1 = 1 /\ 0 + 2 = 2 /\ 0 + 3 = 3 /\ 0 + 4 = 4
      OBVIOUS
    <3> QED
      BY Zenon, <2>2, <3>1 DEF OtherPlaced
  <2>4. n = 0 /\ after => E[b + 1] = 0 /\ E[b + 2] = 5 /\ E[b + 3] = 0 /\ E[b + 4] = 1
    BY Zenon, <2>2 DEF OtherPlaced
  <2>5. n # 0 => /\ E[b + 1] = 0 /\ E[b + 2] = 0 /\ E[b + 8] = 0 /\ E[b + 9] = n
                 /\ \A k \in 1..n : E[b + 9 + k] = name[k]
    BY Zenon, <2>2 DEF NamePlaced
  <2> QED
    BY Zenon, <2>2, <2>3, <2>4, <2>5
<1> HIDE DEF E
<1>2. /\ H \in Seq(Nat) /\ Len(H) = 53 + Len(E)
      /\ H[1] = 22 /\ H[6] = 1 /\ H[44] = 1 /\ H[46] = 0 /\ H[47] = 2 /\ H[50] = 1
      /\ H[52] = 0 /\ H[53] = Len(E)
      /\ \A k \in 1..Len(E) : H[53 + k] = E[k]
  <2>1. HelloOf(H, E)
    BY Zenon, <1>1, HelloBytes DEF E
  <2> HIDE DEF H
  <2> QED
    BY Zenon, <2>1 DEF HelloOf
<1>3. cut \in 0..Len(H)
  OBVIOUS
<1> HIDE DEF H
<1>4. m \in Seq(Nat) /\ Len(m) = cut /\ \A i \in 1..cut : m[i] = H[i]
  BY <1>2, <1>3, CutMessage
<1>5. PICK e \in Nat : e = Len(E)
  BY <1>1, LenProperties
<1>d. /\ n # 0 => b + 9 + n <= e
      /\ before => b = 5 /\ 5 <= e
  <2>1. PICK x \in Nat : x = IF n = 0 THEN 0 ELSE n + 9
    BY <1>0
  <2>2. PICK y \in Nat : y = IF after THEN 5 ELSE 0
    OBVIOUS
  <2>3. e = b + x + y
    BY Zenon, <1>1, <1>5, <2>1, <2>2
  <2>4. (n # 0 => x = n + 9) /\ (before => b = 5)
    BY <1>0, <2>1
  <2> QED
    BY <1>0, <2>3, <2>4
<1>6. cut \in Nat /\ cut <= 53 + e
  BY <1>2, <1>3, <1>5
<1> HIDE DEF m
<1>7. HelloName(m) = IF cut < 53 THEN NoName ELSE NameAmong(m, 54, 54 + e)
  <2>1. \A i \in 1..53 : i <= Len(m) =>
            /\ i \in {1} => m[i] = 22
            /\ i \in {6, 44, 50} => m[i] = 1
            /\ i \in {46, 52} => m[i] = 0
            /\ i = 47 => m[i] = 2
            /\ i = 53 => m[i] = e
    <3>1. \A i \in 1..53 : i <= Len(m) => m[i] = H[i]
      BY <1>4, <1>6
    <3> QED
      BY <1>2, <1>5, <3>1
  <2> QED
    BY <1>4, <2>1, HelloRead
<1>8. SubSeq(name, 1, 0) = NoName
  BY SubSeqEmpty DEF NoName
<1>9. \A k \in 1..e : 53 + k <= cut => m[53 + k] = E[k]
  <2> SUFFICES ASSUME NEW k \in 1..e, 53 + k <= cut PROVE m[53 + k] = E[k]
    OBVIOUS
  <2>1. 53 + k \in 1..cut
    BY <1>6
  <2> QED
    BY <1>2, <1>4, <1>5, <2>1
<1>a. \A p \in Positions : NameAmong(m, p, 54 + e) =
            IF p + 4 > 54 + e \/ ~(p + 3 <= cut) THEN NoName
            ELSE IF U16(m, p) = 0 THEN NameAt(m, p + 4)
            ELSE NameAmong(m, p + 4 + U16(m, p + 2), 54 + e)
  <2> SUFFICES ASSUME NEW p \in Positions
               PROVE  NameAmong(m, p, 54 + e) =
                        IF p + 4 > 54 + e \/ ~(p + 3 <= cut) THEN NoName
                        ELSE IF U16(m, p) = 0 THEN NameAt(m, p + 4)
                        ELSE NameAmong(m, p + 4 + U16(m, p + 2), 54 + e)
    OBVIOUS
  <2>1. Within(m, p, 4) <=> p + 3 <= cut
    BY <1>4, <1>6 DEF Within, Positions
  <2>2. NameAmong(m, p, 54 + e) =
            IF p + 4 > 54 + e \/ ~Within(m, p, 4) THEN NoName
            ELSE IF U16(m, p) = 0 THEN NameAt(m, p + 4)
            ELSE NameAmong(m, p + 4 + U16(m, p + 2), 54 + e)
    BY <1>4, AmongStep
  <2> QED
    BY Zenon, <2>1, <2>2
<1>b. cut <= start => there = 0
  BY <1>n
<1>c. /\ there \in Nat /\ there <= n
      /\ start <= cut => /\ start + there <= cut
                         /\ start + there = IF start + n <= cut THEN start + n ELSE cut
  <2>1. n \in Nat /\ cut \in Nat /\ start \in Nat /\ there = Part(cut, start, n)
    BY Zenon, <1>0, <1>6 DEF there
  <2>2. Parts(there, cut, start, n)
    BY Zenon, <2>1, WhatIsThere
  <2> QED
    BY Zenon, <2>2 DEF Parts
\* An extension of five bytes is passed over.
<1>10. ASSUME NEW k \in Nat, k + 5 <= e, 57 + k <= cut,
              E[k + 1] = 0, E[k + 2] = 5, E[k + 3] = 0, E[k + 4] = 1
       PROVE  NameAmong(m, 54 + k, 54 + e) = NameAmong(m, 59 + k, 54 + e)
  <2>1. \A q \in 1..4 : m[53 + k + q] = E[k + q]
    <3> SUFFICES ASSUME NEW q \in 1..4 PROVE m[53 + k + q] = E[k + q]
      OBVIOUS
    <3>1. PICK l \in 1..e : l = k + q /\ 53 + l = 53 + k + q /\ 53 + l <= cut
      BY <1>10
    <3> QED
      BY <1>9, <3>1
  <2>2. PICK p \in Positions : p = 54 + k
    BY DEF Positions
  <2>3. m[p] = 0 /\ m[p + 1] = 5 /\ m[p + 2] = 0 /\ m[p + 3] = 1
    BY <1>10, <2>1, <2>2
  <2>4. U16(m, p) = 5 /\ U16(m, p + 2) = 1
    <3>1. p + 2 + 1 = p + 3
      BY <2>2
    <3> QED
      BY <2>3, <3>1 DEF U16
  <2>5. ~(p + 4 > 54 + e) /\ p + 3 <= cut /\ p + 4 + 1 = 59 + k
    BY <1>5, <1>6, <1>10, <2>2
  <2>6. NameAmong(m, p, 54 + e) = NameAmong(m, p + 4 + 1, 54 + e)
    BY <1>a, <2>4, <2>5
  <2> QED
    BY Zenon, <2>2, <2>5, <2>6
<1>11. ASSUME ~(cut < 53)
       PROVE  \/ NameAmong(m, 54, 54 + e) = NameAmong(m, 54 + b, 54 + e)
              \/ NameAmong(m, 54, 54 + e) = NoName /\ cut <= start
  <2>1. CASE before
    <3>1. b = 5 /\ 0 + 5 <= e /\ 59 + 0 = 54 + b /\ 54 + 0 = 54
      BY <1>d, <2>1
    <3>2. CASE 57 <= cut
      <4>1. /\ 0 \in Nat /\ 57 + 0 <= cut
            /\ E[0 + 1] = 0 /\ E[0 + 2] = 5 /\ E[0 + 3] = 0 /\ E[0 + 4] = 1
        <5>1. 0 + 1 = 1 /\ 0 + 2 = 2 /\ 0 + 3 = 3 /\ 0 + 4 = 4 /\ 57 + 0 = 57
          OBVIOUS
        <5> QED
          BY Zenon, <1>1, <2>1, <3>2, <5>1
      <4>2. NameAmong(m, 54 + 0, 54 + e) = NameAmong(m, 59 + 0, 54 + e)
        BY Zenon, <1>10, <3>1, <4>1
      <4> QED
        BY <3>1, <4>2
    <3>3. CASE ~(57 <= cut)
      <4>1. 54 \in Positions /\ ~(54 + 3 <= cut)
        BY <1>6, <3>3 DEF Positions
      <4>2. NameAmong(m, 54, 54 + e) = NoName
        BY <1>a, <4>1
      <4> QED
        BY <1>0, <1>6, <3>1, <3>3, <4>2
    <3> QED
      BY <3>2, <3>3
  <2>2. CASE ~before
    BY <1>0, <2>2
  <2> QED
    BY <2>1, <2>2
<1>12. ASSUME ~(cut < 53)
       PROVE  NameAmong(m, 54 + b, 54 + e) = SubSeq(name, 1, there)
  <2>1. PICK p \in Positions : p = 54 + b /\ p \in Nat
    BY <1>0 DEF Positions
  <2>2. CASE n = 0
    <3>1. there = 0
      BY <1>c, <2>2
    <3>2. CASE after /\ 57 + b <= cut
      <4>1. b + 5 <= e /\ e = b + 5
        BY <1>0, <1>1, <1>5, <2>2, <3>2
      <4>2. NameAmong(m, 54 + b, 54 + e) = NameAmong(m, 59 + b, 54 + e)
        BY <1>0, <1>1, <1>10, <2>2, <3>2, <4>1
      <4>3. PICK q \in Positions : q = 59 + b /\ q + 4 > 54 + e
        BY <1>0, <4>1 DEF Positions
      <4>4. NameAmong(m, q, 54 + e) = NoName
        BY Zenon, <1>a, <4>3
      <4> QED
        BY <1>8, <3>1, <4>2, <4>3, <4>4
    <3>3. CASE ~(after /\ 57 + b <= cut)
      <4>1. p + 4 > 54 + e \/ ~(p + 3 <= cut)
        BY <1>0, <1>1, <1>5, <1>6, <2>1, <2>2, <3>3
      <4>2. NameAmong(m, p, 54 + e) = NoName
        BY Zenon, <1>a, <4>1
      <4> QED
        BY <1>8, <2>1, <3>1, <4>2
    <3> QED
      BY <3>2, <3>3
  <2>3. CASE n # 0 /\ ~(57 + b <= cut)
    <3>1. ~(p + 3 <= cut) /\ cut <= start
      BY <1>0, <1>6, <2>1, <2>3
    <3>2. NameAmong(m, p, 54 + e) = NoName
      BY Zenon, <1>a, <3>1
    <3> QED
      BY <1>8, <1>b, <2>1, <3>1, <3>2
  <2>4. CASE n # 0 /\ 57 + b <= cut
    <3>1. /\ E[b + 1] = 0 /\ E[b + 2] = 0 /\ E[b + 8] = 0 /\ E[b + 9] = n
          /\ \A k \in 1..n : E[b + 9 + k] = name[k]
      BY <1>1, <2>4
    <3>a. b + 9 + n <= e
      BY <1>d, <2>4
    <3>2. ~(p + 4 > 54 + e) /\ p + 3 <= cut
      BY <1>0, <1>5, <1>6, <2>1, <2>4, <3>a
    <3>3. U16(m, p) = 0
      <4>1. PICK i \in 1..e, k \in 1..e : /\ i = b + 1 /\ k = b + 2
                                          /\ 53 + i = p /\ 53 + k = p + 1 /\ 53 + k <= cut /\ 53 + i <= cut
        BY <1>0, <1>5, <1>6, <2>1, <3>a, <3>2
      <4>2. m[53 + i] = 0 /\ m[53 + k] = 0
        BY <1>9, <3>1, <4>1
      <4>3. m[p] = 0 /\ m[p + 1] = 0
        BY <4>1, <4>2
      <4> QED
        BY <4>3 DEF U16
    <3>4. NameAmong(m, p, 54 + e) = NameAt(m, p + 4)
      BY Zenon, <1>a, <3>2, <3>3
    <3>5. NameAt(m, p + 4) = SubSeq(name, 1, there)
      <4>0. PICK q \in Nat : q = p + 4 /\ q = 58 + b
        BY <1>0, <2>1
      <4>1. CASE ~(start <= cut)
        <5>1. ~Within(m, q + 3, 2) /\ cut <= start
          BY <1>0, <1>4, <1>6, <4>0, <4>1 DEF Within
        <5>2. NameAt(m, q) = NoName
          BY Zenon, <5>1 DEF NameAt
        <5> QED
          BY <1>8, <1>b, <4>0, <5>1, <5>2
      <4>2. CASE start <= cut
        <5>1. Within(m, q + 3, 2)
          BY <1>0, <1>4, <1>6, <4>0, <4>2 DEF Within
        <5>2. U16(m, q + 3) = n
          <6>1. PICK i \in 1..e, k \in 1..e : /\ i = b + 8 /\ k = b + 9
                                              /\ 53 + i = q + 3 /\ 53 + k = q + 3 + 1
                                              /\ 53 + k <= cut /\ 53 + i <= cut
            <7>1. /\ b + 8 \in 1..e /\ b + 9 \in 1..e
                  /\ 53 + (b + 8) = q + 3 /\ 53 + (b + 9) = q + 3 + 1
              BY <1>0, <1>5, <3>a, <4>0
            <7>2. 53 + (b + 9) <= cut /\ 53 + (b + 8) <= cut
              BY <1>0, <1>6, <4>2
            <7> QED
              BY Zenon, <7>1, <7>2
          <6>2. m[53 + i] = 0 /\ m[53 + k] = n
            BY <1>9, <3>1, <6>1
          <6>3. m[q + 3] = 0 /\ m[q + 3 + 1] = n
            BY <6>1, <6>2
          <6> QED
            BY <1>0, <6>3 DEF U16
        <5>3. NameAt(m, q) = Slice(m, q + 5, n)
          BY Zenon, <5>1, <5>2 DEF NameAt
        <5>4. start + 1 = q + 5
          BY <1>0, <4>0
        <5>5. there \in Nat /\ there <= n /\ start + there <= cut
          BY <1>c, <4>2
        <5>6. Slice(m, start + 1, n) = SubSeq(m, start + 1, start + there)
          <6>1. (IF start + 1 + n - 1 <= Len(m) THEN start + 1 + n - 1 ELSE Len(m)) = start + there
            <7>1. start + 1 + n - 1 = start + n /\ Len(m) = cut
              BY <1>0, <1>4
            <7> QED
              BY Zenon, <1>c, <4>2, <7>1
          <6> QED
            BY Zenon, <6>1 DEF Slice
        <5>7. \A k \in 1..there : start + k <= Len(m) /\ m[start + k] = name[k]
          <6> SUFFICES ASSUME NEW k \in 1..there PROVE start + k <= Len(m) /\ m[start + k] = name[k]
            OBVIOUS
          <6>1. k \in 1..n /\ start + k <= cut
            BY <1>0, <5>5
          <6>2. PICK i \in 1..e : i = b + 9 + k /\ 53 + i = start + k /\ 53 + i <= cut
            BY <1>0, <1>5, <3>a, <5>4, <6>1
          <6>3. m[53 + i] = E[i] /\ E[i] = name[k]
            BY <1>9, <3>1, <6>1, <6>2
          <6> QED
            BY <1>4, <6>1, <6>2, <6>3
        <5>8. SubSeq(m, start + 1, start + there) = SubSeq(name, 1, there)
          <6>1. /\ m \in Seq(Nat) /\ start \in Nat /\ there \in Nat /\ there <= Len(name)
                /\ Starts(m, start, there, name)
            BY Zenon, <1>0, <1>4, <5>5, <5>7 DEF Starts
          <6>2. Same(m, start, there, name)
            BY Zenon, <6>1, SamePart
          <6> QED
            BY Zenon, <6>2 DEF Same
        <5> QED
          BY Zenon, <4>0, <5>3, <5>4, <5>6, <5>8
      <4> QED
        BY <4>1, <4>2
    <3> QED
      BY Zenon, <2>1, <3>4, <3>5
  <2> QED
    BY <2>2, <2>3, <2>4
<1>13. HelloName(m) = SubSeq(name, 1, there)
  <2>1. CASE cut < 53
    <3>1. there = 0
      BY <1>0, <1>6, <1>b, <2>1
    <3> QED
      BY <1>7, <1>8, <2>1, <3>1
  <2>2. CASE ~(cut < 53)
    <3>1. CASE NameAmong(m, 54, 54 + e) = NameAmong(m, 54 + b, 54 + e)
      BY <1>7, <1>12, <2>2, <3>1
    <3>2. CASE NameAmong(m, 54, 54 + e) = NoName /\ cut <= start
      BY <1>7, <1>8, <1>b, <2>2, <3>2
    <3> QED
      BY <1>11, <2>2, <3>1, <3>2
  <2> QED
    BY <2>1, <2>2
<1> QED
  BY Zenon, <1>13 DEF m, H, there, start, b

\* The place before a name's first byte, as CutHelloCutsName counts it.
LEMMA NameStarts ==
  ASSUME NEW before \in BOOLEAN
  PROVE  Len(Hello(<<>>, before, FALSE)) + 9 = 62 + Place(before)
<1> DEFINE E == Extensions(<<>>, before, FALSE)
<1>1. <<>> \in Seq(Nat) /\ Len(<<>>) = 0 /\ FALSE \in BOOLEAN
  BY EmptySeq
<1>2. ExtensionsOf(E, <<>>, before, FALSE, Place(before))
  BY Zenon, <1>1, ExtensionBytes
<1> HIDE DEF E
<1>3. E \in Seq(Nat) /\ Len(E) = Place(before) + 0 + 0
  BY <1>1, <1>2 DEF ExtensionsOf
<1>4. HelloOf(Hello(<<>>, before, FALSE), E)
  BY Zenon, <1>3, HelloBytes DEF E
<1>5. Len(Hello(<<>>, before, FALSE)) = 53 + Len(E)
  BY Zenon, <1>4 DEF HelloOf
<1>6. Place(before) \in Nat
  BY DEF Place
<1>7. PICK p \in Nat : p = Place(before)
  BY <1>6
<1>8. Len(E) = p
  BY <1>3, <1>7
<1>9. Len(Hello(<<>>, before, FALSE)) = 53 + p
  BY Zenon, <1>5, <1>8
<1>10. (53 + p) + 9 = 62 + p
  OBVIOUS
<1> QED
  BY Zenon, <1>7, <1>9, <1>10

\* What CutHelloCutsName says of one call.
LEMMA CutOfCall ==
  ASSUME NEW name \in Names \cup {<<>>}, NEW before \in BOOLEAN, NEW after \in BOOLEAN,
         NEW cut \in 0..Len(Hello(name, before, after)),
         call = [fn |-> "hello", in |-> [name |-> name, before |-> before, after |-> after, cut |-> cut],
                 out |-> HelloName(SubSeq(Hello(name, before, after), 1, cut))]
  PROVE  CutHelloCutsName
<1> DEFINE start == Len(Hello(<<>>, before, FALSE)) + 9
           there == IF cut <= start THEN 0
                    ELSE IF cut - start < Len(name) THEN cut - start ELSE Len(name)
<1>1. name \in Seq(Nat)
  <2>1. <<>> \in Seq(Nat) /\ <<97>> \in Seq(Nat) /\ <<98, 46, 97>> \in Seq(Nat)
    OBVIOUS
  <2> QED
    BY Zenon, <2>1 DEF Names
<1>2. start = 62 + Place(before)
  BY Zenon, NameStarts
<1> HIDE DEF start
<1>3. HelloName(SubSeq(Hello(name, before, after), 1, cut)) = SubSeq(name, 1, there)
  <2>1. HelloName(SubSeq(Hello(name, before, after), 1, cut))
           = SubSeq(name, 1, Part(cut, 62 + Place(before), Len(name)))
    BY Zenon, <1>1, CutHello
  <2>2. Part(cut, start, Len(name)) = there
    BY Zenon DEF Part
  <2> QED
    BY Zenon, <1>2, <2>1, <2>2
<1>4. /\ call.in.name = name /\ call.in.before = before /\ call.in.cut = cut
      /\ call.out = HelloName(SubSeq(Hello(name, before, after), 1, cut))
  OBVIOUS
<1> QED
  BY Zenon, <1>3, <1>4 DEF CutHelloCutsName, start

-----------------------------------------------------------------------------
(* The answers in a capture *)

\* What Answers does at a place: it stops, or it takes an answer and goes on.
Stops(m, p) ==
    LET name == DecodeName(m, p)
        head == name.next
    IN  name = Overrun \/ ~Within(m, head, 10)
AnswerAt(m, p) ==
    LET name == DecodeName(m, p)
        head == name.next
    IN  IF U16(m, head) = 1 /\ U16(m, head + 8) = 4
        THEN <<[name |-> Dotted(name.labels), address |-> Slice(m, head + 10, 4)]>>
        ELSE <<>>
Behind(m, p) ==
    LET name == DecodeName(m, p)
        head == name.next
    IN  head + 10 + U16(m, head + 8)

Reading(read, m, n) ==
    read = [k \in 0..n |-> [p \in Positions |->
              IF k = 0 THEN <<>>
              ELSE IF Stops(m, p) THEN <<>> ELSE AnswerAt(m, p) \o read[k - 1][Behind(m, p)]]]

LEMMA ReadingExists ==
  ASSUME NEW m, NEW n \in Nat
  PROVE  \E read : Reading(read, m, n)
<1> DEFINE Step(h) == [p \in Positions |->
                         IF Stops(m, p) THEN <<>> ELSE AnswerAt(m, p) \o h[Behind(m, p)]]
           none == [p \in Positions |-> <<>>]
           Next(h, k) == IF k = 0 THEN none ELSE Step(h[k - 1])
           P(l) == \E h : h = [k \in 0..l |-> Next(h, k)]
           T == {l \in Nat : P(l)}
<1>1. P(0)
  <2> HIDE DEF Step, none
  <2> DEFINE h == [k \in 0..0 |-> none]
  <2>1. \A k \in 0..0 : h[k] = Next(h, k)
    OBVIOUS
  <2>2. h = [k \in 0..0 |-> h[k]]
    OBVIOUS
  <2> HIDE DEF h, Next
  <2>3. h = [k \in 0..0 |-> Next(h, k)]
    BY <2>1, <2>2
  <2> QED
    BY <2>3
<1>2. ASSUME NEW l \in Nat, P(l)
      PROVE  P(l + 1)
  <2> HIDE DEF Step, none
  <2>1. PICK h : h = [k \in 0..l |-> Next(h, k)]
    BY <1>2
  <2> DEFINE y == Step(h[l])
             g == [k \in 0..(l + 1) |-> IF k = l + 1 THEN y ELSE h[k]]
  <2>2. \A k \in 0..l : h[k] = Next(h, k)
    <3> HIDE DEF Next
    <3> QED
      BY <2>1
  <2> HIDE DEF y
  <2>3. \A k \in 0..l : g[k] = h[k]
    OBVIOUS
  <2>4. g[l + 1] = y /\ g[l] = h[l] /\ (l + 1) - 1 = l /\ l + 1 # 0
    BY <2>3
  <2>5. g = [k \in 0..(l + 1) |-> g[k]]
    OBVIOUS
  <2> HIDE DEF g
  <2>6. ASSUME NEW k \in 0..(l + 1)
        PROVE  g[k] = Next(g, k)
    <3>1. CASE k = 0
      BY <2>2, <2>3, <3>1
    <3>2. CASE k \in 1..l
      <4>1. PICK j \in 0..l : j = k - 1
        BY <3>2
      <4>2. k \in 0..l /\ k # 0
        BY <3>2
      <4> QED
        BY <2>2, <2>3, <4>1, <4>2
    <3>3. CASE k = l + 1
      <4>1. g[k] = y /\ k # 0 /\ k - 1 = l
        BY <2>4, <3>3
      <4> QED
        BY <2>4, <4>1 DEF y
    <3> QED
      BY <3>1, <3>2, <3>3
  <2> HIDE DEF Next
  <2>7. g = [k \in 0..(l + 1) |-> Next(g, k)]
    BY <2>5, <2>6
  <2> QED
    BY <2>7
<1>3. n \in T
  <2> HIDE DEF P
  <2>1. 0 \in T /\ \A l \in Nat : l \in T => l + 1 \in T
    BY <1>1, <1>2
  <2> HIDE DEF T
  <2> QED
    BY <2>1, Induction
<1>4. PICK h : h = [k \in 0..n |-> Next(h, k)]
  BY <1>3
<1>5. \A k \in 0..n : Next(h, k) = [p \in Positions |->
              IF k = 0 THEN <<>>
              ELSE IF Stops(m, p) THEN <<>> ELSE AnswerAt(m, p) \o h[k - 1][Behind(m, p)]]
  OBVIOUS
<1> HIDE DEF Next
<1>6. Reading(h, m, n)
  BY <1>4, <1>5 DEF Reading
<1> QED
  BY <1>6

\* Answers is such a reading, from where the questions end.
LEMMA AnswersRead ==
  ASSUME NEW message, message.ancount \in Nat
  PROVE  \E read : /\ Reading(read, message.body, message.ancount)
                   /\ Answers(message) = IF AfterQuestions(message) = 0 THEN <<>>
                                         ELSE read[message.ancount][AfterQuestions(message)]
<1> DEFINE it == CHOOSE read : Reading(read, message.body, message.ancount)
<1>1. Reading(it, message.body, message.ancount)
  BY ReadingExists
<1>2. Answers(message) = IF AfterQuestions(message) = 0 THEN <<>>
                         ELSE it[message.ancount][AfterQuestions(message)]
  BY Zenon DEF Answers, Reading, Stops, AnswerAt, Behind
<1> HIDE DEF it
<1> QED
  BY <1>1, <1>2

\* What is read of one record more.
LEMMA ReadingStep ==
  ASSUME NEW read, NEW m, NEW n \in Nat, Reading(read, m, n), NEW p \in Positions
  PROVE  /\ read[0][p] = <<>>
         /\ \A k \in 1..n : \A j : j = k - 1 =>
               read[k][p] = IF Stops(m, p) THEN <<>> ELSE AnswerAt(m, p) \o read[j][Behind(m, p)]
<1> DEFINE Next(k) == [q \in Positions |->
              IF k = 0 THEN <<>>
              ELSE IF Stops(m, q) THEN <<>> ELSE AnswerAt(m, q) \o read[k - 1][Behind(m, q)]]
<1>1. \A k \in 0..n : read[k] = Next(k)
  <2>1. read = [k \in 0..n |-> Next(k)]
    BY DEF Reading
  <2> HIDE DEF Next
  <2> QED
    BY <2>1
<1>2. read[0][p] = <<>>
  <2>1. read[0] = Next(0)
    BY <1>1
  <2> QED
    BY <2>1
<1>3. ASSUME NEW k \in 1..n, NEW j, j = k - 1
      PROVE  read[k][p] = IF Stops(m, p) THEN <<>> ELSE AnswerAt(m, p) \o read[j][Behind(m, p)]
  <2>1. read[k] = Next(k) /\ k # 0
    <3> HIDE DEF Next
    <3> QED
      BY <1>1
  <2> QED
    BY <1>3, <2>1
<1> QED
  BY <1>2, <1>3

\* The bytes of an owner: the lemmas need no more of them than this.
LEMMA SpelledBytes ==
  ASSUME NEW owner \in Names \cup {<<>>}
  PROVE  /\ Spelled(owner) \in Seq(Nat)
         /\ \/ owner = <<97>> /\ Spelled(owner) = <<1, 97, 0>>
            \/ owner = <<98, 46, 97>> /\ Spelled(owner) = <<1, 98, 1, 97, 0>>
            \/ owner = <<>> /\ Spelled(owner) = <<PointerMark, 12>>
<1>1. <<97>> # <<98, 46, 97>> /\ <<97>> # <<>> /\ <<98, 46, 97>> # <<>>
  OBVIOUS
<1>a. /\ <<1, 97, 0>> \in Seq(Nat) /\ <<1, 98, 1, 97, 0>> \in Seq(Nat)
      /\ <<PointerMark, 12>> \in Seq(Nat)
  BY PacketsAssumption
<1>2. CASE owner = <<97>>
  <2>1. Spelled(owner) = <<1, 97, 0>>
    BY <1>1, <1>2 DEF Spelled
  <2> QED
    BY Zenon, <1>a, <1>2, <2>1
<1>3. CASE owner = <<98, 46, 97>>
  <2>1. Spelled(owner) = <<1, 98, 1, 97, 0>>
    BY <1>1, <1>3 DEF Spelled
  <2> QED
    BY Zenon, <1>a, <1>3, <2>1
<1>4. CASE owner = <<>>
  <2>1. Spelled(owner) = <<PointerMark, 12>>
    BY <1>1, <1>4 DEF Spelled
  <2> QED
    BY Zenon, <1>a, <1>4, <2>1
<1> QED
  BY <1>2, <1>3, <1>4 DEF Names

\* A record's bytes: its owner, ten bytes of which four matter, its data.
RecordOf(b, r, n) ==
    /\ b \in Seq(Nat) /\ n = Len(Spelled(r.owner)) /\ n \in Nat /\ Len(r.data) \in Nat
    /\ Len(b) = n + 10 + Len(r.data)
    /\ \A k \in 1..n : b[k] = Spelled(r.owner)[k]
    /\ b[n + 1] = 0 /\ b[n + 2] = r.type /\ b[n + 9] = 0 /\ b[n + 10] = Len(r.data)
    /\ \A k \in 1..Len(r.data) : b[n + 10 + k] = r.data[k]

LEMMA ResourceRecordTypes ==
  ASSUME NEW r \in ResourceRecords
  PROVE  /\ r.owner \in Names \cup {<<>>} /\ r.data \in Seq(Nat)
         /\ \/ r.type = 1 /\ Len(r.data) = 4 /\ r.data \in Addresses
            \/ r.type = 5 /\ Len(r.data) = 2
<1>1. /\ <<10, 0, 0, 1>> \in Seq(Nat) /\ Len(<<10, 0, 0, 1>>) = 4
      /\ <<10, 0, 0, 2>> \in Seq(Nat) /\ Len(<<10, 0, 0, 2>>) = 4
      /\ <<PointerMark, 12>> \in Seq(Nat) /\ Len(<<PointerMark, 12>>) = 2
  BY PacketsAssumption
<1>2. CASE r \in [owner : Names \cup {<<>>}, type : {1}, data : Addresses]
  BY <1>1, <1>2 DEF Addresses
<1>3. CASE r \in [owner : Names \cup {<<>>}, type : {5}, data : {<<PointerMark, 12>>}]
  BY <1>1, <1>3
<1> QED
  BY <1>2, <1>3 DEF ResourceRecords

LEMMA RecordBytesAre ==
  ASSUME NEW r \in ResourceRecords
  PROVE  RecordOf(RecordBytes(r), r, Len(Spelled(r.owner)))
<1> DEFINE o == Spelled(r.owner)
           h == <<0, r.type, 0, 1, 0, 0, 0, 30, 0, Len(r.data)>>
           d == r.data
           rec == h \o d
           b == o \o rec
<1>1. o \in Seq(Nat) /\ d \in Seq(Nat) /\ Len(o) \in Nat /\ Len(d) \in Nat /\ r.type \in Nat
  BY SpelledBytes, ResourceRecordTypes, LenProperties
<1>2. /\ h \in Seq(Nat) /\ Len(h) = 10
      /\ h[1] = 0 /\ h[2] = r.type /\ h[9] = 0 /\ h[10] = Len(d)
  BY <1>1
<1>3. RecordBytes(r) = b
  BY Zenon DEF RecordBytes, Record
<1> HIDE DEF o, h, d
<1>4. Chained(h, d, rec) /\ rec \in Seq(Nat)
  BY <1>1, <1>2, JoinedBytes
<1> HIDE DEF rec
<1>5. Chained(o, rec, b)
  BY <1>1, <1>4, JoinedBytes
<1> HIDE DEF b
<1>6. /\ Len(rec) = 10 + Len(d) /\ Len(b) = Len(o) + Len(rec) /\ b \in Seq(Nat)
      /\ rec[1] = 0 /\ rec[2] = r.type /\ rec[9] = 0 /\ rec[10] = Len(d)
  <2>1. /\ Len(rec) = Len(h) + Len(d) /\ \A k \in 1..Len(h) : rec[k] = h[k]
        /\ Len(b) = Len(o) + Len(rec) /\ b \in Seq(Nat)
    BY Zenon, <1>4, <1>5 DEF Chained
  <2>2. 1 \in 1..Len(h) /\ 2 \in 1..Len(h) /\ 9 \in 1..Len(h) /\ 10 \in 1..Len(h)
    BY <1>2
  <2> QED
    BY Zenon, <1>2, <2>1, <2>2
<1>7. \A k \in 1..Len(rec) : b[Len(o) + k] = rec[k]
  BY <1>5 DEF Chained
<1>8. /\ b[Len(o) + 1] = 0 /\ b[Len(o) + 2] = r.type /\ b[Len(o) + 9] = 0
      /\ b[Len(o) + 10] = Len(d)
  <2>1. 1 \in 1..Len(rec) /\ 2 \in 1..Len(rec) /\ 9 \in 1..Len(rec) /\ 10 \in 1..Len(rec)
    BY <1>1, <1>6
  <2> QED
    BY <1>6, <1>7, <2>1
<1>9. ASSUME NEW k \in 1..Len(d)
      PROVE  b[Len(o) + 10 + k] = d[k]
  <2>1. PICK l \in 1..Len(rec) : l = 10 + k /\ Len(o) + l = Len(o) + 10 + k
    BY <1>1, <1>6
  <2>2. rec[10 + k] = d[k]
    BY <1>2, <1>4 DEF Chained
  <2> QED
    BY <1>7, <2>1, <2>2
<1>10. Len(b) = Len(o) + 10 + Len(d)
  BY <1>1, <1>6
<1>11. \A k \in 1..Len(o) : b[k] = o[k]
  BY <1>5 DEF Chained
<1> QED
  BY Zenon, <1>1, <1>3, <1>6, <1>8, <1>9, <1>10, <1>11 DEF RecordOf, o, d

\* A message is its question and its records one behind the other.
LEMMA MessageGrows ==
  ASSUME NEW records \in Seq(ResourceRecords), NEW n \in Nat, n = Len(records)
  PROVE  /\ MessageUpTo(records, 0) = Question
         /\ \A k \in 0..n : MessageUpTo(records, k) \in Seq(Nat)
         /\ \A k \in 1..n : \A j : j = k - 1 =>
               MessageUpTo(records, k) = MessageUpTo(records, j) \o RecordBytes(records[k])
<1> DEFINE F == [k \in 1..n |-> [s \in Seq(Nat) |-> s \o RecordBytes(records[k])]]
           Next(h, k) == IF k = 0 THEN Question ELSE h[k - 1] \o RecordBytes(records[k])
           Grows(h) == h = [k \in 0..Len(records) |-> Next(h, k)]
           it == CHOOSE h : Grows(h)
<1>1. Question \in Seq(Nat)
  <2>1. Spelled(<<97>>) = <<1, 97, 0>>
    BY SpelledBytes DEF Names
  <2>2. <<1, 97, 0>> \in Seq(Nat) /\ <<0, 1, 0, 1>> \in Seq(Nat)
    OBVIOUS
  <2> QED
    BY <2>1, <2>2, ConcatProperties DEF Question
<1>2. \A k \in 1..n : RecordBytes(records[k]) \in Seq(Nat)
  BY ElementOfSeq, RecordBytesAre DEF RecordOf
<1>3. F \in [1..n -> [Seq(Nat) -> Seq(Nat)]]
  <2>1. \A k \in 1..n, s \in Seq(Nat) : s \o RecordBytes(records[k]) \in Seq(Nat)
    BY <1>2, ConcatProperties
  <2> QED
    BY <2>1
<1>4. PICK h \in [0..n -> Seq(Nat)] : Iterates(h, n, Question, F)
  <2> HIDE DEF F
  <2> QED
    BY Zenon, <1>1, <1>3, Iterated
<1>5. Grows(h)
  <2>1. h[0] = Question /\ \A k \in 1..n : h[k] = F[k][h[k - 1]]
    BY Zenon, <1>4 DEF Iterates
  <2>2. \A k \in 1..n : k - 1 \in 0..n
    OBVIOUS
  <2>3. \A k \in 1..n : h[k - 1] \in Seq(Nat)
    BY <2>2
  <2>4. \A k \in 1..n : F[k][h[k - 1]] = h[k - 1] \o RecordBytes(records[k])
    BY <2>3
  <2> HIDE DEF F
  <2>5. \A k \in 0..n : h[k] = Next(h, k)
    <3>1. \A k \in 0..n : k = 0 \/ k \in 1..n
      OBVIOUS
    <3>2. \A k \in 1..n : k # 0
      OBVIOUS
    <3> QED
      BY Zenon, <2>1, <2>4, <3>1, <3>2
  <2>6. h = [k \in 0..n |-> h[k]]
    OBVIOUS
  <2> HIDE DEF Next
  <2> QED
    BY <2>5, <2>6
<1>6. Grows(it)
  <2> HIDE DEF Grows
  <2> QED
    BY <1>5
<1>7. \A k : MessageUpTo(records, k) = it[k]
  BY Zenon DEF MessageUpTo
<1> HIDE DEF it
<1>8. \A k \in 0..n : it[k] = Next(it, k)
  <2> HIDE DEF Next
  <2> QED
    BY <1>6
<1>9. it[0] = Question
  BY <1>8
<1>10. ASSUME NEW k \in 1..n, NEW j, j = k - 1
       PROVE  it[k] = it[j] \o RecordBytes(records[k])
  <2>1. k \in 0..n /\ k # 0
    OBVIOUS
  <2>2. it[k] = it[k - 1] \o RecordBytes(records[k])
    BY Zenon, <1>8, <2>1
  <2> QED
    BY Zenon, <1>10, <2>2
<1>11. \A k \in 0..n : it[k] \in Seq(Nat)
  <2> DEFINE T == {k \in Nat : k <= n => it[k] \in Seq(Nat)}
  <2>1. 0 \in T
    BY <1>1, <1>9
  <2>2. ASSUME NEW k \in Nat, k \in T
        PROVE  k + 1 \in T
    <3> SUFFICES ASSUME k + 1 <= n PROVE it[k + 1] \in Seq(Nat)
      OBVIOUS
    <3>1. PICK i \in 1..n : i = k + 1 /\ k = i - 1
      OBVIOUS
    <3>2. it[i] = it[k] \o RecordBytes(records[i])
      BY <1>10, <3>1
    <3>3. it[k] \in Seq(Nat)
      BY <2>2
    <3> QED
      BY Zenon, <1>2, <3>1, <3>2, <3>3, Joined
  <2>3. \A k \in Nat : k \in T
    <3> HIDE DEF T
    <3> QED
      BY <2>1, <2>2, Induction
  <2> QED
    BY <2>3
<1> QED
  BY Zenon, <1>7, <1>9, <1>10, <1>11

\* Bytes that lie behind the first s of a message, as far as it reaches.
Lies(m, s, b) == \A i \in 1..Len(b) : s + i <= Len(m) => m[s + i] = b[i]
Begins(b, m) == Len(b) <= Len(m) /\ \A i \in 1..Len(b) : m[i] = b[i]

\* A message begins with its question and any number of its first records.
MessagePart(records, i, l) ==
    Chained(MessageUpTo(records, i), RecordBytes(records[l]), MessageUpTo(records, l))

LEMMA MessageParts ==
  ASSUME NEW records \in Seq(ResourceRecords), NEW n \in Nat, n = Len(records)
  PROVE  /\ \A i \in 0..n : Len(MessageUpTo(records, i)) \in Nat
         /\ \A i \in 0..n : Begins(MessageUpTo(records, i), MessageBytes(records))
         /\ \A i \in 1..n : RecordBytes(records[i]) \in Seq(Nat)
         /\ \A i \in 0..n, l \in 1..n : l = i + 1 => MessagePart(records, i, l)
<1> DEFINE Up(i) == MessageUpTo(records, i)
           M == Up(n)
           T == {d \in Nat : \A i \in 0..n : i + d = n => Begins(Up(i), M)}
<1>1. /\ \A i \in 0..n : Up(i) \in Seq(Nat)
      /\ \A i \in 1..n : \A l : l = i - 1 => Up(i) = Up(l) \o RecordBytes(records[i])
  BY Zenon, MessageGrows
<1>2. \A i \in 1..n : RecordBytes(records[i]) \in Seq(Nat)
  BY ElementOfSeq, RecordBytesAre DEF RecordOf
<1>3. MessageBytes(records) = M
  BY Zenon DEF MessageBytes
<1> HIDE DEF Up
<1>4. \A i \in 0..n, l \in 1..n : l = i + 1 => Chained(Up(i), RecordBytes(records[l]), Up(l))
  <2> SUFFICES ASSUME NEW i \in 0..n, NEW l \in 1..n, l = i + 1
               PROVE  Chained(Up(i), RecordBytes(records[l]), Up(l))
    OBVIOUS
  <2>1. i = l - 1
    OBVIOUS
  <2>2. Up(l) = Up(i) \o RecordBytes(records[l])
    BY Zenon, <1>1, <2>1
  <2> QED
    BY Zenon, <1>1, <1>2, <2>2, JoinedBytes
<1>5. \A i \in 0..n : Len(Up(i)) \in Nat
  BY <1>1, LenProperties
<1>6. 0 \in T
  BY DEF Begins
<1>7. ASSUME NEW d \in Nat, d \in T
      PROVE  d + 1 \in T
  <2> SUFFICES ASSUME NEW i \in 0..n, i + (d + 1) = n PROVE Begins(Up(i), M)
    OBVIOUS
  <2>1. PICK l \in 1..n : l = i + 1 /\ l + d = n /\ l \in 0..n
    OBVIOUS
  <2>2. Begins(Up(l), M)
    BY <1>7, <2>1
  <2>3. Chained(Up(i), RecordBytes(records[l]), Up(l))
    BY <1>4, <2>1
  <2>4. Len(RecordBytes(records[l])) \in Nat
    BY <1>2, LenProperties
  <2>5. Len(Up(i)) <= Len(Up(l)) /\ \A c \in 1..Len(Up(i)) : Up(l)[c] = Up(i)[c]
    BY <1>5, <2>3, <2>4 DEF Chained
  <2>6. Len(Up(l)) <= Len(M) /\ \A c \in 1..Len(Up(l)) : M[c] = Up(l)[c]
    BY Zenon, <2>2 DEF Begins
  <2>7. Len(Up(i)) <= Len(M) /\ \A c \in 1..Len(Up(i)) : c \in 1..Len(Up(l))
    BY <1>5, <2>1, <2>5, <2>6
  <2> QED
    BY Zenon, <2>5, <2>6, <2>7 DEF Begins
<1>8. \A d \in Nat : d \in T
  <2> HIDE DEF T
  <2> QED
    BY <1>6, <1>7, Induction
<1>9. ASSUME NEW i \in 0..n
      PROVE  Begins(Up(i), M)
  <2>1. PICK d \in Nat : i + d = n
    <3>1. n - i \in Nat /\ i + (n - i) = n
      OBVIOUS
    <3> QED
      BY <3>1
  <2>2. d \in T
    BY <1>8
  <2> QED
    BY Zenon, <2>1, <2>2
<1> QED
  BY Zenon, <1>2, <1>3, <1>4, <1>5, <1>9 DEF Up, MessagePart

\* Each record lies where the ones before it end.
LEMMA RecordsLie ==
  ASSUME NEW records \in Seq(ResourceRecords), NEW n \in Nat, n = Len(records),
         NEW k \in 0..n, NEW j \in 1..n, j = k + 1
  PROVE  LET s == Len(MessageUpTo(records, k))
         IN  /\ s \in Nat
             /\ Len(MessageUpTo(records, j)) = s + Len(RecordBytes(records[j]))
             /\ Lies(MessageBytes(records), s, RecordBytes(records[j]))
<1> DEFINE Up(i) == MessageUpTo(records, i)
           M == MessageBytes(records)
<1>9. Begins(Up(j), M) /\ RecordBytes(records[j]) \in Seq(Nat)
  <2>1. j \in 0..n
    OBVIOUS
  <2> QED
    BY Zenon, <2>1, MessageParts
<1>a. MessagePart(records, k, j) /\ Len(Up(k)) \in Nat
  BY Zenon, MessageParts
<1> HIDE DEF M
<1>10. Chained(Up(k), RecordBytes(records[j]), Up(j))
  BY Zenon, <1>a DEF MessagePart
<1> HIDE DEF Up
<1>11. PICK s \in Nat : s = Len(Up(k))
  BY <1>a
<1>12. /\ Len(Up(j)) = s + Len(RecordBytes(records[j]))
       /\ \A i \in 1..Len(RecordBytes(records[j])) : Up(j)[s + i] = RecordBytes(records[j])[i]
  BY Zenon, <1>10, <1>11 DEF Chained
<1>13. Len(RecordBytes(records[j])) \in Nat
  BY <1>9, LenProperties
<1>14. \A i \in 1..Len(RecordBytes(records[j])) : s + i \in 1..Len(Up(j))
  BY <1>12, <1>13
<1>15. Lies(M, s, RecordBytes(records[j]))
  BY Zenon, <1>9, <1>12, <1>14 DEF Lies, Begins
<1> QED
  BY Zenon, <1>11, <1>12, <1>15 DEF Up, M

\* What lies in a message lies in what is left of it when it is cut.
LEMMA CutLies ==
  ASSUME NEW h \in Seq(Nat), NEW cut \in 0..Len(h), NEW s \in Nat, NEW b, Lies(h, s, b)
  PROVE  Lies(SubSeq(h, 1, cut), s, b)
<1> DEFINE m == SubSeq(h, 1, cut)
<1>1. m \in Seq(Nat) /\ Len(m) = cut /\ \A i \in 1..cut : m[i] = h[i]
  BY CutMessage
<1>2. cut \in Nat /\ cut <= Len(h) /\ Len(h) \in Nat
  BY LenProperties
<1> HIDE DEF m
<1>3. ASSUME NEW i \in 1..Len(b), s + i <= Len(m)
      PROVE  m[s + i] = b[i]
  <2>1. PICK p \in Nat : p = s + i /\ p >= 1
    OBVIOUS
  <2>2. p \in 1..cut /\ p <= Len(h)
    BY <1>1, <1>2, <1>3, <2>1
  <2>3. h[s + i] = b[i]
    BY Zenon, <2>1, <2>2 DEF Lies
  <2> QED
    BY Zenon, <1>1, <2>1, <2>2, <2>3
<1> QED
  BY Zenon, <1>3 DEF Lies, m

\* Labels joined by dots.
LEMMA DottedOne ==
  ASSUME NEW a
  PROVE  Dotted(<<a>>) = a
<1> DEFINE Next(h, n) == IF n = 1 THEN a ELSE h[n - 1] \o <<46>> \o <<a>>[n]
           Joins(h) == h = [n \in 1..1 |-> Next(h, n)]
           one == [n \in 1..1 |-> a]
           it == CHOOSE h : Joins(h)
<1>1. Joins(one)
  <2>1. \A n \in 1..1 : one[n] = Next(one, n)
    OBVIOUS
  <2>2. one = [n \in 1..1 |-> one[n]]
    OBVIOUS
  <2> HIDE DEF one, Next
  <2> QED
    BY <2>1, <2>2
<1>2. Joins(it)
  <2> HIDE DEF Joins
  <2> QED
    BY <1>1
<1>3. Len(<<a>>) = 1 /\ <<a>>[1] = a /\ <<a>> # <<>>
  OBVIOUS
<1>4. Dotted(<<a>>) = it[1]
  BY Zenon, <1>3 DEF Dotted
<1> HIDE DEF it
<1> QED
  BY <1>2, <1>4

LEMMA DottedTwo ==
  ASSUME NEW a, NEW b
  PROVE  Dotted(<<a, b>>) = a \o <<46>> \o b
<1> DEFINE ab == <<a, b>>
           Next(h, n) == IF n = 1 THEN ab[1] ELSE h[n - 1] \o <<46>> \o ab[n]
           Joins(h) == h = [n \in 1..Len(ab) |-> Next(h, n)]
           both == a \o <<46>> \o b
           two == [n \in 1..2 |-> IF n = 1 THEN a ELSE both]
           it == CHOOSE h : Joins(h)
<1>1. Len(ab) = 2 /\ ab[1] = a /\ ab[2] = b /\ ab # <<>>
  OBVIOUS
<1> HIDE DEF ab
<1>2. Joins(two)
  <2>1. two[1] = a /\ 2 - 1 = 1 /\ two[2] = both
    OBVIOUS
  <2>2. \A n \in 1..2 : n = 1 \/ n = 2
    OBVIOUS
  <2>3. two = [n \in 1..2 |-> two[n]]
    OBVIOUS
  <2> HIDE DEF two
  <2>4. two[1] = Next(two, 1) /\ two[2] = Next(two, 2)
    BY <1>1, <2>1
  <2>5. \A n \in 1..2 : two[n] = Next(two, n)
    <3> HIDE DEF Next
    <3> QED
      BY <2>2, <2>4
  <2> HIDE DEF Next
  <2> QED
    BY <1>1, <2>3, <2>5
<1>3. Joins(it)
  <2> HIDE DEF Joins
  <2> QED
    BY <1>2
<1>4. Dotted(ab) = it[Len(ab)]
  BY Zenon, <1>1 DEF Dotted
<1> HIDE DEF it
<1>5. \A n \in 1..2 : it[n] = Next(it, n)
  <2> HIDE DEF Next
  <2> QED
    BY <1>1, <1>3
<1>6. it[1] = a /\ it[2] = it[2 - 1] \o <<46>> \o b
  BY <1>1, <1>5
<1>7. it[2] = a \o <<46>> \o b
  <2>1. 2 - 1 = 1
    OBVIOUS
  <2> QED
    BY Zenon, <1>6, <2>1
<1> QED
  BY Zenon, <1>1, <1>4, <1>7 DEF ab

\* One step of reading a name, without pointers and with them.
LabelRead(m, p, q, c) ==
    DecodeName(m, p) = IF DecodeName(m, q) = Overrun THEN Overrun
                       ELSE [labels |-> <<<<c>>>> \o DecodeName(m, q).labels,
                             next |-> DecodeName(m, q).next]

LEMMA PlainLabel ==
  ASSUME NEW m \in Seq(Nat), NEW p \in Nat, p # 0, m[p] = 1, NEW c, c = m[p + 1],
         NEW q, q = p + 2, q <= Len(m)
  PROVE  LabelRead(m, p, q, c)
<1> DEFINE rest == DecodeName(m, q)
<1>1. p \in Positions /\ Len(m) \in Nat
  BY LenProperties DEF Positions
<1>2. ~(p > Len(m)) /\ m[p] # 0 /\ ~(m[p] >= PointerMark) /\ p + 1 + m[p] = q
  BY <1>1, PacketsAssumption
<1>3. DecodeName(m, p) =
        IF p > Len(m) THEN Overrun
        ELSE IF m[p] = 0 THEN [labels |-> <<>>, next |-> p + 1]
        ELSE IF m[p] >= PointerMark THEN [labels |-> <<>>, next |-> p + 2]
        ELSE LET more == DecodeName(m, p + 1 + m[p]) IN
             IF more = Overrun THEN Overrun
             ELSE [labels |-> <<Slice(m, p + 1, m[p])>> \o more.labels, next |-> more.next]
  BY Zenon, <1>1, DecodeStep
<1>4. Slice(m, p + 1, m[p]) = <<c>>
  <2>1. PICK l \in Nat : l = p + 1
    OBVIOUS
  <2>2. l \in 1..Len(m) /\ m[l] = c /\ (IF l + m[p] - 1 <= Len(m) THEN l + m[p] - 1 ELSE Len(m)) = l
    BY <1>1, <2>1
  <2>3. Slice(m, l, m[p]) = SubSeq(m, l, l)
    BY Zenon, <2>2 DEF Slice
  <2> DEFINE s == SubSeq(m, l, l)
  <2>4. \A i \in l..l : m[i] \in Nat
    BY <2>2, ElementOfSeq
  <2>5. s \in Seq(Nat) /\ Len(s) = 1 /\ s[1] = m[l]
    <3>1. l \in Int
      OBVIOUS
    <3>2. /\ s \in Seq(Nat) /\ Len(s) = IF l <= l THEN l - l + 1 ELSE 0
          /\ \A i \in 1..(l - l + 1) : s[i] = m[l + i - 1]
      BY <2>4, <3>1, SubSeqProperties
    <3> HIDE DEF s
    <3>3. 1 \in 1..(l - l + 1) /\ l + 1 - 1 = l
      OBVIOUS
    <3>4. s[1] = m[l]
      BY Zenon, <3>2, <3>3
    <3> QED
      BY <3>2, <3>4
  <2> HIDE DEF s
  <2>6. <<c>> \in Seq(Nat) /\ Len(<<c>>) = 1 /\ <<c>>[1] = c
    <3>1. c \in Nat
      BY <2>2, ElementOfSeq
    <3> QED
      BY <3>1
  <2> DEFINE t == <<c>>
  <2> HIDE DEF t
  <2>7. Len(s) = Len(t) /\ \A i \in 1..Len(s) : s[i] = t[i]
    <3>1. t \in Seq(Nat) /\ Len(t) = 1 /\ t[1] = c
      BY <2>6 DEF t
    <3> QED
      BY <2>2, <2>5, <3>1
  <2>8. s = t
    BY Zenon, <2>5, <2>6, <2>7, SeqEqual DEF t
  <2> QED
    BY Zenon, <2>1, <2>3, <2>8 DEF s, t
<1> QED
  BY Zenon, <1>2, <1>3, <1>4 DEF LabelRead

LEMMA NameOver ==
  ASSUME NEW m \in Seq(Nat), NEW p \in Nat, p # 0
  PROVE  /\ p > Len(m) => DecodeName(m, p) = Overrun
         /\ p <= Len(m) /\ m[p] = 0 => DecodeName(m, p) = [labels |-> <<>>, next |-> p + 1]
         /\ p <= Len(m) /\ m[p] = PointerMark => DecodeName(m, p) = [labels |-> <<>>, next |-> p + 2]
<1>1. p \in Positions /\ Len(m) \in Nat
  BY LenProperties DEF Positions
<1>2. DecodeName(m, p) =
        IF p > Len(m) THEN Overrun
        ELSE IF m[p] = 0 THEN [labels |-> <<>>, next |-> p + 1]
        ELSE IF m[p] >= PointerMark THEN [labels |-> <<>>, next |-> p + 2]
        ELSE LET more == DecodeName(m, p + 1 + m[p]) IN
             IF more = Overrun THEN Overrun
             ELSE [labels |-> <<Slice(m, p + 1, m[p])>> \o more.labels, next |-> more.next]
  BY Zenon, <1>1, DecodeStep
<1>3. p <= Len(m) => ~(p > Len(m))
  BY <1>1
<1>4. \A x : x = PointerMark => x # 0 /\ x >= PointerMark
  BY PacketsAssumption
<1> QED
  BY Zenon, <1>2, <1>3, <1>4

\* A label whose second half is missing leads past the message's end.
LEMMA HalfLabel ==
  ASSUME NEW m \in Seq(Nat), NEW p \in Nat, p # 0, p <= Len(m), m[p] = 1, p + 2 > Len(m)
  PROVE  DecodeName(m, p) = Overrun
<1>1. p \in Positions /\ Len(m) \in Nat
  BY LenProperties DEF Positions
<1>2. ~(p > Len(m)) /\ m[p] # 0 /\ ~(m[p] >= PointerMark) /\ p + 1 + m[p] = p + 2
  BY <1>1, PacketsAssumption
<1>3. DecodeName(m, p) =
        IF p > Len(m) THEN Overrun
        ELSE IF m[p] = 0 THEN [labels |-> <<>>, next |-> p + 1]
        ELSE IF m[p] >= PointerMark THEN [labels |-> <<>>, next |-> p + 2]
        ELSE LET more == DecodeName(m, p + 1 + m[p]) IN
             IF more = Overrun THEN Overrun
             ELSE [labels |-> <<Slice(m, p + 1, m[p])>> \o more.labels, next |-> more.next]
  BY Zenon, <1>1, DecodeStep
<1>4. PICK q \in Nat : q = p + 2 /\ q # 0
  OBVIOUS
<1>5. DecodeName(m, q) = Overrun
  BY <1>4, NameOver
<1> QED
  BY Zenon, <1>2, <1>3, <1>4, <1>5

LEMMA PairJoined ==
  ASSUME NEW x, NEW y
  PROVE  <<x>> \o <<y>> = <<x, y>>
<1> DEFINE S == {x, y}
           j == <<x>> \o <<y>>
           d == <<x, y>>
<1>1. <<x>> \in Seq(S) /\ <<y>> \in Seq(S) /\ Len(<<x>>) = 1 /\ Len(<<y>>) = 1
      /\ <<x>>[1] = x /\ <<y>>[1] = y
  OBVIOUS
<1>2. d \in Seq(S) /\ Len(d) = 2 /\ d[1] = x /\ d[2] = y
  OBVIOUS
<1>3. /\ j \in Seq(S) /\ Len(j) = Len(<<x>>) + Len(<<y>>)
      /\ \A i \in 1..(Len(<<x>>) + Len(<<y>>)) :
            j[i] = IF i <= Len(<<x>>) THEN <<x>>[i] ELSE <<y>>[i - Len(<<x>>)]
  BY <1>1, ConcatProperties
<1> HIDE DEF j, d, S
<1>4. Len(j) = 2 /\ \A i \in 1..2 : j[i] = IF i <= 1 THEN <<x>>[i] ELSE <<y>>[i - 1]
  <2>1. 1 + 1 = 2
    OBVIOUS
  <2> QED
    BY Zenon, <1>1, <1>3, <2>1
<1>5. j[1] = x /\ j[2] = y
  <2>1. 1 \in 1..2 /\ 2 \in 1..2 /\ 1 <= 1 /\ ~(2 <= 1) /\ 2 - 1 = 1
    OBVIOUS
  <2> QED
    BY Zenon, <1>1, <1>4, <2>1
<1>6. \A i \in 1..Len(j) : j[i] = d[i]
  <2>1. \A i \in 1..2 : i = 1 \/ i = 2
    OBVIOUS
  <2> QED
    BY Zenon, <1>2, <1>4, <1>5, <2>1
<1>7. j = d
  BY Zenon, <1>2, <1>3, <1>4, <1>6, SeqEqual
<1> QED
  BY Zenon, <1>7 DEF j, d

LEMMA ThreeJoined ==
  ASSUME NEW x \in Nat, NEW y \in Nat, NEW z \in Nat
  PROVE  <<x>> \o <<y>> \o <<z>> = <<x, y, z>>
<1> DEFINE j == <<x>> \o <<y>> \o <<z>>
           xy == <<x, y>>
           d == <<x, y, z>>
<1>1. xy \in Seq(Nat) /\ Len(xy) = 2 /\ xy[1] = x /\ xy[2] = y
  OBVIOUS
<1>2. <<z>> \in Seq(Nat) /\ Len(<<z>>) = 1 /\ <<z>>[1] = z
  OBVIOUS
<1>3. d \in Seq(Nat) /\ Len(d) = 3 /\ d[1] = x /\ d[2] = y /\ d[3] = z
  OBVIOUS
<1>4. j = xy \o <<z>>
  BY Zenon, PairJoined
<1> HIDE DEF j, xy, d
<1>5. Chained(xy, <<z>>, j)
  BY Zenon, <1>1, <1>2, <1>4, JoinedBytes
<1>6. j \in Seq(Nat) /\ Len(j) = 3 /\ j[1] = x /\ j[2] = y /\ j[3] = z
  <2>1. 2 + 1 = 3 /\ 1 \in 1..2 /\ 2 \in 1..2 /\ 1 \in 1..1
    OBVIOUS
  <2> QED
    BY Zenon, <1>1, <1>2, <1>5, <2>1 DEF Chained
<1>7. \A i \in 1..Len(j) : j[i] = d[i]
  <2>1. \A i \in 1..3 : i = 1 \/ i = 2 \/ i = 3
    OBVIOUS
  <2> QED
    BY Zenon, <1>3, <1>6, <2>1
<1>8. j = d
  BY Zenon, <1>3, <1>6, <1>7, SeqEqual
<1> QED
  BY Zenon, <1>8 DEF j, d

\* The last label of a name.
LEMMA LastLabel ==
  ASSUME NEW m \in Seq(Nat), NEW p \in Nat, p # 0, NEW c, m[p] = 1, p + 2 <= Len(m),
         c = m[p + 1], m[p + 2] = 0
  PROVE  DecodeName(m, p) = [labels |-> <<<<c>>>>, next |-> p + 3]
<1>1. PICK q \in Nat : q = p + 2 /\ q # 0 /\ q <= Len(m) /\ m[q] = 0 /\ q + 1 = p + 3
  OBVIOUS
<1>2. DecodeName(m, q) = [labels |-> <<>>, next |-> p + 3]
  BY <1>1, NameOver
<1>3. DecodeName(m, q) # Overrun
  BY <1>2 DEF Overrun
<1>4. DecodeName(m, p) = IF DecodeName(m, q) = Overrun THEN Overrun
                         ELSE [labels |-> <<<<c>>>> \o DecodeName(m, q).labels,
                               next |-> DecodeName(m, q).next]
  <2>1. LabelRead(m, p, q, c)
    BY <1>1, PlainLabel
  <2> QED
    BY Zenon, <2>1 DEF LabelRead
<1>5. <<<<c>>>> \o <<>> = <<<<c>>>>
  BY ConcatEmptySeq
<1>6. DecodeName(m, q).labels = <<>> /\ DecodeName(m, q).next = p + 3
  BY <1>2
<1> QED
  BY Zenon, <1>3, <1>4, <1>5, <1>6

\* What reading an owner yields: its name and the place behind it, if it is whole.
OwnerRead(m, s, owner, n) ==
    LET d == DecodeName(m, s + 1)
    IN  /\ d = Overrun \/ d.next = s + n + 1
        /\ s + n <= Len(m) => d # Overrun /\ d.next = s + n + 1 /\ Dotted(d.labels) = owner

LEMMA OwnerIsRead ==
  ASSUME NEW m \in Seq(Nat), NEW s \in Nat, NEW owner \in Names \cup {<<>>},
         Lies(m, s, Spelled(owner))
  PROVE  OwnerRead(m, s, owner, Len(Spelled(owner)))
<1>1. PICK p \in Nat : p = s + 1 /\ p # 0
  OBVIOUS
<1>2. Len(m) \in Nat /\ 1 \in Nat
  BY LenProperties
<1>3. p > Len(m) => DecodeName(m, p) = Overrun
  BY <1>1, NameOver
<1>4. CASE owner = <<97>> /\ Spelled(owner) = <<1, 97, 0>>
  <2> DEFINE sp == Spelled(owner)
  <2>1. Len(sp) = 3 /\ sp[1] = 1 /\ sp[2] = 97 /\ sp[3] = 0
    BY <1>4
  <2> HIDE DEF sp
  <2>2. /\ p <= Len(m) => m[p] = 1
        /\ p + 2 <= Len(m) => m[p] = 1 /\ m[p + 1] = 97 /\ m[p + 2] = 0
    <3>1. \A i \in 1..3 : s + i <= Len(m) => m[s + i] = sp[i]
      BY Zenon, <2>1 DEF Lies, sp
    <3>2. 1 \in 1..3 /\ 2 \in 1..3 /\ 3 \in 1..3 /\ s + 1 = p /\ s + 2 = p + 1 /\ s + 3 = p + 2
      BY <1>1
    <3>3. (s + 1 <= Len(m) => m[s + 1] = 1) /\ (s + 2 <= Len(m) => m[s + 2] = 97)
          /\ (s + 3 <= Len(m) => m[s + 3] = 0)
      BY Zenon, <2>1, <3>1, <3>2
    <3>4. p + 2 <= Len(m) => p <= Len(m) /\ p + 1 <= Len(m)
      BY <1>2
    <3> QED
      BY Zenon, <3>2, <3>3, <3>4
  <2>3. p <= Len(m) /\ p + 2 > Len(m) => DecodeName(m, p) = Overrun
    BY <1>1, <2>2, HalfLabel
  <2>4. p + 2 <= Len(m) => DecodeName(m, p) = [labels |-> <<<<97>>>>, next |-> p + 3]
    BY <1>1, <2>2, LastLabel
  <2>5. p + 2 <= Len(m) \/ DecodeName(m, p) = Overrun
    BY <1>2, <1>3, <2>3
  <2>6. p + 2 <= Len(m) => /\ DecodeName(m, p) # Overrun /\ DecodeName(m, p).next = p + 3
                           /\ DecodeName(m, p).labels = <<<<97>>>>
    BY <2>4 DEF Overrun
  <2>7. Dotted(<<<<97>>>>) = <<97>>
    BY Zenon, DottedOne
  <2>8. s + Len(sp) + 1 = p + 3 /\ s + Len(sp) = p + 2
    BY <1>1, <2>1
  <2> QED
    BY Zenon, <1>1, <1>4, <2>5, <2>6, <2>7, <2>8 DEF OwnerRead, sp
<1>5. CASE owner = <<98, 46, 97>> /\ Spelled(owner) = <<1, 98, 1, 97, 0>>
  <2> DEFINE sp == Spelled(owner)
  <2>1. Len(sp) = 5 /\ sp[1] = 1 /\ sp[2] = 98 /\ sp[3] = 1 /\ sp[4] = 97 /\ sp[5] = 0
    BY <1>5
  <2> HIDE DEF sp
  <2>a. PICK q \in Nat : q = p + 2 /\ q # 0
    OBVIOUS
  <2>2. /\ p <= Len(m) => m[p] = 1
        /\ p + 2 <= Len(m) => m[p + 1] = 98 /\ m[q] = 1
        /\ q + 2 <= Len(m) => m[q + 1] = 97 /\ m[q + 2] = 0
    <3>1. \A i \in 1..5 : s + i <= Len(m) => m[s + i] = sp[i]
      BY Zenon, <2>1 DEF Lies, sp
    <3>2. /\ 1 \in 1..5 /\ 2 \in 1..5 /\ 3 \in 1..5 /\ 4 \in 1..5 /\ 5 \in 1..5
          /\ s + 1 = p /\ s + 2 = p + 1 /\ s + 3 = q /\ s + 4 = q + 1 /\ s + 5 = q + 2
      BY <1>1, <2>a
    <3>3. /\ s + 1 <= Len(m) => m[s + 1] = 1
          /\ s + 2 <= Len(m) => m[s + 2] = 98
          /\ s + 3 <= Len(m) => m[s + 3] = 1
          /\ s + 4 <= Len(m) => m[s + 4] = 97
          /\ s + 5 <= Len(m) => m[s + 5] = 0
      BY Zenon, <2>1, <3>1, <3>2
    <3>4. /\ p + 2 <= Len(m) => p + 1 <= Len(m) /\ q <= Len(m)
          /\ q + 2 <= Len(m) => q + 1 <= Len(m)
      BY <1>2, <2>a
    <3> QED
      BY Zenon, <3>2, <3>3, <3>4
  <2>b. p + 2 <= Len(m) => m[p] = 1
    BY <1>2, <2>2
  <2>3. p <= Len(m) /\ p + 2 > Len(m) => DecodeName(m, p) = Overrun
    BY <1>1, <2>2, HalfLabel
  <2>4. p + 2 <= Len(m) =>
            DecodeName(m, p) = IF DecodeName(m, q) = Overrun THEN Overrun
                               ELSE [labels |-> <<<<98>>>> \o DecodeName(m, q).labels,
                                     next |-> DecodeName(m, q).next]
    <3> SUFFICES ASSUME p + 2 <= Len(m) PROVE LabelRead(m, p, q, 98)
      BY Zenon DEF LabelRead
    <3> QED
      BY <1>1, <2>2, <2>a, <2>b, PlainLabel
  <2>5. q <= Len(m) /\ q + 2 > Len(m) => DecodeName(m, q) = Overrun
    BY <2>2, <2>a, HalfLabel
  <2>6. q + 2 <= Len(m) => DecodeName(m, q) = [labels |-> <<<<97>>>>, next |-> q + 3]
    <3>1. q + 2 <= Len(m) => q <= Len(m) /\ p + 2 <= Len(m)
      BY <1>2, <2>a
    <3> QED
      BY <2>2, <2>a, <3>1, LastLabel
  <2>7. q + 2 <= Len(m) \/ DecodeName(m, p) = Overrun
    <3>1. p > Len(m) \/ (p <= Len(m) /\ p + 2 > Len(m))
          \/ (p + 2 <= Len(m) /\ q <= Len(m) /\ q + 2 > Len(m)) \/ q + 2 <= Len(m)
      BY <1>2, <2>a
    <3> QED
      BY Zenon, <1>3, <2>3, <2>4, <2>5, <3>1
  <2>8. q + 2 <= Len(m) =>
            DecodeName(m, p) = [labels |-> <<<<98>>, <<97>>>>, next |-> q + 3]
    <3> SUFFICES ASSUME q + 2 <= Len(m)
                 PROVE  DecodeName(m, p) = [labels |-> <<<<98>>, <<97>>>>, next |-> q + 3]
      OBVIOUS
    <3>1. /\ DecodeName(m, q) # Overrun /\ DecodeName(m, q).next = q + 3
          /\ DecodeName(m, q).labels = <<<<97>>>>
      BY <2>6 DEF Overrun
    <3>2. <<<<98>>>> \o <<<<97>>>> = <<<<98>>, <<97>>>>
      BY Zenon, PairJoined
    <3>3. p + 2 <= Len(m)
      BY <1>2, <2>a
    <3> QED
      BY Zenon, <2>4, <3>1, <3>2, <3>3
  <2>9. q + 2 <= Len(m) => /\ DecodeName(m, p) # Overrun /\ DecodeName(m, p).next = q + 3
                           /\ DecodeName(m, p).labels = <<<<98>>, <<97>>>>
    BY <2>8 DEF Overrun
  <2>10. Dotted(<<<<98>>, <<97>>>>) = <<98, 46, 97>>
    <3>1. <<98>> \o <<46>> \o <<97>> = <<98, 46, 97>>
      <4>1. PICK x \in Nat, y \in Nat, z \in Nat : x = 98 /\ y = 46 /\ z = 97
        OBVIOUS
      <4>2. <<x>> \o <<y>> \o <<z>> = <<x, y, z>>
        BY Zenon, ThreeJoined
      <4> QED
        BY Zenon, <4>1, <4>2
    <3> QED
      BY Zenon, <3>1, DottedTwo
  <2>11. s + Len(sp) + 1 = q + 3 /\ s + Len(sp) = q + 2
    BY <1>1, <2>1, <2>a
  <2> QED
    BY Zenon, <1>1, <1>5, <2>7, <2>9, <2>10, <2>11 DEF OwnerRead, sp
<1>6. CASE owner = <<>> /\ Spelled(owner) = <<PointerMark, 12>>
  <2> DEFINE sp == Spelled(owner)
  <2>1. Len(sp) = 2 /\ sp[1] = PointerMark
    BY <1>6
  <2> HIDE DEF sp
  <2>2. p <= Len(m) => m[p] = PointerMark
    <3>1. 1 \in 1..Len(sp)
      BY <2>1
    <3> QED
      BY Zenon, <1>1, <2>1, <3>1 DEF Lies, sp
  <2>3. p <= Len(m) => DecodeName(m, p) = [labels |-> <<>>, next |-> p + 2]
    BY <1>1, <2>2, NameOver
  <2>4. p <= Len(m) => /\ DecodeName(m, p) # Overrun /\ DecodeName(m, p).next = p + 2
                       /\ DecodeName(m, p).labels = <<>>
    BY <1>1, <2>3 DEF Overrun
  <2>5. Dotted(<<>>) = <<>>
    BY DEF Dotted
  <2>6. /\ s + Len(sp) + 1 = p + 2 /\ (s + Len(sp) <= Len(m) => p <= Len(m))
        /\ p <= Len(m) \/ p > Len(m)
    BY <1>1, <1>2, <2>1
  <2> QED
    BY Zenon, <1>1, <1>3, <1>6, <2>4, <2>5, <2>6 DEF OwnerRead, sp
<1> QED
  BY Zenon, <1>4, <1>5, <1>6, SpelledBytes

\* What is taken of a record: nothing, if the ten bytes behind its owner are not
\* wholly there; then its owner and as much of its address as there is.
Got(m, s, r, n) == [name |-> r.owner, address |-> Slice(m, s + n + 11, 4)]
RecordTaken(m, s, r, n) ==
    /\ ~(s + n + 10 <= Len(m)) => Stops(m, s + 1)
    /\ s + n + 10 <= Len(m) =>
          /\ ~Stops(m, s + 1)
          /\ Behind(m, s + 1) = s + Len(RecordBytes(r)) + 1
          /\ r.type = 1 => AnswerAt(m, s + 1) = <<Got(m, s, r, n)>>
          /\ r.type # 1 => AnswerAt(m, s + 1) = <<>>

LEMMA LowByte ==
  ASSUME NEW m, NEW p, NEW v \in Nat, m[p] = 0, m[p + 1] = v
  PROVE  U16(m, p) = v
BY DEF U16

LEMMA RecordIsTaken ==
  ASSUME NEW m \in Seq(Nat), NEW s \in Nat, NEW r \in ResourceRecords, Lies(m, s, RecordBytes(r))
  PROVE  RecordTaken(m, s, r, Len(Spelled(r.owner)))
<1> DEFINE b == RecordBytes(r)
           sp == Spelled(r.owner)
           d == DecodeName(m, s + 1)
<1>1. PICK n \in Nat : n = Len(sp)
  BY ResourceRecordTypes, SpelledBytes, LenProperties
<1>2. RecordOf(b, r, n)
  BY <1>1, RecordBytesAre
<1>3. Len(m) \in Nat
  BY LenProperties
<1> HIDE DEF b, sp, d
<1>4. PICK l \in Nat : l = Len(r.data)
  BY Zenon, <1>2 DEF RecordOf
<1>5. /\ Len(b) = n + 10 + l /\ \A k \in 1..n : b[k] = sp[k]
      /\ b[n + 1] = 0 /\ b[n + 2] = r.type /\ b[n + 9] = 0 /\ b[n + 10] = l
  BY Zenon, <1>2, <1>4 DEF RecordOf, sp
<1>6. Lies(m, s, sp)
  <2>1. ASSUME NEW k \in 1..n, s + k <= Len(m)
        PROVE  m[s + k] = sp[k]
    <3>1. k \in 1..Len(b)
      BY <1>5
    <3> QED
      BY Zenon, <1>5, <2>1, <3>1 DEF Lies, b
  <2> QED
    BY Zenon, <1>1, <2>1 DEF Lies
<1>7. OwnerRead(m, s, r.owner, n)
  BY Zenon, <1>1, <1>6, ResourceRecordTypes, OwnerIsRead DEF sp
<1>8. /\ d = Overrun \/ d.next = s + n + 1
      /\ s + n <= Len(m) => d # Overrun /\ d.next = s + n + 1 /\ Dotted(d.labels) = r.owner
  BY Zenon, <1>7 DEF OwnerRead, d
<1>9. PICK head \in Nat : head = s + n + 1
  OBVIOUS
<1>10. ASSUME ~(s + n + 10 <= Len(m))
       PROVE  Stops(m, s + 1)
  <2>1. ~Within(m, head, 10)
    BY <1>3, <1>9, <1>10 DEF Within
  <2> QED
    BY Zenon, <1>8, <1>9, <2>1 DEF Stops, d
<1>11. ASSUME s + n + 10 <= Len(m)
       PROVE  /\ ~Stops(m, s + 1)
              /\ Behind(m, s + 1) = s + Len(b) + 1
              /\ r.type = 1 => AnswerAt(m, s + 1) = <<Got(m, s, r, n)>>
              /\ r.type # 1 => AnswerAt(m, s + 1) = <<>>
  <2>1. s + n <= Len(m) /\ Within(m, head, 10)
    BY <1>3, <1>9, <1>11 DEF Within
  <2>2. d # Overrun /\ d.next = head /\ Dotted(d.labels) = r.owner
    BY Zenon, <1>8, <1>9, <2>1
  <2>3. ~Stops(m, s + 1)
    BY Zenon, <2>1, <2>2 DEF Stops, d
  <2>4. \A k \in 1..(n + 10) : m[s + k] = b[k]
    <3> SUFFICES ASSUME NEW k \in 1..(n + 10) PROVE m[s + k] = b[k]
      OBVIOUS
    <3>1. k \in 1..Len(b) /\ s + k <= Len(m)
      BY <1>3, <1>5, <1>11
    <3> QED
      BY Zenon, <3>1 DEF Lies, b
  <2>5. /\ m[head] = 0 /\ m[head + 1] = r.type /\ m[head + 8] = 0 /\ m[head + 8 + 1] = l
    <3>1. /\ n + 1 \in 1..(n + 10) /\ n + 2 \in 1..(n + 10) /\ n + 9 \in 1..(n + 10)
          /\ n + 10 \in 1..(n + 10)
          /\ s + (n + 1) = head /\ s + (n + 2) = head + 1 /\ s + (n + 9) = head + 8
          /\ s + (n + 10) = head + 8 + 1
      BY <1>9
    <3>2. /\ m[s + (n + 1)] = b[n + 1] /\ m[s + (n + 2)] = b[n + 2]
          /\ m[s + (n + 9)] = b[n + 9] /\ m[s + (n + 10)] = b[n + 10]
      BY Zenon, <2>4, <3>1
    <3> QED
      BY Zenon, <1>5, <3>1, <3>2
  <2>6. U16(m, head) = r.type /\ U16(m, head + 8) = l
    <3>1. PICK t \in Nat : t = r.type
      BY ResourceRecordTypes
    <3>2. U16(m, head) = t
      BY Zenon, <2>5, <3>1, LowByte
    <3>3. PICK p \in Nat : p = head + 8
      OBVIOUS
    <3>4. U16(m, p) = l
      BY Zenon, <2>5, <3>3, LowByte
    <3> QED
      BY Zenon, <3>1, <3>2, <3>3, <3>4
  <2>7. Behind(m, s + 1) = s + Len(b) + 1
    <3>1. head + 10 + l = s + Len(b) + 1
      BY <1>5, <1>9
    <3> QED
      BY Zenon, <2>2, <2>6, <3>1 DEF Behind, d
  <2>8. head + 10 = s + n + 11
    BY <1>9
  <2>9. r.type = 1 => U16(m, head) = 1 /\ U16(m, head + 8) = 4
    <3>1. r.type = 1 => Len(r.data) = 4
      BY ResourceRecordTypes
    <3> QED
      BY Zenon, <1>4, <2>6, <3>1
  <2>10. r.type = 1 => AnswerAt(m, s + 1) = <<Got(m, s, r, n)>>
    BY Zenon, <2>2, <2>8, <2>9 DEF AnswerAt, Got, d
  <2>11. r.type # 1 => AnswerAt(m, s + 1) = <<>>
    BY Zenon, <2>2, <2>6 DEF AnswerAt, d
  <2> QED
    BY Zenon, <2>3, <2>7, <2>10, <2>11
<1> QED
  BY Zenon, <1>1, <1>10, <1>11 DEF RecordTaken, b, sp

\* The address that is taken is the record's, if the message holds all of it, and
\* no whole address otherwise.
AddressOf(m, s, r, n) ==
    LET a == Got(m, s, r, n).address
    IN  /\ a \in Seq(Nat)
        /\ s + Len(RecordBytes(r)) <= Len(m) => a = r.data
        /\ ~(s + Len(RecordBytes(r)) <= Len(m)) => Len(a) < 4

LEMMA AddressTaken ==
  ASSUME NEW m \in Seq(Nat), NEW s \in Nat, NEW r \in ResourceRecords, Lies(m, s, RecordBytes(r)),
         r.type = 1, NEW n, n = Len(Spelled(r.owner)), s + n + 10 <= Len(m)
  PROVE  AddressOf(m, s, r, n)
<1> DEFINE b == RecordBytes(r)
           a == Slice(m, s + n + 11, 4)
<1>1. n \in Nat /\ Len(m) \in Nat
  BY ResourceRecordTypes, SpelledBytes, LenProperties
<1>2. RecordOf(b, r, n)
  BY RecordBytesAre
<1> HIDE DEF b
<1>3. r.data \in Seq(Nat) /\ Len(r.data) = 4
  BY ResourceRecordTypes
<1>4. /\ Len(b) = n + 14 /\ \A k \in 1..4 : b[n + 10 + k] = r.data[k]
  <2>1. Len(b) = n + 10 + 4 /\ \A k \in 1..4 : b[n + 10 + k] = r.data[k]
    BY Zenon, <1>2, <1>3 DEF RecordOf
  <2> QED
    BY <1>1, <2>1
<1>a. Len(b) = n + 14
  BY <1>4
<1>5. PICK lo \in Nat : lo = s + n + 11
  BY <1>1
<1>6. PICK hi \in Nat : hi = IF lo + 4 - 1 <= Len(m) THEN lo + 4 - 1 ELSE Len(m)
  BY <1>1
<1>7. lo - 1 <= hi /\ hi <= Len(m) /\ hi <= lo + 3
  BY <1>1, <1>5, <1>6
<1>8. a = SubSeq(m, lo, hi)
  BY Zenon, <1>5, <1>6 DEF Slice
<1> HIDE DEF a
<1>9. /\ a \in Seq(Nat) /\ Len(a) = hi - lo + 1
      /\ \A i \in 1..(hi - lo + 1) : a[i] = m[lo + i - 1]
  <2>1. \A i \in lo..hi : i \in 1..Len(m)
    BY <1>1, <1>5, <1>7
  <2>2. \A i \in lo..hi : m[i] \in Nat
    BY <2>1, ElementOfSeq
  <2>3. lo \in Int /\ hi \in Int
    OBVIOUS
  <2>4. LET c == SubSeq(m, lo, hi)
        IN  /\ c \in Seq(Nat) /\ Len(c) = IF lo <= hi THEN hi - lo + 1 ELSE 0
            /\ \A i \in 1..(hi - lo + 1) : c[i] = m[lo + i - 1]
    BY <2>2, <2>3, SubSeqProperties
  <2>5. Len(a) = IF lo <= hi THEN hi - lo + 1 ELSE 0
    BY Zenon, <1>8, <2>4
  <2>6. Len(a) = hi - lo + 1
    BY <1>7, <2>5
  <2> QED
    BY Zenon, <1>8, <2>4, <2>6
<1>10. ASSUME s + Len(b) <= Len(m)
       PROVE  a = r.data
  <2>1. hi = lo + 3 /\ hi - lo + 1 = 4
    BY <1>1, <1>a, <1>5, <1>6, <1>10
  <2>2. ASSUME NEW k \in 1..4
        PROVE  a[k] = r.data[k]
    <3>1. PICK j \in Nat : j = n + 10 + k
      BY <1>1
    <3>2. j \in 1..Len(b) /\ s + j <= Len(m) /\ s + j = lo + k - 1
      BY <1>1, <1>a, <1>5, <1>10, <3>1
    <3>3. m[s + j] = b[j]
      BY Zenon, <3>2 DEF Lies, b
    <3>4. a[k] = m[lo + k - 1]
      BY Zenon, <1>9, <2>1
    <3> QED
      BY Zenon, <1>4, <3>1, <3>2, <3>3, <3>4
  <2>3. Len(a) = Len(r.data) /\ \A k \in 1..Len(a) : a[k] = r.data[k]
    BY Zenon, <1>3, <1>9, <2>1, <2>2
  <2> QED
    BY Zenon, <1>3, <1>9, <2>3, SeqEqual
<1>11. ASSUME ~(s + Len(b) <= Len(m))
       PROVE  Len(a) < 4
  <2>1. PICK c \in Nat : c = Len(m)
    BY <1>1
  <2>2. ~(lo + 4 - 1 <= c)
    BY <1>1, <1>a, <1>5, <1>11, <2>1
  <2>3. hi = c
    BY Zenon, <1>6, <2>1, <2>2
  <2>4. hi - lo + 1 < 4
    BY <2>2, <2>3
  <2> QED
    BY Zenon, <1>9, <2>4
<1> QED
  BY Zenon, <1>9, <1>10, <1>11 DEF a, b, Got, AddressOf

\* Where the records of a message stand.
RecordPlaced(records, i) ==
    LET s == Start(records, i)
        l == Len(Spelled(records[i].owner))
        b == RecordBytes(records[i])
    IN  /\ s \in Nat /\ l \in Nat /\ Len(b) \in Nat /\ 10 + l <= Len(b)
        /\ DataStart(records, i) = s + l + 10
        /\ DataEnd(records, i) = s + Len(b)
        /\ Lies(MessageBytes(records), s, b)

LEMMA RecordsPlaced ==
  ASSUME NEW records \in Seq(ResourceRecords), NEW n \in Nat, n = Len(records), NEW i \in 1..n
  PROVE  RecordPlaced(records, i)
<1> DEFINE l == Len(Spelled(records[i].owner))
           b == RecordBytes(records[i])
<1>1. records[i] \in ResourceRecords
  BY ElementOfSeq
<1>2. PICK k \in 0..n : k = i - 1 /\ i = k + 1
  <2>1. i - 1 \in 0..n /\ i = (i - 1) + 1
    OBVIOUS
  <2> QED
    BY <2>1
<1>3. PICK s \in Nat : s = Len(MessageUpTo(records, k))
  BY Zenon, <1>2, RecordsLie
<1>4. Start(records, i) = s
  BY Zenon, <1>2, <1>3 DEF Start
<1>5. Len(MessageUpTo(records, i)) = s + Len(b) /\ Lies(MessageBytes(records), s, b)
  BY Zenon, <1>2, <1>3, RecordsLie
<1>6. PICK x \in Nat : x = i + 1 /\ x - 1 = i
  <2>1. i + 1 \in Nat /\ (i + 1) - 1 = i
    OBVIOUS
  <2> QED
    BY <2>1
<1>7. DataEnd(records, i) = s + Len(b)
  <2>1. DataEnd(records, i) = Start(records, x)
    BY Zenon, <1>6 DEF DataEnd
  <2>2. Start(records, x) = Len(MessageUpTo(records, i))
    BY Zenon, <1>6 DEF Start
  <2> QED
    BY Zenon, <1>5, <2>1, <2>2
<1>8. l \in Nat /\ Len(b) = l + 10 + Len(records[i].data) /\ Len(records[i].data) \in Nat
  BY Zenon, <1>1, RecordBytesAre DEF RecordOf
<1> HIDE DEF l, b
<1>9. Len(b) \in Nat /\ 10 + l <= Len(b)
  <2>1. PICK p \in Nat, q \in Nat : p = l /\ q = Len(records[i].data)
    BY Zenon, <1>8
  <2>2. p + 10 + q \in Nat /\ 10 + p <= p + 10 + q
    OBVIOUS
  <2> QED
    BY Zenon, <1>8, <2>1, <2>2
<1> QED
  BY Zenon, <1>4, <1>5, <1>7, <1>8, <1>9 DEF RecordPlaced, DataStart, l, b

\* Later records have their data later.
LEMMA DataFurther ==
  ASSUME NEW records \in Seq(ResourceRecords), NEW n \in Nat, n = Len(records),
         NEW j \in 1..n, NEW i \in 1..n, j <= i
  PROVE  DataStart(records, j) <= DataStart(records, i)
<1> DEFINE D(k) == DataStart(records, k)
           T == {d \in Nat : \A k \in 1..n : j + d = k => D(j) <= D(k)}
<1>1. \A k \in 1..n : D(k) \in Nat
  <2> SUFFICES ASSUME NEW k \in 1..n PROVE D(k) \in Nat
    OBVIOUS
  <2>1. RecordPlaced(records, k)
    BY Zenon, RecordsPlaced
  <2> QED
    BY <2>1 DEF RecordPlaced
<1>2. \A k \in 1..n, l \in 1..n : l = k + 1 => D(k) <= D(l)
  <2> SUFFICES ASSUME NEW k \in 1..n, NEW l \in 1..n, l = k + 1 PROVE D(k) <= D(l)
    OBVIOUS
  <2>1. RecordPlaced(records, k) /\ RecordPlaced(records, l)
    BY Zenon, RecordsPlaced
  <2>2. DataEnd(records, k) = Start(records, l)
    BY Zenon DEF DataEnd
  <2>3. PICK s \in Nat, x \in Nat, y \in Nat :
           /\ DataStart(records, k) = s + x + 10 /\ DataEnd(records, k) = s + y /\ 10 + x <= y
    BY Zenon, <2>1 DEF RecordPlaced
  <2>4. PICK e \in Nat, z \in Nat : Start(records, l) = e /\ DataStart(records, l) = e + z + 10
    BY Zenon, <2>1 DEF RecordPlaced
  <2>5. e = s + y
    BY Zenon, <2>2, <2>3, <2>4
  <2>6. s + x + 10 <= e + z + 10
    BY <2>3, <2>5
  <2> QED
    BY Zenon, <2>3, <2>4, <2>6
<1> HIDE DEF D
<1>3. 0 \in T
  BY <1>1
<1>4. ASSUME NEW d \in Nat, d \in T
      PROVE  d + 1 \in T
  <2> SUFFICES ASSUME NEW l \in 1..n, j + (d + 1) = l PROVE D(j) <= D(l)
    OBVIOUS
  <2>1. PICK k \in 1..n : j + d = k /\ l = k + 1
    <3>1. j + d \in 1..n /\ l = (j + d) + 1
      OBVIOUS
    <3> QED
      BY <3>1
  <2>2. D(j) <= D(k) /\ D(k) <= D(l)
    BY <1>2, <1>4, <2>1
  <2>3. D(j) \in Nat /\ D(k) \in Nat /\ D(l) \in Nat
    BY <1>1
  <2> QED
    BY <2>2, <2>3
<1>5. \A d \in Nat : d \in T
  <2> HIDE DEF T
  <2> QED
    BY <1>3, <1>4, Induction
<1>6. i - j \in Nat /\ j + (i - j) = i
  OBVIOUS
<1> QED
  BY <1>5, <1>6 DEF D

\* The addresses of a message whose data begins before its end, of the records
\* behind the first c.
Begun(records, cut, c) ==
    {i \in 1..Len(records) : /\ i > c /\ records[i].type = 1
                             /\ DataStart(records, i) <= cut}
GotOf(records, m, i) ==
    Got(m, Start(records, i), records[i], Len(Spelled(records[i].owner)))

LEMMA SetOfJoined ==
  ASSUME NEW X, NEW t \in Seq(X), NEW g \in X
  PROVE  <<g>> \o t \in Seq(X) /\ ToSet(<<g>> \o t) = {g} \cup ToSet(t)
<1> DEFINE u == <<g>> \o t
<1>1. <<g>> \in Seq(X) /\ Len(<<g>>) = 1 /\ <<g>>[1] = g
  OBVIOUS
<1>2. PICK n \in Nat : n = Len(t)
  BY LenProperties
<1>3. /\ u \in Seq(X) /\ Len(u) = 1 + n /\ u[1] = g
      /\ \A i \in 1..n : u[1 + i] = t[i]
  BY <1>1, <1>2, ConcatProperties
<1>4. DOMAIN u = 1..(n + 1) /\ DOMAIN t = 1..n
  BY <1>2, <1>3
<1> HIDE DEF u
<1>5. ASSUME NEW i \in 1..(n + 1)
      PROVE  u[i] = g \/ \E k \in 1..n : u[i] = t[k]
  <2>1. i = 1 \/ \E k \in 1..n : i = 1 + k
    <3>1. i = 1 \/ (i - 1 \in 1..n /\ i = 1 + (i - 1))
      OBVIOUS
    <3> QED
      BY <3>1
  <2> QED
    BY Zenon, <1>3, <2>1
<1>6. 1 \in 1..(n + 1) /\ \A k \in 1..n : 1 + k \in 1..(n + 1)
  OBVIOUS
<1>7. ToSet(u) = {g} \cup ToSet(t)
  <2>1. ToSet(u) = {u[i] : i \in 1..(n + 1)} /\ ToSet(t) = {t[i] : i \in 1..n}
    BY Zenon, <1>4 DEF ToSet
  <2>2. \A x : x \in ToSet(u) => x = g \/ x \in ToSet(t)
    BY Zenon, <1>5, <2>1
  <2>3. \A x : x = g \/ x \in ToSet(t) => x \in ToSet(u)
    BY Zenon, <1>3, <1>6, <2>1
  <2> HIDE DEF ToSet
  <2> QED
    BY <2>2, <2>3
<1> QED
  BY Zenon, <1>3, <1>7 DEF u

\* What is read of the records behind the first c, from where they begin.
ReadFrom(read, d, records, m, c) == read[d][Len(MessageUpTo(records, c)) + 1]
AllRead(records, m) == {GotOf(records, m, i) : i \in 1..Len(records)}
BehindRead(read, d, records, m, c) ==
    LET answers == ReadFrom(read, d, records, m, c)
    IN  /\ answers \in Seq(AllRead(records, m))
        /\ ToSet(answers) = {GotOf(records, m, i) : i \in Begun(records, Len(m), c)}

\* One record is read, or none any more.
LEMMA OneMoreRead ==
  ASSUME NEW records \in Seq(ResourceRecords), NEW n \in Nat, n = Len(records),
         NEW m \in Seq(Nat), NEW cut \in 0..Len(MessageBytes(records)),
         m = SubSeq(MessageBytes(records), 1, cut),
         NEW read, Reading(read, m, n),
         NEW d \in Nat, NEW e \in 1..n, e = d + 1, NEW c \in 0..n, NEW j \in 1..n, j = c + 1,
         BehindRead(read, d, records, m, j)
  PROVE  BehindRead(read, e, records, m, c)
<1> DEFINE r == records[j]
           s == Start(records, j)
           l == Len(Spelled(r.owner))
           G(i) == GotOf(records, m, i)
           X == AllRead(records, m)
           t == ReadFrom(read, d, records, m, j)
           All(k) == Begun(records, Len(m), k)
<1>1. r \in ResourceRecords
  BY ElementOfSeq
<1>2. /\ s \in Nat /\ l \in Nat /\ DataStart(records, j) = s + l + 10
      /\ DataEnd(records, j) = s + Len(RecordBytes(r)) /\ Lies(MessageBytes(records), s, RecordBytes(r))
  BY Zenon, RecordsPlaced DEF RecordPlaced
<1>3. Lies(m, s, RecordBytes(r))
  <2>1. MessageBytes(records) \in Seq(Nat)
    <3>1. n \in 0..n
      OBVIOUS
    <3> QED
      BY Zenon, <3>1, MessageGrows DEF MessageBytes
  <2> HIDE DEF r, s
  <2> QED
    BY Zenon, <1>2, <2>1, CutLies
<1>4. RecordTaken(m, s, r, l)
  BY Zenon, <1>1, <1>2, <1>3, RecordIsTaken
<1>5. PICK p \in Nat : p = s + 1 /\ p \in Positions
  BY <1>2 DEF Positions
<1>6. Len(MessageUpTo(records, c)) = s /\ Len(MessageUpTo(records, j)) = s + Len(RecordBytes(r))
  <2>1. PICK x \in Nat : x = j + 1 /\ x - 1 = j /\ j - 1 = c
    <3>1. j + 1 \in Nat /\ (j + 1) - 1 = j /\ j - 1 = c
      OBVIOUS
    <3> QED
      BY <3>1
  <2>2. DataEnd(records, j) = Start(records, x)
    BY Zenon, <2>1 DEF DataEnd
  <2>3. Start(records, x) = Len(MessageUpTo(records, j)) /\ Start(records, j) = Len(MessageUpTo(records, c))
    BY Zenon, <2>1 DEF Start
  <2> QED
    BY Zenon, <1>2, <2>2, <2>3
<1>7. ReadFrom(read, e, records, m, c) =
        IF Stops(m, p) THEN <<>> ELSE AnswerAt(m, p) \o read[d][Behind(m, p)]
  <2>1. \A k \in 1..n : \A i : i = k - 1 =>
          read[k][p] = IF Stops(m, p) THEN <<>> ELSE AnswerAt(m, p) \o read[i][Behind(m, p)]
    BY <1>5, ReadingStep
  <2>2. d = e - 1
    OBVIOUS
  <2> HIDE DEF s
  <2> QED
    BY Zenon, <1>5, <1>6, <2>1, <2>2 DEF ReadFrom
<1>8. t \in Seq(X) /\ ToSet(t) = {G(i) : i \in All(j)}
  BY Zenon DEF BehindRead
<1>9. Len(m) \in Nat /\ Len(m) = cut
  BY CutMessage, MessageGrows, LenProperties DEF MessageBytes
<1>10. j \in DOMAIN records /\ G(j) \in X
  <2>1. G(j) \in X
    BY Zenon DEF AllRead
  <2> QED
    BY <2>1
<1>11. \A i \in 1..n : i > c <=> i = j \/ i > j
  OBVIOUS
<1> HIDE DEF r, s, l, G, X, t, All
<1>12. ASSUME ~(s + l + 10 <= Len(m))
       PROVE  BehindRead(read, e, records, m, c)
  <2>1. ReadFrom(read, e, records, m, c) = <<>>
    BY Zenon, <1>4, <1>5, <1>7, <1>12 DEF RecordTaken
  <2>2. ASSUME NEW i \in 1..n, i > c
        PROVE  ~(DataStart(records, i) <= Len(m))
    <3>1. DataStart(records, j) <= DataStart(records, i)
      <4>1. j <= i
        BY <2>2
      <4> QED
        BY Zenon, <4>1, DataFurther
    <3>2. DataStart(records, i) \in Nat /\ s + l + 10 \in Nat
      <4>1. RecordPlaced(records, i)
        BY Zenon, RecordsPlaced
      <4>2. PICK x \in Nat, y \in Nat : DataStart(records, i) = x + y + 10
        BY Zenon, <4>1 DEF RecordPlaced
      <4>3. PICK v \in Nat, w \in Nat : v = s /\ w = l
        BY Zenon, <1>2
      <4>4. x + y + 10 \in Nat /\ v + w + 10 \in Nat
        OBVIOUS
      <4> QED
        BY Zenon, <4>2, <4>3, <4>4
    <3>3. PICK x \in Nat, y \in Nat : x = DataStart(records, i) /\ y = DataStart(records, j)
      BY Zenon, <1>2, <3>2
    <3>4. y <= x /\ ~(y <= Len(m))
      BY Zenon, <1>2, <1>12, <3>1, <3>3
    <3>5. ~(x <= Len(m))
      BY <1>9, <3>4
    <3> QED
      BY Zenon, <3>3, <3>5
  <2>3. All(c) = {}
    BY Zenon, <2>2 DEF Begun, All
  <2>4. <<>> \in Seq(X) /\ ToSet(<<>>) = {}
    BY DEF ToSet
  <2> QED
    BY Zenon, <2>1, <2>3, <2>4 DEF BehindRead, X, All
<1>13. ASSUME s + l + 10 <= Len(m)
       PROVE  BehindRead(read, e, records, m, c)
  <2>1. /\ ~Stops(m, p) /\ Behind(m, p) = s + Len(RecordBytes(r)) + 1
        /\ r.type = 1 => AnswerAt(m, p) = <<G(j)>>
        /\ r.type # 1 => AnswerAt(m, p) = <<>>
    BY Zenon, <1>4, <1>5, <1>13 DEF RecordTaken, G, GotOf, s, r, l
  <2>2. ReadFrom(read, e, records, m, c) = AnswerAt(m, p) \o t
    BY Zenon, <1>6, <1>7, <2>1 DEF t, ReadFrom
  <2>3. CASE r.type = 1
    <3>1. ReadFrom(read, e, records, m, c) = <<G(j)>> \o t
      BY Zenon, <2>1, <2>2, <2>3
    <3>2. /\ <<G(j)>> \o t \in Seq(X) /\ ToSet(<<G(j)>> \o t) = {G(j)} \cup ToSet(t)
      BY Zenon, <1>8, <1>10, SetOfJoined
    <3>3. All(c) = {j} \cup All(j)
      <4>1. \A i : i \in All(c) <=> i = j \/ i \in All(j)
        BY Zenon, <1>2, <1>11, <1>13, <2>3 DEF Begun, All, r
      <4> QED
        BY <4>1
    <3>4. ToSet(<<G(j)>> \o t) = {G(i) : i \in All(c)}
      BY <1>8, <3>2, <3>3
    <3> QED
      BY Zenon, <3>1, <3>2, <3>4 DEF BehindRead, X, All, G
  <2>4. CASE r.type # 1
    <3>1. ReadFrom(read, e, records, m, c) = <<>> \o t
      BY Zenon, <2>1, <2>2, <2>4
    <3>2. <<>> \o t = t
      BY <1>8, EmptySeq, ConcatEmptySeq
    <3>3. All(c) = All(j)
      <4>1. \A i : i \in All(c) <=> i \in All(j)
        BY Zenon, <1>11, <2>4 DEF Begun, All, r
      <4> QED
        BY <4>1
    <3> QED
      BY Zenon, <1>8, <3>1, <3>2, <3>3 DEF BehindRead, X, All, G
  <2> QED
    BY Zenon, <2>3, <2>4
<1> QED
  BY Zenon, <1>12, <1>13

LEMMA RecordsRead ==
  ASSUME NEW records \in Seq(ResourceRecords), NEW n \in Nat, n = Len(records),
         NEW m \in Seq(Nat), NEW cut \in 0..Len(MessageBytes(records)),
         m = SubSeq(MessageBytes(records), 1, cut), NEW read, Reading(read, m, n)
  PROVE  BehindRead(read, n, records, m, 0)
<1> DEFINE T == {d \in Nat : \A c \in 0..n : c + d = n => BehindRead(read, d, records, m, c)}
<1>1. 0 \in T
  <2> SUFFICES ASSUME NEW c \in 0..n, c + 0 = n PROVE BehindRead(read, 0, records, m, c)
    OBVIOUS
  <2>1. c = n
    OBVIOUS
  <2>2. Len(MessageUpTo(records, c)) \in Nat
    BY Zenon, MessageParts
  <2>3. Len(MessageUpTo(records, c)) + 1 \in Positions
    BY <2>2 DEF Positions
  <2>4. ReadFrom(read, 0, records, m, c) = <<>>
    BY <2>3, ReadingStep DEF ReadFrom
  <2>5. Begun(records, Len(m), c) = {}
    <3>1. \A i \in 1..Len(records) : ~(i > c)
      BY <2>1
    <3> QED
      BY Zenon, <3>1 DEF Begun
  <2>6. <<>> \in Seq(AllRead(records, m)) /\ ToSet(<<>>) = {}
    BY DEF ToSet
  <2> QED
    BY Zenon, <2>4, <2>5, <2>6 DEF BehindRead
<1>2. ASSUME NEW d \in Nat, d \in T
      PROVE  d + 1 \in T
  <2> SUFFICES ASSUME NEW c \in 0..n, c + (d + 1) = n PROVE BehindRead(read, d + 1, records, m, c)
    OBVIOUS
  <2>1. PICK j \in 1..n, e \in 1..n : j = c + 1 /\ e = d + 1 /\ j + d = n /\ j \in 0..n
    <3>1. c + 1 \in 1..n /\ d + 1 \in 1..n /\ (c + 1) + d = n /\ c + 1 \in 0..n
      OBVIOUS
    <3> QED
      BY <3>1
  <2>2. BehindRead(read, d, records, m, j)
    BY <1>2, <2>1
  <2>3. BehindRead(read, e, records, m, c)
    BY Zenon, <2>1, <2>2, OneMoreRead
  <2> QED
    BY Zenon, <2>1, <2>3
<1>3. n \in T
  <2> HIDE DEF T
  <2> QED
    BY <1>1, <1>2, Induction
<1>4. 0 \in 0..n /\ 0 + n = n
  OBVIOUS
<1> QED
  BY Zenon, <1>3, <1>4

\* The question is read, unless the message ends within its name; then no data
\* begins before its end.
LEMMA QuestionRead ==
  ASSUME NEW records \in Seq(ResourceRecords), NEW n \in Nat, n = Len(records),
         NEW m \in Seq(Nat), NEW cut \in 0..Len(MessageBytes(records)),
         m = SubSeq(MessageBytes(records), 1, cut),
         NEW message, message.qdcount = 1, message.body = m
  PROVE  \/ AfterQuestions(message) = Len(MessageUpTo(records, 0)) + 1
         \/ AfterQuestions(message) = 0 /\ Begun(records, Len(m), 0) = {}
<1> DEFINE q == Question
           sp == Spelled(<<97>>)
           d == DecodeName(m, 1)
           M == MessageBytes(records)
<1>1. sp = <<1, 97, 0>> /\ <<97>> \in Names \cup {<<>>}
  BY SpelledBytes DEF Names
<1>2. q = <<1, 97, 0>> \o <<0, 1, 0, 1>>
  BY Zenon, <1>1 DEF Question
<1>3. /\ q \in Seq(Nat) /\ Len(q) = 7 /\ q[1] = 1 /\ q[2] = 97 /\ q[3] = 0
  BY <1>2
<1>4. MessageUpTo(records, 0) = q
  BY Zenon, MessageGrows
<1> HIDE DEF q, sp
<1>5. Begins(q, M) /\ M \in Seq(Nat)
  <2>1. 0 \in 0..n /\ n \in 0..n
    OBVIOUS
  <2>2. Begins(MessageUpTo(records, 0), M) /\ MessageUpTo(records, n) \in Seq(Nat)
    BY Zenon, <2>1, MessageParts, MessageGrows
  <2> QED
    BY Zenon, <1>4, <2>2 DEF MessageBytes
<1>6. Len(sp) = 3 /\ sp[1] = 1 /\ sp[2] = 97 /\ sp[3] = 0
  BY <1>1
<1>7. Lies(M, 0, sp)
  <2> HIDE DEF M
  <2>1. \A i \in 1..3 : i = 1 \/ i = 2 \/ i = 3
    OBVIOUS
  <2>2. 1 \in 1..7 /\ 2 \in 1..7 /\ 3 \in 1..7 /\ 0 + 1 = 1 /\ 0 + 2 = 2 /\ 0 + 3 = 3
    OBVIOUS
  <2>3. M[1] = 1 /\ M[2] = 97 /\ M[3] = 0
    BY Zenon, <1>3, <1>5, <2>2 DEF Begins
  <2>4. \A i \in 1..3 : M[0 + i] = sp[i]
    <3>1. \A i \in 1..3 : 0 + i = i
      OBVIOUS
    <3>2. M[1] = sp[1] /\ M[2] = sp[2] /\ M[3] = sp[3]
      BY Zenon, <1>6, <2>3
    <3>3. \A i \in 1..3 : M[i] = sp[i]
      BY Zenon, <2>1, <3>2
    <3> QED
      BY Zenon, <3>1, <3>3
  <2> QED
    BY Zenon, <1>6, <2>4 DEF Lies
<1>8. Lies(m, 0, sp)
  <2>1. 0 \in Nat
    OBVIOUS
  <2> HIDE DEF M
  <2>2. cut \in 0..Len(M) /\ m = SubSeq(M, 1, cut)
    BY Zenon DEF M
  <2> QED
    BY Zenon, <1>5, <1>7, <2>1, <2>2, CutLies
<1>9. OwnerRead(m, 0, <<97>>, 3)
  <2>1. 0 \in Nat
    OBVIOUS
  <2>2. PICK owner \in Names \cup {<<>>} : owner = <<97>>
    BY Zenon, <1>1
  <2>3. Len(Spelled(owner)) = 3 /\ Lies(m, 0, Spelled(owner))
    BY Zenon, <1>6, <1>8, <2>2 DEF sp
  <2>4. OwnerRead(m, 0, owner, Len(Spelled(owner)))
    BY <2>1, <2>3, OwnerIsRead
  <2> QED
    BY Zenon, <2>2, <2>3, <2>4
<1>10. /\ d = Overrun \/ d.next = 4
       /\ 3 <= Len(m) => d # Overrun
  <2>1. 0 + 1 = 1 /\ 0 + 3 + 1 = 4 /\ 0 + 3 = 3
    OBVIOUS
  <2> QED
    BY Zenon, <1>9, <2>1 DEF OwnerRead
<1>11. AfterQuestions(message) = IF d = Overrun THEN 0 ELSE d.next + 4
  BY Zenon, OneQuestion
<1> HIDE DEF d
<1>12. CASE d # Overrun
  <2>1. 4 + 4 = 7 + 1
    OBVIOUS
  <2> QED
    BY Zenon, <1>3, <1>4, <1>10, <1>11, <1>12, <2>1
<1>13. CASE d = Overrun
  <2>1. ~(3 <= Len(m)) /\ Len(m) \in Nat
    BY <1>10, <1>13, LenProperties
  <2>2. ASSUME NEW i \in 1..n
        PROVE  ~(DataStart(records, i) <= Len(m))
    <3>1. RecordPlaced(records, i)
      BY Zenon, RecordsPlaced
    <3>2. PICK s \in Nat, l \in Nat : DataStart(records, i) = s + l + 10
      BY Zenon, <3>1 DEF RecordPlaced
    <3> QED
      BY <2>1, <3>2
  <2>3. Begun(records, Len(m), 0) = {}
    BY Zenon, <2>2 DEF Begun
  <2> QED
    BY Zenon, <1>11, <1>13, <2>3
<1> QED
  BY Zenon, <1>12, <1>13

\* The answers of a message that is cut short.
Keeps(message, records, m, cut) ==
    ToSet(Answers(message)) = {GotOf(records, m, i) : i \in Begun(records, cut, 0)}

LEMMA AnswersOfCut ==
  ASSUME NEW records \in Seq(ResourceRecords), NEW n \in Nat, n = Len(records),
         NEW m \in Seq(Nat), NEW cut \in 0..Len(MessageBytes(records)),
         m = SubSeq(MessageBytes(records), 1, cut),
         NEW message, message.qdcount = 1, message.body = m, message.ancount = n
  PROVE  Keeps(message, records, m, cut)
<1>1. PICK read : /\ Reading(read, m, n)
                  /\ Answers(message) = IF AfterQuestions(message) = 0 THEN <<>>
                                        ELSE read[n][AfterQuestions(message)]
  BY Zenon, AnswersRead
<1>2. BehindRead(read, n, records, m, 0)
  BY Zenon, <1>1, RecordsRead
<1>3. Len(m) = cut
  <2>1. MessageBytes(records) \in Seq(Nat)
    <3>1. n \in 0..n
      OBVIOUS
    <3> QED
      BY Zenon, <3>1, MessageGrows DEF MessageBytes
  <2> QED
    BY <2>1, CutMessage
<1>4. CASE AfterQuestions(message) = Len(MessageUpTo(records, 0)) + 1
  <2>1. Len(MessageUpTo(records, 0)) + 1 # 0
    <3>1. Len(MessageUpTo(records, 0)) \in Nat
      <4>1. 0 \in 0..n
        OBVIOUS
      <4> QED
        BY Zenon, <4>1, MessageParts
    <3> QED
      BY <3>1
  <2>2. Answers(message) = ReadFrom(read, n, records, m, 0)
    BY Zenon, <1>1, <1>4, <2>1 DEF ReadFrom
  <2> QED
    BY Zenon, <1>2, <1>3, <2>2 DEF BehindRead, Keeps
<1>5. CASE AfterQuestions(message) = 0 /\ Begun(records, Len(m), 0) = {}
  <2>1. ToSet(<<>>) = {}
    BY DEF ToSet
  <2>2. Answers(message) = <<>>
    BY Zenon, <1>1, <1>5
  <2>3. {GotOf(records, m, i) : i \in Begun(records, cut, 0)} = {}
    BY Zenon, <1>3, <1>5
  <2> QED
    BY Zenon, <2>1, <2>2, <2>3 DEF Keeps
<1> QED
  BY Zenon, <1>4, <1>5, QuestionRead

\* The two frames of a capture, and which of them its file holds.
UdpFrame(message) ==
    [ethertype |-> "ipv4", protocol |-> "udp", headers |-> TRUE, port |-> 53, dst |-> <<>>,
     payload |-> message]
TcpFrame(hello, dst) ==
    [ethertype |-> "ipv4", protocol |-> "tcp", headers |-> TRUE, port |-> 443, dst |-> dst,
     payload |-> hello]

LEMMA CapturedPayloads ==
  ASSUME NEW message, NEW hello, NEW dst, NEW complete \in 0..2
  PROVE  LET file == Capture(message, hello, dst, complete)
         IN  /\ Payloads(file, "udp") = IF complete > 0 THEN {UdpFrame(message)} ELSE {}
             /\ Payloads(file, "tcp") = IF complete = 2 THEN {TcpFrame(hello, dst)} ELSE {}
<1> DEFINE file == Capture(message, hello, dst, complete)
           whole == {file.frames[i] : i \in 1..complete}
           u == UdpFrame(message)
           t == TcpFrame(hello, dst)
<1>1. /\ file.known = TRUE /\ file.complete = complete
      /\ file.frames[1] = u /\ file.frames[2] = t
  BY DEF Capture, UdpFrame, TcpFrame
<1>2. /\ u.ethertype = "ipv4" /\ u.protocol = "udp" /\ u.headers = TRUE
      /\ t.ethertype = "ipv4" /\ t.protocol = "tcp" /\ t.headers = TRUE
  BY DEF UdpFrame, TcpFrame
<1>3. "udp" # "tcp"
  OBVIOUS
<1> HIDE DEF file, u, t
<1>4. \A protocol : Payloads(file, protocol) =
         {frame \in whole : frame.ethertype = "ipv4" /\ frame.protocol = protocol /\ frame.headers}
  BY Zenon, <1>1 DEF Payloads
<1>5. CASE complete = 0
  <2>1. whole = {}
    BY <1>5
  <2>2. ~(complete > 0) /\ complete # 2
    BY <1>5
  <2> QED
    BY Zenon, <1>4, <2>1, <2>2 DEF file, u, t
<1>6. CASE complete = 1
  <2>1. whole = {u}
    <3>1. \A i : i \in 1..complete <=> i = 1
      BY <1>6
    <3>a. \A i \in 1..complete : file.frames[i] = u
      BY <1>1, <1>6
    <3>b. 1 \in 1..complete
      BY <1>6
    <3>2. \A x : x \in whole => x = u
      BY Zenon, <3>a
    <3>3. u \in whole
      BY Zenon, <3>a, <3>b
    <3> HIDE DEF whole
    <3> QED
      BY <3>2, <3>3
  <2>2. complete > 0 /\ complete # 2
    BY <1>6
  <2> HIDE DEF whole
  <2>3. Payloads(file, "udp") = {u} /\ Payloads(file, "tcp") = {}
    BY <1>2, <1>3, <1>4, <2>1
  <2> QED
    BY Zenon, <2>2, <2>3 DEF file, u, t
<1>7. CASE complete = 2
  <2>1. whole = {u, t}
    <3>1. \A i : i \in 1..complete <=> i = 1 \/ i = 2
      BY <1>7
    <3>2. \A x : x \in whole <=> x = u \/ x = t
      BY Zenon, <1>1, <3>1
    <3> HIDE DEF whole
    <3> QED
      BY <3>2
  <2>2. complete > 0 /\ complete = 2
    BY <1>7
  <2> HIDE DEF whole
  <2>3. Payloads(file, "udp") = {u} /\ Payloads(file, "tcp") = {t}
    BY <1>2, <1>3, <1>4, <2>1
  <2> QED
    BY Zenon, <2>2, <2>3 DEF file, u, t
<1>8. complete = 0 \/ complete = 1 \/ complete = 2
  OBVIOUS
<1> QED
  BY Zenon, <1>5, <1>6, <1>7, <1>8

\* What a call that reads a capture makes of it.
MessageOf(records, cut, header) ==
    [header |-> header, qdcount |-> 1, ancount |-> Len(records),
     body |-> SubSeq(MessageBytes(records), 1, cut)]
CaptureOf(records, cut, complete, dst, name, header) ==
    Capture(MessageOf(records, cut, header), Hello(name, FALSE, FALSE), dst, complete)
Kept(records, cut) ==
    {GotOf(records, SubSeq(MessageBytes(records), 1, cut), i) : i \in Begun(records, cut, 0)}

LEMMA AnswersFound ==
  ASSUME NEW records \in Seq(ResourceRecords), NEW cut \in 0..Len(MessageBytes(records)),
         NEW complete \in 0..2, NEW dst, NEW name, NEW header
  PROVE  DnsAnswers(CaptureOf(records, cut, complete, dst, name, header)) =
            IF complete > 0 /\ header = "response" THEN Kept(records, cut) ELSE {}
<1> DEFINE file == CaptureOf(records, cut, complete, dst, name, header)
           message == MessageOf(records, cut, header)
           u == UdpFrame(message)
           messages == {frame \in Payloads(file, "udp") :
                          /\ frame.port = 53
                          /\ frame.payload.header = "response" /\ frame.payload.ancount > 0}
           m == SubSeq(MessageBytes(records), 1, cut)
<1>1. PICK n \in Nat : n = Len(records)
  BY LenProperties
<1>2. /\ u.port = 53 /\ u.payload = message /\ message.header = header
      /\ message.ancount = n /\ message.qdcount = 1 /\ message.body = m
  BY <1>1 DEF UdpFrame, MessageOf
<1>3. m \in Seq(Nat)
  <2>1. MessageBytes(records) \in Seq(Nat)
    <3>1. n \in 0..n
      OBVIOUS
    <3> QED
      BY Zenon, <1>1, <3>1, MessageGrows DEF MessageBytes
  <2> QED
    BY <2>1, CutMessage
<1> HIDE DEF m
<1>4. ToSet(Answers(message)) = Kept(records, cut)
  <2> HIDE DEF message
  <2>1. m = SubSeq(MessageBytes(records), 1, cut)
    BY Zenon DEF m
  <2>2. message.qdcount = 1 /\ message.body = m /\ message.ancount = n
    BY <1>2
  <2>3. Keeps(message, records, m, cut)
    BY <1>1, <1>3, <2>1, <2>2, AnswersOfCut
  <2> QED
    BY Zenon, <2>3 DEF Keeps, Kept, m
<1>5. n = 0 => Kept(records, cut) = {}
  <2>1. n = 0 => 1..Len(records) = {}
    BY <1>1
  <2> QED
    BY Zenon, <2>1 DEF Kept, Begun
<1>6. Payloads(file, "udp") = IF complete > 0 THEN {u} ELSE {}
  BY Zenon, CapturedPayloads DEF CaptureOf
<1>7. DnsAnswers(file) = UNION {ToSet(Answers(frame.payload)) : frame \in messages}
  BY Zenon DEF DnsAnswers
<1>8. n = 0 \/ n > 0
  OBVIOUS
<1> HIDE DEF file, message, u
<1>9. CASE complete > 0 /\ header = "response" /\ n > 0
  <2>1. messages = {u}
    BY <1>2, <1>6, <1>9
  <2>2. {ToSet(Answers(frame.payload)) : frame \in messages} = {Kept(records, cut)}
    <3> HIDE DEF messages
    <3> QED
      BY Zenon, <1>2, <1>4, <2>1
  <2>3. UNION {Kept(records, cut)} = Kept(records, cut)
    OBVIOUS
  <2> QED
    BY Zenon, <1>7, <1>9, <2>2, <2>3 DEF file
<1>10. CASE ~(complete > 0 /\ header = "response" /\ n > 0)
  <2>1. messages = {}
    BY <1>2, <1>6, <1>10
  <2>2. UNION {ToSet(Answers(frame.payload)) : frame \in messages} = {}
    <3> HIDE DEF messages
    <3> QED
      BY <2>1
  <2> QED
    BY Zenon, <1>5, <1>7, <1>8, <1>10, <2>2 DEF file
<1> QED
  BY Zenon, <1>9, <1>10

LEMMA WholeHello ==
  ASSUME NEW name \in Names
  PROVE  HelloName(Hello(name, FALSE, FALSE)) = name /\ name # NoName
<1> DEFINE E == Extensions(name, FALSE, FALSE)
           H == Hello(name, FALSE, FALSE)
<1>1. name \in Seq(Nat) /\ Len(name) # 0 /\ name # NoName
  <2>1. /\ <<97>> \in Seq(Nat) /\ Len(<<97>>) # 0 /\ <<97>> # <<>>
        /\ <<98, 46, 97>> \in Seq(Nat) /\ Len(<<98, 46, 97>>) # 0 /\ <<98, 46, 97>> # <<>>
    OBVIOUS
  <2> QED
    BY Zenon, <2>1 DEF Names, NoName
<1>2. PICK n \in Nat : n = Len(name) /\ n # 0
  BY <1>1, LenProperties
<1>3. ExtensionsOf(E, name, FALSE, FALSE, Place(FALSE))
  BY Zenon, <1>1, ExtensionBytes
<1>4. HelloOf(H, E)
  BY Zenon, <1>3, HelloBytes DEF ExtensionsOf
<1>5. Place(FALSE) = 0
  BY Zenon DEF Place
<1> HIDE DEF E, H
<1>6. Len(E) = n + 9
  <2>1. Len(E) = 0 + (n + 9) + 0
    BY Zenon, <1>2, <1>3, <1>5 DEF ExtensionsOf
  <2> QED
    BY <2>1
<1>7. H \in Seq(Nat) /\ Len(H) = 62 + n
  BY <1>4, <1>6 DEF HelloOf
<1>8. SubSeq(H, 1, Len(H)) = H /\ Len(H) \in 0..Len(H)
  BY <1>7, SubSeqFull
<1>9. HelloName(SubSeq(H, 1, Len(H))) = SubSeq(name, 1, Part(Len(H), 62 + Place(FALSE), n))
  BY Zenon, <1>1, <1>2, <1>8, CutHello DEF H
<1>10. Part(Len(H), 62 + Place(FALSE), n) = n
  <2>a. 62 + 0 = 62 /\ 62 \in Nat
    OBVIOUS
  <2>b. 62 + Place(FALSE) = 62
    BY Zenon, <1>5, <2>a
  <2>1. PICK s \in Nat, c \in Nat : s = 62 /\ c = Len(H) /\ 62 + Place(FALSE) = s
    <3>1. Len(H) \in Nat
      BY <1>7
    <3> QED
      BY Zenon, <2>a, <2>b, <3>1
  <2>2. c = s + n
    BY <1>7, <2>1
  <2>3. Part(c, s, n) = n
    BY <1>2, <2>2 DEF Part
  <2> QED
    BY Zenon, <2>1, <2>3
<1>11. SubSeq(name, 1, n) = name
  BY <1>1, <1>2, SubSeqFull
<1> QED
  BY Zenon, <1>1, <1>8, <1>9, <1>10, <1>11 DEF H

LEMMA SnisFound ==
  ASSUME NEW records, NEW cut, NEW complete \in 0..2, NEW dst, NEW name \in Names, NEW header
  PROVE  SniRecords(CaptureOf(records, cut, complete, dst, name, header)) =
            IF complete = 2 THEN {[dst |-> dst, sni |-> name]} ELSE {}
<1> DEFINE file == CaptureOf(records, cut, complete, dst, name, header)
           hello == Hello(name, FALSE, FALSE)
           t == TcpFrame(hello, dst)
           record == [dst |-> dst, sni |-> name]
<1>1. t.dst = dst /\ t.payload = hello
  BY DEF TcpFrame
<1>2. HelloName(hello) = name /\ name # NoName
  BY Zenon, WholeHello
<1>3. Payloads(file, "tcp") = IF complete = 2 THEN {t} ELSE {}
  BY Zenon, CapturedPayloads DEF CaptureOf
<1> HIDE DEF file, t, hello
<1>4. SniRecords(file) =
         {r \in {[dst |-> frame.dst, sni |-> HelloName(frame.payload)] : frame \in Payloads(file, "tcp")} :
             r.sni # NoName}
  BY Zenon DEF SniRecords
<1>5. record.sni = name
  OBVIOUS
<1>6. CASE complete = 2
  <2>1. {[dst |-> frame.dst, sni |-> HelloName(frame.payload)] : frame \in Payloads(file, "tcp")} = {record}
    BY Zenon, <1>1, <1>2, <1>3, <1>6
  <2> HIDE DEF record
  <2>2. SniRecords(file) = {record}
    BY <1>2, <1>4, <1>5, <2>1
  <2> QED
    BY Zenon, <1>6, <2>2 DEF file, record
<1>7. CASE complete # 2
  <2>1. SniRecords(file) = {}
    BY <1>3, <1>4, <1>7
  <2> QED
    BY Zenon, <1>7, <2>1 DEF file
<1> QED
  BY Zenon, <1>6, <1>7

\* Which of the addresses that are read is the one that was connected to: those
\* of a record that holds it, if the capture holds all of its data.
LEMMA AddressIs ==
  ASSUME NEW records \in Seq(ResourceRecords), NEW cut \in 0..Len(MessageBytes(records)),
         NEW i \in Begun(records, cut, 0), NEW dst \in Addresses \cup {<<10, 0, 0, 3>>}
  PROVE  LET g == GotOf(records, SubSeq(MessageBytes(records), 1, cut), i)
         IN  /\ g.name = records[i].owner
             /\ g.address = dst <=> /\ DataEnd(records, i) <= cut
                                    /\ records[i].data = dst
<1> DEFINE M == MessageBytes(records)
           m == SubSeq(M, 1, cut)
           r == records[i]
           s == Start(records, i)
           l == Len(Spelled(r.owner))
           b == RecordBytes(r)
           a == Got(m, s, r, l).address
           end == DataEnd(records, i)
<1>1. PICK n \in Nat : n = Len(records)
  BY LenProperties
<1>2. i \in 1..n /\ r.type = 1 /\ DataStart(records, i) <= cut
  BY Zenon, <1>1 DEF Begun
<1>3. r \in ResourceRecords
  BY <1>1, <1>2, ElementOfSeq
<1>4. M \in Seq(Nat)
  <2>1. n \in 0..n
    OBVIOUS
  <2> QED
    BY Zenon, <1>1, <2>1, MessageGrows DEF MessageBytes
<1> HIDE DEF M, r, s, b
<1>5. m \in Seq(Nat) /\ Len(m) = cut
  BY <1>4, CutMessage DEF M
<1>6. /\ s \in Nat /\ l \in Nat /\ Len(b) \in Nat /\ DataStart(records, i) = s + l + 10
      /\ end = s + Len(b) /\ Lies(M, s, b)
  BY Zenon, <1>1, <1>2, RecordsPlaced DEF RecordPlaced, s, b, r, M
<1>7. Lies(m, s, b)
  BY Zenon, <1>4, <1>6, CutLies DEF M
<1> HIDE DEF m, l, a, end
<1>8. s + l + 10 <= Len(m)
  BY Zenon, <1>2, <1>5, <1>6
<1>10. /\ a \in Seq(Nat)
       /\ s + Len(b) <= Len(m) => a = r.data
       /\ ~(s + Len(b) <= Len(m)) => Len(a) < 4
  <2>1. AddressOf(m, s, r, l)
    BY <1>2, <1>3, <1>5, <1>6, <1>7, <1>8, AddressTaken DEF b, l
  <2>2. b = RecordBytes(r) /\ a = Got(m, s, r, l).address
    BY Zenon DEF a, b
  <2> QED
    BY Zenon, <2>1, <2>2 DEF AddressOf
<1>11. dst \in Seq(Nat) /\ Len(dst) = 4
  <2>1. /\ <<10, 0, 0, 1>> \in Seq(Nat) /\ Len(<<10, 0, 0, 1>>) = 4
        /\ <<10, 0, 0, 2>> \in Seq(Nat) /\ Len(<<10, 0, 0, 2>>) = 4
        /\ <<10, 0, 0, 3>> \in Seq(Nat) /\ Len(<<10, 0, 0, 3>>) = 4
    OBVIOUS
  <2> QED
    BY Zenon, <2>1 DEF Addresses
<1>12. ~(s + Len(b) <= Len(m)) => a # dst
  <2>1. ~(4 < 4)
    OBVIOUS
  <2> QED
    BY Zenon, <1>10, <1>11, <2>1
<1>13. a = dst <=> end <= cut /\ r.data = dst
  BY Zenon, <1>5, <1>6, <1>10, <1>12
<1>14. Got(m, s, r, l).name = r.owner
  BY DEF Got
<1> QED
  BY Zenon, <1>13, <1>14 DEF GotOf, a, end, l, s, r, m, M

\* What CaptureTellsAnswered says of one call.
LEMMA CaptureOfCall ==
  ASSUME NEW records \in Seq(ResourceRecords), NEW cut \in 0..Len(MessageBytes(records)),
         NEW complete \in 0..2, NEW dst \in Addresses \cup {<<10, 0, 0, 3>>},
         NEW name \in Names, NEW header, NEW file, NEW answers,
         file = CaptureOf(records, cut, complete, dst, name, header),
         answers = DnsAnswers(file),
         call = [fn |-> "capture",
                 in |-> [records |-> records, cut |-> cut, complete |-> complete, dst |-> dst,
                         name |-> name, header |-> header],
                 out |-> [answers |-> answers,
                          bypass |-> BypassAttempts({dst}, answers),
                          mismatches |-> SniMismatches(SniRecords(file), answers)]]
  PROVE  CaptureTellsAnswered
<1> DEFINE read == IF complete > 0 /\ header = "response" THEN 1..Len(records) ELSE {}
           begun == {i \in read : records[i].type = 1 /\ DataStart(records, i) <= cut}
           whole == {i \in begun : DataEnd(records, i) <= cut}
           Holds(i) == records[i].data = dst
           spelled == {i \in begun : records[i].owner = name}
           m == SubSeq(MessageBytes(records), 1, cut)
           G(i) == GotOf(records, m, i)
           bypass == BypassAttempts({dst}, answers)
           mismatches == SniMismatches(SniRecords(file), answers)
           record == [dst |-> dst, sni |-> name]
           Looked(x) == {a.address : a \in {b \in answers : b.name = x}}
<1>1. PICK n \in Nat : n = Len(records)
  BY LenProperties
<1>2. \A i \in begun : i \in Begun(records, cut, 0)
  <2>1. \A i \in 1..Len(records) : i > 0
    BY <1>1
  <2> QED
    BY Zenon, <2>1 DEF Begun
<1>3. answers = {G(i) : i \in begun}
  <2>1. answers = IF complete > 0 /\ header = "response" THEN Kept(records, cut) ELSE {}
    BY Zenon, AnswersFound
  <2>2. Kept(records, cut) = {G(i) : i \in Begun(records, cut, 0)}
    BY Zenon DEF Kept
  <2>3. CASE complete > 0 /\ header = "response"
    <3>1. begun = Begun(records, cut, 0)
      <4>1. \A i \in 1..Len(records) : i > 0
        BY <1>1
      <4>2. read = 1..Len(records)
        BY Zenon, <2>3
      <4> HIDE DEF read
      <4>3. \A i : i \in begun <=> i \in Begun(records, cut, 0)
        BY Zenon, <4>1, <4>2 DEF Begun
      <4> HIDE DEF begun
      <4> QED
        BY <4>3
    <3> HIDE DEF begun, G
    <3> QED
      BY Zenon, <2>1, <2>2, <2>3, <3>1
  <2>4. CASE ~(complete > 0 /\ header = "response")
    <3>1. begun = {}
      BY Zenon, <2>4
    <3> HIDE DEF begun, G
    <3>2. {G(i) : i \in begun} = {}
      BY <3>1
    <3> QED
      BY Zenon, <2>1, <2>4, <3>2
  <2> QED
    BY Zenon, <2>3, <2>4
<1>4. \A i \in begun : G(i).name = records[i].owner
                       /\ (G(i).address = dst <=> i \in whole /\ Holds(i))
  <2> SUFFICES ASSUME NEW i \in begun
               PROVE  G(i).name = records[i].owner
                      /\ (G(i).address = dst <=> i \in whole /\ Holds(i))
    OBVIOUS
  <2>1. i \in Begun(records, cut, 0)
    BY <1>2
  <2>2. /\ G(i).name = records[i].owner
        /\ G(i).address = dst <=> /\ DataEnd(records, i) <= cut
                                  /\ records[i].data = dst
    BY Zenon, <2>1, AddressIs
  <2> QED
    BY Zenon, <2>2
<1>5. SniRecords(file) = IF complete = 2 THEN {record} ELSE {}
  BY Zenon, SnisFound
<1>6. record.sni = name /\ record.dst = dst
  OBVIOUS
<1> HIDE DEF G, begun, read, record
<1>7. \A x : x \in ResolvedAddresses(answers) <=> \E i \in begun : x = G(i).address
  BY Zenon, <1>3 DEF ResolvedAddresses
<1>8. \A x : x \in Looked(name) <=> \E i \in spelled : x = G(i).address
  BY Zenon, <1>3, <1>4
<1>9. bypass = {} <=> \E i \in whole : Holds(i)
  <2>1. bypass = {dst} \ ResolvedAddresses(answers)
    BY Zenon DEF BypassAttempts
  <2>2. bypass = {} <=> dst \in ResolvedAddresses(answers)
    BY <2>1
  <2> QED
    BY Zenon, <1>4, <1>7, <2>2
<1>10. dst \in Looked(name) <=> \E i \in spelled \cap whole : Holds(i)
  BY Zenon, <1>4, <1>8
<1>11. Looked(name) # {} <=> spelled # {}
  <2> DEFINE K == Looked(name)
             Sp == spelled
  <2>1. \A x : x \in K <=> \E i \in Sp : x = G(i).address
    BY Zenon, <1>8
  <2> HIDE DEF K, Sp
  <2>2. K # {} <=> Sp # {}
    BY <2>1
  <2> QED
    BY Zenon, <2>2 DEF K, Sp
<1>12. mismatches = {r \in SniRecords(file) : Looked(r.sni) # {} /\ r.dst \notin Looked(r.sni)}
  BY Zenon DEF SniMismatches
<1>13. mismatches # {} <=> complete = 2 /\ Looked(name) # {} /\ dst \notin Looked(name)
  <2> DEFINE Differs(r) == Looked(r.sni) # {} /\ r.dst \notin Looked(r.sni)
  <2>1. Differs(record) <=> Looked(name) # {} /\ dst \notin Looked(name)
    BY Zenon, <1>6
  <2>2. mismatches = {r \in SniRecords(file) : Differs(r)}
    BY Zenon, <1>12
  <2> HIDE DEF Differs, mismatches
  <2>3. mismatches # {} <=> complete = 2 /\ Differs(record)
    BY <1>5, <2>2
  <2> QED
    BY Zenon, <2>1, <2>3 DEF mismatches
<1>14. /\ call.in.records = records /\ call.in.cut = cut /\ call.in.complete = complete
       /\ call.in.dst = dst /\ call.in.name = name /\ call.in.header = header
       /\ call.out.bypass = bypass /\ call.out.mismatches = mismatches
  OBVIOUS
<1> HIDE DEF bypass, mismatches, Looked
<1>15. mismatches # {} <=> /\ complete = 2 /\ spelled # {}
                           /\ ~\E i \in spelled \cap whole : Holds(i)
  BY Zenon, <1>10, <1>11, <1>13
<1> QED
  BY Zenon, <1>9, <1>14, <1>15 DEF CaptureTellsAnswered, begun, read

-----------------------------------------------------------------------------
(* The theorems *)

\* A sequence of a bounded length is a sequence.
LEMMA BoundedSequences ==
  ASSUME NEW S, NEW n \in Nat, NEW s \in SeqsUpTo(S, n)
  PROVE  s \in Seq(S) /\ Len(s) <= n
<1>1. PICK k \in 0..n : s \in [1..k -> S]
  BY DEF SeqsUpTo
<1>2. k \in Nat
  BY <1>1
<1> QED
  BY <1>1, <1>2, SeqDef

\* What an event is does not depend on the stage it happened in.
LEMMA StageMakesNoRule ==
  ASSUME NEW e \in Acts, NEW stage
  PROVE  /\ Rule([e EXCEPT !.stage = stage]) = Rule(e)
         /\ [e EXCEPT !.stage = stage].stage = stage
         /\ e.stage \in {"install", "import"}
<1>1. e = [type |-> e.type, stage |-> e.stage, exe |-> e.exe, pip |-> e.pip, barred |-> e.barred]
      /\ e.stage \in {"install", "import"}
  BY DEF Acts
<1> DEFINE f == [e EXCEPT !.stage = stage]
<1>2. f.type = e.type /\ f.exe = e.exe /\ f.pip = e.pip /\ f.barred = e.barred /\ f.stage = stage
  BY <1>1
<1> HIDE DEF f
<1>3. Rule(f) = Rule(e)
  BY <1>2 DEF Rule
<1> QED
  BY <1>1, <1>2, <1>3 DEF f

\* The number of a severity, of the worst it can be.
LEMMA Steps ==
  ASSUME NEW severity, NEW n \in 1..5,
         <<"INFO", "LOW", "MEDIUM", "HIGH", "CRITICAL">>[n] = severity
  PROVE  (CHOOSE k \in 1..5 : <<"INFO", "LOW", "MEDIUM", "HIGH", "CRITICAL">>[k] = severity) = n
<1> DEFINE steps == <<"INFO", "LOW", "MEDIUM", "HIGH", "CRITICAL">>
<1>1. \A k, l \in 1..5 : steps[k] = steps[l] => k = l
  OBVIOUS
<1> HIDE DEF steps
<1>2. \A k \in 1..5 : steps[k] = severity => k = n
  BY <1>1 DEF steps
<1> QED
  BY <1>2 DEF steps

LEMMA VerdictOfAnalyze ==
  ASSUME NEW c, c.in \in Seq(Acts), c.out = Analyze(c.in)
  PROVE  LET events == c.in
             later == [i \in 1..Len(events) |-> [events[i] EXCEPT !.stage = "import"]]
             Pip(e) == e.exe = "pip" \/ (e.exe = "python" /\ e.pip)
             steps == <<"INFO", "LOW", "MEDIUM", "HIGH", "CRITICAL">>
             Step(severity) == CHOOSE n \in 1..5 : steps[n] = severity
             bad == [i \in c.out.found |-> Step(SeverityOf(Rule(events[i])))]
             overall == Step(c.out.severity)
         IN  /\ \A i \in Found(later) \ c.out.found : events[i].stage = "install" /\ Pip(events[i])
             /\ \A i \in c.out.found : overall >= bad[i] - 1
             /\ \A i, k \in c.out.found : i # k /\ bad[i] = bad[k] => overall >= bad[i]
<1> DEFINE events == c.in
           later == [i \in 1..Len(events) |-> [events[i] EXCEPT !.stage = "import"]]
           Pip(e) == e.exe = "pip" \/ (e.exe = "python" /\ e.pip)
           steps == <<"INFO", "LOW", "MEDIUM", "HIGH", "CRITICAL">>
           Step(severity) == CHOOSE n \in 1..5 : steps[n] = severity
           bad == [i \in c.out.found |-> Step(SeverityOf(Rule(events[i])))]
           overall == Step(c.out.severity)
           score == Score(events)
<1>1. c.out.found = Found(events) /\ c.out.severity = Severity(score)
  BY DEF Analyze
\* Only a call of pip can be exempt, and only in a stage of the harness.
<1>2. ASSUME NEW i \in Found(later) \ c.out.found
      PROVE  events[i].stage = "install" /\ Pip(events[i])
  <2>1. Len(events) \in Nat /\ later \in [1..Len(events) -> {later[k] : k \in 1..Len(events)}]
    BY LenProperties
  <2>2. Len(later) = Len(events)
    BY <2>1
  <2>3. i \in 1..Len(events) /\ Rule(later[i]) # "none"
    BY <2>2 DEF Found
  <2>4. events[i] \in Acts
    BY <2>3, ElementOfSeq
  <2>5. Rule(events[i]) = Rule(later[i]) /\ events[i].stage \in {"install", "import"}
    BY <2>3, <2>4, StageMakesNoRule
  <2>6. Exempt(events[i])
    BY <1>1, <2>3, <2>5 DEF Found
  <2>7. events[i].stage \in {"build", "install"} /\ Rule(events[i]) = "python.runtime_install"
    BY <2>6 DEF Exempt
  <2>8. Pip(events[i])
    BY <2>7 DEF Rule
  <2> QED
    BY <2>5, <2>7, <2>8
<1>3. ASSUME NEW i \in c.out.found
      PROVE  \/ bad[i] = 3 /\ Worth(events[i]) = 25
             \/ bad[i] = 4 /\ Worth(events[i]) = 45
             \/ bad[i] = 5 /\ Worth(events[i]) = 70
  <2>1. Rule(events[i]) # "none" /\ bad[i] = Step(SeverityOf(Rule(events[i])))
    BY <1>1 DEF Found
  <2>2. steps[3] = "MEDIUM" /\ steps[4] = "HIGH" /\ steps[5] = "CRITICAL"
    OBVIOUS
  <2>3. Step("MEDIUM") = 3 /\ Step("HIGH") = 4 /\ Step("CRITICAL") = 5
    BY <2>2, Steps
  <2> HIDE DEF Step, bad
  <2> QED
    BY <2>1, <2>3, Worths
<1>4. /\ score \in Nat
      /\ \A i \in c.out.found : Worth(events[i]) <= score
      /\ \A i, k \in c.out.found :
            i # k => Worth(events[i]) + Worth(events[k]) <= score \/ score = 100
  BY <1>1, ScoreAbove
<1>5. overall = IF score >= 80 THEN 5 ELSE IF score >= 60 THEN 4
                ELSE IF score >= 40 THEN 3 ELSE IF score >= 20 THEN 2 ELSE 1
  <2>1. /\ steps[1] = "INFO" /\ steps[2] = "LOW" /\ steps[3] = "MEDIUM"
        /\ steps[4] = "HIGH" /\ steps[5] = "CRITICAL"
    OBVIOUS
  <2>2. /\ Step("INFO") = 1 /\ Step("LOW") = 2 /\ Step("MEDIUM") = 3
        /\ Step("HIGH") = 4 /\ Step("CRITICAL") = 5
    BY <2>1, Steps
  <2> HIDE DEF Step, score
  <2> QED
    BY <1>1, <2>2 DEF Severity
<1> HIDE DEF overall, bad, score
<1>6. \A i \in c.out.found : overall >= bad[i] - 1
  BY <1>3, <1>4, <1>5
<1>7. ASSUME NEW i \in c.out.found, NEW k \in c.out.found, i # k, bad[i] = bad[k]
      PROVE  overall >= bad[i]
  <2>1. Worth(events[i]) + Worth(events[k]) <= score \/ score = 100
    BY <1>4, <1>7
  <2> QED
    BY <1>3, <1>4, <1>5, <1>7, <2>1
<1> QED
  BY <1>2, <1>6, <1>7 DEF overall, bad

\* A call answers what it was asked: the input is one of those enumerated, the
\* output what the operator makes of it.
IsCapture(c, records, cut, complete, dst, name, header) ==
    LET file == CaptureOf(records, cut, complete, dst, name, header)
        answers == DnsAnswers(file)
    IN  c = [fn |-> "capture",
             in |-> [records |-> records, cut |-> cut, complete |-> complete, dst |-> dst,
                     name |-> name, header |-> header],
             out |-> [answers |-> answers,
                      bypass |-> BypassAttempts({dst}, answers),
                      mismatches |-> SniMismatches(SniRecords(file), answers)]]
Answered(c) ==
    /\ c.fn = "respond" =>
          \E query \in Queries :
             c = [fn |-> "respond", in |-> query, out |-> Respond(query, SinkholeIp)]
    /\ c.fn = "capture" =>
          \E records \in SeqsUpTo(ResourceRecords, MaxRecords) :
          \E cut \in 0..Len(MessageBytes(records)), complete \in 0..2 :
          \E dst \in Addresses \cup {<<10, 0, 0, 3>>}, name \in Names :
          \E header \in {"response", "query", "short"} :
             IsCapture(c, records, cut, complete, dst, name, header)
    /\ c.fn = "hello" =>
          \E name \in Names \cup {<<>>}, before \in BOOLEAN, after \in BOOLEAN :
          \E cut \in 0..Len(Hello(name, before, after)) :
             c = [fn |-> "hello",
                  in |-> [name |-> name, before |-> before, after |-> after, cut |-> cut],
                  out |-> HelloName(SubSeq(Hello(name, before, after), 1, cut))]
    /\ c.fn = "tree" =>
          \E execs \in SeqsUpTo(Execs, MaxEvents), forks \in SeqsUpTo(Forks, MaxEvents) :
             c = [fn |-> "tree", in |-> execs \o forks, out |-> TreeDepths(execs \o forks)]
    /\ c.fn = "typosquat" =>
          \E name \in SeqsUpTo(Letters, MaxName) \ {<<>>},
             popular \in SeqsUpTo(SeqsUpTo(Letters \cup {Separator}, MaxName) \ {<<>>}, 2) :
             c = [fn |-> "typosquat", in |-> [name |-> name, popular |-> popular],
                  out |-> Typosquat(name, popular)]
    /\ c.fn = "previous" =>
          \E releases \in [Versions -> [uploaded : 0..Cardinality(Versions), files : BOOLEAN]],
             current \in Versions :
             c = [fn |-> "previous", in |-> [releases |-> releases, current |-> current],
                  out |-> PreviousVersion(current, History(releases))]
    /\ c.fn = "analyze" =>
          \E events \in SeqsUpTo(Acts, MaxEvents) :
             c = [fn |-> "analyze", in |-> events, out |-> Analyze(events)]

CallsAnswered == Answered(call)

LEMMA CallsAreAnswered == EvidenceSpec => []CallsAnswered
<1>1. EvidenceInit => CallsAnswered
  BY DEF EvidenceInit, NoCall, CallsAnswered, Answered
<1>2. CallsAnswered /\ [EvidenceNext]_call => CallsAnswered'
  <2> SUFFICES ASSUME CallsAnswered, [EvidenceNext]_call PROVE CallsAnswered'
    OBVIOUS
  <2>1. CASE CallRespond
    <3>1. PICK query \in Queries :
             call' = [fn |-> "respond", in |-> query, out |-> Respond(query, SinkholeIp)]
      BY <2>1 DEF CallRespond, Called
    <3>2. call'.fn \notin {"capture", "tree", "typosquat", "previous", "analyze", "hello"}
      BY <3>1
    <3> QED
      BY <3>1, <3>2 DEF CallsAnswered, Answered
  <2>2. CASE CallReadCapture
    <3>1. PICK records \in SeqsUpTo(ResourceRecords, MaxRecords) :
          \E cut \in 0..Len(MessageBytes(records)), complete \in 0..2 :
          \E dst \in Addresses \cup {<<10, 0, 0, 3>>}, name \in Names :
          \E header \in {"response", "query", "short"} :
             IsCapture(call', records, cut, complete, dst, name, header)
      BY Zenon, <2>2 DEF CallReadCapture, Called, IsCapture, CaptureOf, MessageOf
    <3>2. call'.fn = "capture"
      BY <3>1 DEF IsCapture
    <3> QED
      BY Zenon, <3>1, <3>2 DEF CallsAnswered, Answered
  <2>3. CASE CallHelloName
    <3>1. PICK name \in Names \cup {<<>>}, before \in BOOLEAN, after \in BOOLEAN :
          \E cut \in 0..Len(Hello(name, before, after)) :
             call' = [fn |-> "hello",
                      in |-> [name |-> name, before |-> before, after |-> after, cut |-> cut],
                      out |-> HelloName(SubSeq(Hello(name, before, after), 1, cut))]
      BY Zenon, <2>3 DEF CallHelloName, Called
    <3>2. call'.fn \notin {"capture", "respond", "tree", "typosquat", "previous", "analyze"}
      BY <3>1
    <3> QED
      BY Zenon, <3>1, <3>2 DEF CallsAnswered, Answered
  <2>4. CASE CallTreeDepths
    <3>1. PICK execs \in SeqsUpTo(Execs, MaxEvents), forks \in SeqsUpTo(Forks, MaxEvents) :
             call' = [fn |-> "tree", in |-> execs \o forks, out |-> TreeDepths(execs \o forks)]
      BY <2>4 DEF CallTreeDepths, Called
    <3>2. call'.fn \notin {"capture", "respond", "typosquat", "previous", "analyze", "hello"}
      BY <3>1
    <3> QED
      BY <3>1, <3>2 DEF CallsAnswered, Answered
  <2>5. CASE CallTyposquat
    <3>1. PICK name \in SeqsUpTo(Letters, MaxName) \ {<<>>},
               popular \in SeqsUpTo(SeqsUpTo(Letters \cup {Separator}, MaxName) \ {<<>>}, 2) :
             call' = [fn |-> "typosquat", in |-> [name |-> name, popular |-> popular],
                      out |-> Typosquat(name, popular)]
      BY <2>5 DEF CallTyposquat, Called
    <3>2. call'.fn \notin {"capture", "respond", "tree", "previous", "analyze", "hello"}
      BY <3>1
    <3> QED
      BY <3>1, <3>2 DEF CallsAnswered, Answered
  <2>6. CASE CallPreviousVersion
    <3>1. PICK releases \in [Versions -> [uploaded : 0..Cardinality(Versions), files : BOOLEAN]],
               current \in Versions :
             call' = [fn |-> "previous", in |-> [releases |-> releases, current |-> current],
                      out |-> PreviousVersion(current, History(releases))]
      BY <2>6 DEF CallPreviousVersion, Called
    <3>2. call'.fn \notin {"capture", "respond", "tree", "typosquat", "analyze", "hello"}
      BY <3>1
    <3> QED
      BY <3>1, <3>2 DEF CallsAnswered, Answered
  <2>7. CASE CallDiff
    <3>1. call'.fn = "diff"
      BY <2>7 DEF CallDiff, Called
    <3> QED
      BY <3>1 DEF CallsAnswered, Answered
  <2>8. CASE CallAnalyze
    <3>1. PICK events \in SeqsUpTo(Acts, MaxEvents) :
             call' = [fn |-> "analyze", in |-> events, out |-> Analyze(events)]
      BY <2>8 DEF CallAnalyze, Called
    <3>2. call'.fn \notin {"capture", "respond", "tree", "typosquat", "previous", "hello"}
      BY <3>1
    <3> QED
      BY <3>1, <3>2 DEF CallsAnswered, Answered
  <2>9. CASE UNCHANGED call
    BY <2>9 DEF CallsAnswered
  <2> QED
    BY <2>1, <2>2, <2>3, <2>4, <2>5, <2>6, <2>7, <2>8, <2>9 DEF EvidenceNext
<1> QED
  BY <1>1, <1>2, PTL DEF EvidenceSpec

\* The sinkhole answers the queries whose name ends and that say a type, and no
\* others; and the host's own decoder finds the sinkhole's address in the answer
\* to every whole A question, and none in any other, however long the query is.
THEOREM RepliesReadable == EvidenceSpec => []RepliesAreReadable
<1>1. ASSUME CallsAnswered, call.fn = "respond"
      PROVE  RepliesAreReadable
  <2>1. PICK query \in Queries :
           call = [fn |-> "respond", in |-> query, out |-> Respond(query, SinkholeIp)]
    BY <1>1 DEF CallsAnswered, Answered
  <2>2. query.short \in BOOLEAN /\ query.qdcount \in Nat /\ query.body \in Seq(Nat)
    <3>1. CASE query \in [short : {FALSE}, qdcount : 0..2, body : SeqsUpTo(Bytes, MaxBody)]
      <4>1. query.body \in SeqsUpTo(Bytes, MaxBody) /\ MaxBody \in Nat
        BY <3>1, BoundsAssumption
      <4> DEFINE body == query.body
      <4> HIDE DEF body
      <4>2. body \in Seq(Bytes)
        BY <4>1, BoundedSequences DEF body
      <4>3. body \in Seq(Nat)
        <5>1. Len(body) \in Nat /\ body \in [1..Len(body) -> Bytes]
          BY <4>2, LenProperties
        <5>2. body \in [1..Len(body) -> Nat]
          BY <5>1, BytesAssumption
        <5> QED
          BY <5>1, <5>2, SeqDef
      <4>4. query.short \in {FALSE} /\ query.qdcount \in 0..2
        BY Zenon, <3>1
      <4>5. query.qdcount \in Nat
        BY <4>4
      <4> QED
        BY Zenon, <4>3, <4>4, <4>5 DEF body
    <3>2. CASE query = [short |-> TRUE, qdcount |-> 0, body |-> <<>>]
      BY <3>2
    <3> QED
      BY <3>1, <3>2 DEF Queries
  <2>3. Readable(query, Respond(query, SinkholeIp))
    BY <2>2, ReplyToAny
  <2>4. call.in = query /\ call.out = Respond(query, SinkholeIp)
    BY <2>1
  <2>5. Readable(call.in, call.out)
    BY <2>3, <2>4
  <2> QED
    BY Zenon, <2>5 DEF Readable, RepliesAreReadable
<1>2. CallsAnswered => RepliesAreReadable
  BY <1>1 DEF RepliesAreReadable
<1> QED
  BY <1>2, CallsAreAnswered, PTL

\* An analysis is compared with the release before it, and with no release
\* that has no files, however many releases the registry lists.
THEOREM ComparedWithPredecessor == EvidenceSpec => []LatestMeetsPredecessor
<1>1. ASSUME CallsAnswered, call.fn = "previous"
      PROVE  LatestMeetsPredecessor
  <2>1. PICK releases \in [Versions -> [uploaded : 0..Cardinality(Versions), files : BOOLEAN]],
             current \in Versions :
           call = [fn |-> "previous", in |-> [releases |-> releases, current |-> current],
                   out |-> PreviousVersion(current, History(releases))]
    BY <1>1 DEF CallsAnswered, Answered
  <2>2. /\ call.in.releases \in [Versions -> [uploaded : 0..Cardinality(Versions), files : BOOLEAN]]
        /\ call.in.current \in Versions
        /\ call.out = PreviousVersion(call.in.current, History(call.in.releases))
    BY <2>1
  <2>3. Predecessor(call.in.releases, call.in.current, call.out)
    BY <2>2, PreviousIsPredecessor
  <2> QED
    BY <2>3 DEF Predecessor, LatestMeetsPredecessor
<1>2. CallsAnswered => LatestMeetsPredecessor
  BY <1>1 DEF LatestMeetsPredecessor
<1> QED
  BY <1>2, CallsAreAnswered, PTL

\* Whatever an analysis sees is found, but for the harness's own calls of pip,
\* and its score does not play the worst of it down, however much there is.
THEOREM VerdictSound == EvidenceSpec => []VerdictFollowsActs
<1>1. ASSUME CallsAnswered, call.fn = "analyze"
      PROVE  VerdictFollowsActs
  <2>1. PICK events \in SeqsUpTo(Acts, MaxEvents) :
           call = [fn |-> "analyze", in |-> events, out |-> Analyze(events)]
    BY <1>1 DEF CallsAnswered, Answered
  <2>2. events \in Seq(Acts)
    BY BoundsAssumption, BoundedSequences
  <2>3. call.in \in Seq(Acts) /\ call.out = Analyze(call.in)
    BY <2>1, <2>2
  <2> QED
    BY <2>3, VerdictOfAnalyze DEF VerdictFollowsActs
<1>2. CallsAnswered => VerdictFollowsActs
  BY <1>1 DEF VerdictFollowsActs
<1> QED
  BY <1>2, CallsAreAnswered, PTL

\* In the process tree every node is one deeper than its parent, but for one node
\* of depth 0 in each circle of parents, whatever execs and forks are joined.
THEOREM DepthsRight == EvidenceSpec => []DepthsFollowParents
<1>1. ASSUME CallsAnswered, call.fn = "tree"
      PROVE  DepthsFollowParents
  <2>1. PICK execs \in SeqsUpTo(Execs, MaxEvents), forks \in SeqsUpTo(Forks, MaxEvents) :
           call = [fn |-> "tree", in |-> execs \o forks, out |-> TreeDepths(execs \o forks)]
    BY <1>1 DEF CallsAnswered, Answered
  <2> DEFINE events == execs \o forks
  <2>2. events \in Seq(Execs \cup Forks)
    <3>1. MaxEvents \in Nat
      BY BoundsAssumption
    <3>2. execs \in Seq(Execs) /\ forks \in Seq(Forks)
      BY <3>1, BoundedSequences
    <3>3. execs \in Seq(Execs \cup Forks) /\ forks \in Seq(Execs \cup Forks)
      BY <3>2
    <3> QED
      BY <3>3, ConcatProperties
  <2> HIDE DEF events
  <2>3. Len(events) \in Nat /\ \A k \in 1..Len(events) : events[k] \in Execs \cup Forks
    BY <2>2, LenProperties, ElementOfSeq
  <2>4. \A e \in Execs \cup Forks : e.pid \in Pids \cup {NoPid}
    BY DEF Execs, Forks
  <2>5. Nodes(events) \in Seq(Pids \ {NoPid})
    BY <2>3, <2>4, NodesArePids
  <2>6. call.in = events /\ call.out = TreeDepths(call.in)
    BY <2>1 DEF events
  <2> QED
    BY <2>5, <2>6, DepthsOfCall DEF DepthsFollowParents
<1>2. CallsAnswered => DepthsFollowParents
  BY <1>1 DEF DepthsFollowParents
<1> QED
  BY <1>2, CallsAreAnswered, PTL

\* A popular package is named if and only if none is the same but for separators
\* and one is at most two edits away, and it is the first of the nearest, however
\* long the names are.
THEOREM NearestRight == EvidenceSpec => []NearestNameFound
<1>1. ASSUME CallsAnswered, call.fn = "typosquat"
      PROVE  NearestNameFound
  <2>1. PICK name \in SeqsUpTo(Letters, MaxName) \ {<<>>},
             popular \in SeqsUpTo(SeqsUpTo(Letters \cup {Separator}, MaxName) \ {<<>>}, 2) :
           call = [fn |-> "typosquat", in |-> [name |-> name, popular |-> popular],
                   out |-> Typosquat(name, popular)]
    BY <1>1 DEF CallsAnswered, Answered
  <2>2. MaxName \in Nat
    BY BoundsAssumption
  <2>3. name \in Seq(Letters)
    BY <2>2, BoundedSequences
  <2> DEFINE Listed == SeqsUpTo(Letters \cup {Separator}, MaxName) \ {<<>>}
  <2>4. \A s \in Listed : s \in Seq(Letters \cup {Separator})
    BY <2>2, BoundedSequences
  <2> HIDE DEF Listed
  <2>5. popular \in Seq(Listed)
    BY BoundedSequences DEF Listed
  <2>6. Len(popular) \in Nat /\ \A i \in 1..Len(popular) : popular[i] \in Listed
    BY <2>5, LenProperties, ElementOfSeq
  <2>7. call.in.name = name /\ call.in.popular = popular /\ call.out = Typosquat(name, popular)
    BY <2>1
  <2>8. /\ call.in.name \in Seq(Letters) /\ Len(call.in.popular) \in Nat
        /\ \A i \in 1..Len(call.in.popular) : call.in.popular[i] \in Seq(Letters \cup {Separator})
        /\ call.out = Typosquat(call.in.name, call.in.popular)
    BY <2>3, <2>4, <2>6, <2>7
  <2> QED
    BY <2>8, NearestOfTyposquat DEF NearestNameFound
<1>2. CallsAnswered => NearestNameFound
  BY <1>1 DEF NearestNameFound
<1> QED
  BY <1>2, CallsAreAnswered, PTL

\* A ClientHello cut by the end of its segment yields the part of its name that is
\* there and nothing else, whatever extensions stand around it.
THEOREM CutHelloRight == EvidenceSpec => []CutHelloCutsName
<1>1. ASSUME CallsAnswered, call.fn = "hello"
      PROVE  CutHelloCutsName
  <2>1. PICK name \in Names \cup {<<>>}, before \in BOOLEAN, after \in BOOLEAN :
        \E cut \in 0..Len(Hello(name, before, after)) :
           call = [fn |-> "hello",
                   in |-> [name |-> name, before |-> before, after |-> after, cut |-> cut],
                   out |-> HelloName(SubSeq(Hello(name, before, after), 1, cut))]
    BY Zenon, <1>1 DEF CallsAnswered, Answered
  <2> QED
    BY Zenon, <2>1, CutOfCall
<1>2. CallsAnswered => CutHelloCutsName
  BY <1>1 DEF CutHelloCutsName
<1> QED
  BY <1>2, CallsAreAnswered, PTL

\* A connection to an address that a captured answer holds is no bypass and one to
\* any other is; a mismatch is found if and only if the ClientHello was captured
\* and the answers that spell its name do not hold the address, however many
\* records the resolver's message has and wherever the capture cuts it.
THEOREM CaptureRight == EvidenceSpec => []CaptureTellsAnswered
<1>1. ASSUME CallsAnswered, call.fn = "capture"
      PROVE  CaptureTellsAnswered
  <2>1. PICK records \in SeqsUpTo(ResourceRecords, MaxRecords) :
        \E cut \in 0..Len(MessageBytes(records)), complete \in 0..2 :
        \E dst \in Addresses \cup {<<10, 0, 0, 3>>}, name \in Names :
        \E header \in {"response", "query", "short"} :
           IsCapture(call, records, cut, complete, dst, name, header)
    BY Zenon, <1>1 DEF CallsAnswered, Answered
  <2>2. MaxRecords \in Nat
    BY BoundsAssumption
  <2>3. records \in Seq(ResourceRecords)
    BY <2>2, BoundedSequences
  <2>4. PICK cut \in 0..Len(MessageBytes(records)), complete \in 0..2,
             dst \in Addresses \cup {<<10, 0, 0, 3>>}, name \in Names,
             header \in {"response", "query", "short"} :
           IsCapture(call, records, cut, complete, dst, name, header)
    BY Zenon, <2>1
  <2> QED
    BY Zenon, <2>3, <2>4, CaptureOfCall DEF IsCapture
<1>2. CallsAnswered => CaptureTellsAnswered
  BY <1>1 DEF CaptureTellsAnswered
<1> QED
  BY <1>2, CallsAreAnswered, PTL

=============================================================================
