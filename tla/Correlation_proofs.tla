------------------------- MODULE Correlation_proofs -------------------------
(***************************************************************************)
(* Proofs about the order of events, for any number of stages, happenings  *)
(* and seconds and any window: what the merged list keeps of the true      *)
(* order, and what the pairs and the residual stages made of it are worth. *)
(***************************************************************************)
EXTENDS Correlation, FiniteSetTheorems, SequenceTheorems, WellFoundedInduction, TLAPS

\* The running stage's log holds that stage's reads and connections in the order
\* in which they happened.
LogOrdered ==
    /\ \A k \in DOMAIN trace :
          /\ trace[k].kind \in {"read", "connect"}
          /\ trace[k].stage = stage /\ trace[k].real <= happened
    /\ \A k, l \in DOMAIN trace : k < l => trace[k].real < trace[l].real

\* A stage is running, and has a log, until its end is noted.
Running ==
    /\ Len(ended) = IF phase = "running" THEN stage - 1 ELSE stage
    /\ phase # "running" => trace = <<>>

\* Each event is of a stage that began, and a traced one of a stage that ended;
\* reads come from logs only.
Placed ==
    /\ \A c \in open : c.stage <= stage /\ c.kind = "connect"
    /\ \A i \in DOMAIN merged :
          /\ merged[i].stage <= stage /\ merged[i].stamp <= clock
          /\ merged[i].kind = "read" => Traced(i)
          /\ Traced(i) => merged[i].stage <= Len(ended) /\ merged[i].real <= happened
    /\ \A i \in DOMAIN merged, k \in DOMAIN trace : Traced(i) => merged[i].real < trace[k].real

\* Of two places in the merged list the later one has the later stamp, and if it
\* is traced, no earlier stage; if both are, they are in the true order.
InOrder ==
    \A i, j \in DOMAIN merged : i < j =>
        /\ merged[i].stamp <= merged[j].stamp
        /\ Traced(j) => merged[i].stage <= merged[j].stage
        /\ Traced(i) /\ Traced(j) => merged[i].real < merged[j].real

\* A stage's log is stamped all at once, with nothing in between.
InBlocks ==
    \A i, j \in DOMAIN merged :
        i < j /\ Traced(i) /\ Traced(j) /\ merged[i].stage = merged[j].stage =>
            /\ merged[i].stamp = merged[j].stamp
            /\ \A k \in DOMAIN merged : i < k /\ k < j => Traced(k)

\* A survivor was sampled after its stage ended.
Sighted ==
    /\ \A s \in DOMAIN ended : ended[s] <= Len(merged)
    /\ \A s \in sighted : SampledAfter(s)

\* What happened is recorded once by the log and once by the sinkhole at most.
Counted ==
    /\ IsFiniteSet(open)
    /\ Len(merged) + Len(trace) + Cardinality(open) <= 2 * happened

CorrelationInv ==
    /\ CorrelationTypeOK /\ Counted
    /\ Running /\ LogOrdered /\ Placed /\ InOrder /\ InBlocks /\ Sighted

-----------------------------------------------------------------------------
(* Lemmas about the list *)

\* Min is what it is named for.
LEMMA MinIsLeast ==
  ASSUME NEW S \in SUBSET Nat, S # {}
  PROVE  Min(S) \in S /\ \A n \in S : Min(S) <= n
<1>1. PICK x \in S : \A y \in S : ~(<<y, x>> \in {p \in Nat \X Nat : p[1] < p[2]})
  <2>1. OpToRel(<, Nat) = {p \in Nat \X Nat : p[1] < p[2]}
    BY DEF OpToRel
  <2>2. PICK x \in S : \A y \in S : ~(<<y, x>> \in OpToRel(<, Nat))
    BY NatLessThanWellFounded, WFMin
  <2> QED
    BY <2>1, <2>2
<1>2. \A y \in S : x <= y
  <2> TAKE y \in S
  <2>1. <<y, x>> \in Nat \X Nat /\ <<y, x>>[1] = y /\ <<y, x>>[2] = x
    OBVIOUS
  <2>2. x \in Nat /\ y \in Nat /\ ~(y < x)
    BY <1>1, <2>1
  <2> QED
    BY <2>2
<1> QED
  BY <1>2 DEF Min

LEMMA MinIsUnique ==
  ASSUME NEW S \in SUBSET Nat, NEW m \in S, \A n \in S : m <= n
  PROVE  Min(S) = m
<1>1. Min(S) \in S /\ Min(S) <= m /\ m <= Min(S)
  BY MinIsLeast
<1>2. Min(S) \in Nat /\ m \in Nat
  BY <1>1
<1> QED
  BY <1>1, <1>2

LEMMA ListTypes ==
  ASSUME CorrelationTypeOK
  PROVE  /\ Len(merged) \in Nat /\ DOMAIN merged = 1..Len(merged)
         /\ \A i \in DOMAIN merged : merged[i] \in Event
         /\ Len(trace) \in Nat /\ DOMAIN trace = 1..Len(trace)
         /\ \A k \in DOMAIN trace : trace[k] \in Happening
         /\ Len(ended) \in Nat /\ DOMAIN ended = 1..Len(ended)
         /\ \A s \in DOMAIN ended : ended[s] \in Nat
<1>1. merged \in Seq(Event) /\ trace \in Seq(Happening) /\ ended \in Seq(0..(2 * MaxEvents))
  BY DEF CorrelationTypeOK
<1>2. Len(merged) \in Nat /\ DOMAIN merged = 1..Len(merged)
  BY <1>1, LenProperties
<1>3. Len(trace) \in Nat /\ DOMAIN trace = 1..Len(trace)
  BY <1>1, LenProperties
<1>4. Len(ended) \in Nat /\ DOMAIN ended = 1..Len(ended)
  BY <1>1, LenProperties
<1>5. \A i \in DOMAIN merged : merged[i] \in Event
  BY <1>1, <1>2, ElementOfSeq
<1>6. \A k \in DOMAIN trace : trace[k] \in Happening
  BY <1>1, <1>3, ElementOfSeq
<1>7. \A s \in DOMAIN ended : ended[s] \in 0..(2 * MaxEvents)
  BY <1>1, <1>4, ElementOfSeq
<1> QED
  BY <1>2, <1>3, <1>4, <1>5, <1>6, <1>7

\* One event more.
LEMMA OneMore ==
  ASSUME CorrelationTypeOK, NEW e \in Event, merged' = Append(merged, e)
  PROVE  /\ merged' \in Seq(Event)
         /\ Len(merged') = Len(merged) + 1 /\ DOMAIN merged' = 1..(Len(merged) + 1)
         /\ \A i \in DOMAIN merged : merged'[i] = merged[i]
         /\ merged'[Len(merged) + 1] = e
<1>1. merged \in Seq(Event) /\ DOMAIN merged = 1..Len(merged)
  BY ListTypes DEF CorrelationTypeOK
<1> QED
  BY <1>1, AppendProperties, LenProperties

\* A log more: EndStage appends the lines of the log as they are.
LEMMA LogMore ==
  ASSUME CorrelationTypeOK, EndStage
  PROVE  /\ merged' \in Seq(Event)
         /\ Len(merged') = Len(merged) + Len(trace)
         /\ DOMAIN merged' = 1..(Len(merged) + Len(trace))
         /\ \A i \in DOMAIN merged : merged'[i] = merged[i]
         /\ \A i \in DOMAIN merged' \ DOMAIN merged :
               /\ i - Len(merged) \in DOMAIN trace
               /\ merged'[i] = Stamped(trace[i - Len(merged)], "gvisor")
<1> DEFINE log == [k \in DOMAIN trace |-> Stamped(trace[k], "gvisor")]
<1>1. /\ merged \in Seq(Event) /\ Len(merged) \in Nat /\ DOMAIN merged = 1..Len(merged)
      /\ Len(trace) \in Nat /\ DOMAIN trace = 1..Len(trace)
      /\ \A k \in DOMAIN trace : trace[k] \in Happening
  BY ListTypes DEF CorrelationTypeOK
<1>2. \A k \in DOMAIN trace : Stamped(trace[k], "gvisor") \in Event
  BY <1>1 DEF CorrelationTypeOK, Stamped, Happening, Event
<1>3. log \in [1..Len(trace) -> Event]
  BY <1>1, <1>2
<1>4. log \in Seq(Event) /\ Len(log) = Len(trace)
  BY <1>1, <1>3, SeqDef, LenProperties
<1>5. merged' = merged \o log
  BY DEF EndStage
<1> HIDE DEF log
<1>6. /\ merged' \in Seq(Event) /\ Len(merged') = Len(merged) + Len(trace)
      /\ \A i \in 1..(Len(merged) + Len(trace)) :
            merged'[i] = IF i <= Len(merged) THEN merged[i] ELSE log[i - Len(merged)]
  <2>1. /\ merged \o log \in Seq(Event) /\ Len(merged \o log) = Len(merged) + Len(log)
        /\ \A i \in 1..(Len(merged) + Len(log)) :
              (merged \o log)[i] = IF i <= Len(merged) THEN merged[i] ELSE log[i - Len(merged)]
    BY <1>1, <1>4, ConcatProperties
  <2> QED
    BY <1>4, <1>5, <2>1
<1>7. DOMAIN merged' = 1..(Len(merged) + Len(trace))
  BY <1>6, LenProperties
<1>8. \A i \in DOMAIN merged : merged'[i] = merged[i]
  BY <1>1, <1>6
<1>9. \A i \in DOMAIN merged' \ DOMAIN merged :
          i - Len(merged) \in DOMAIN trace /\ merged'[i] = log[i - Len(merged)]
  BY <1>1, <1>6, <1>7
<1>10. \A k \in DOMAIN trace : log[k] = Stamped(trace[k], "gvisor")
  BY DEF log
<1> QED
  BY <1>6, <1>7, <1>8, <1>9, <1>10

-----------------------------------------------------------------------------
(* Types *)

LEMMA NewHappening ==
  ASSUME CorrelationTypeOK, Room, NEW s \in Stages,
         NEW kind \in {"read", "connect", "bulk", "sample"}
  PROVE  Now(kind, s) \in Happening
<1>1. happened + 1 \in 1..MaxEvents
  BY BoundsAssumption DEF CorrelationTypeOK, Room
<1> QED
  BY <1>1 DEF CorrelationTypeOK, Now, Happening

LEMMA NewEvent ==
  ASSUME CorrelationTypeOK, NEW h \in Happening,
         NEW source \in {"gvisor", "sinkhole", "instrumentation", "host"}
  PROVE  Stamped(h, source) \in Event
  BY DEF CorrelationTypeOK, Stamped, Happening, Event

LEMMA StageRuns == CorrelationTypeOK /\ Running /\ phase = "running" => stage \in Stages
<1> SUFFICES ASSUME CorrelationTypeOK, Running, phase = "running" PROVE stage \in Stages
  OBVIOUS
<1>1. Len(ended) \in Nat /\ Len(ended) = stage - 1 /\ stage \in 0..MaxStages
  BY ListTypes DEF CorrelationTypeOK, Running
<1> QED
  BY <1>1, BoundsAssumption DEF Stages

LEMMA ListBounded == CorrelationTypeOK /\ Counted => Len(merged) \in 0..(2 * MaxEvents)
<1> SUFFICES ASSUME CorrelationTypeOK, Counted PROVE Len(merged) \in 0..(2 * MaxEvents)
  OBVIOUS
<1>1. Len(merged) \in Nat /\ Len(trace) \in Nat /\ Cardinality(open) \in Nat
  BY ListTypes, FS_CardinalityType DEF Counted
<1>2. happened \in 0..MaxEvents
  BY DEF CorrelationTypeOK
<1> QED
  BY <1>1, <1>2, BoundsAssumption DEF Counted

\* EndStage notes where the stage ended.
LEMMA EndNoted ==
  ASSUME CorrelationTypeOK, Counted, EndStage
  PROVE  /\ ended' \in Seq(0..(2 * MaxEvents))
         /\ Len(ended') = Len(ended) + 1 /\ DOMAIN ended' = 1..(Len(ended) + 1)
         /\ \A s \in DOMAIN ended : ended'[s] = ended[s]
         /\ ended'[Len(ended) + 1] = Len(merged)
<1>1. ended \in Seq(0..(2 * MaxEvents)) /\ DOMAIN ended = 1..Len(ended)
  BY ListTypes DEF CorrelationTypeOK
<1>2. ended' = Append(ended, Len(merged)) /\ Len(merged) \in 0..(2 * MaxEvents)
  BY ListBounded DEF EndStage
<1> QED
  BY <1>1, <1>2, AppendProperties, LenProperties

LEMMA TypingStep ==
  CorrelationInv /\ [CorrelationNext]_correlationVars => CorrelationTypeOK'
<1> SUFFICES ASSUME CorrelationInv, [CorrelationNext]_correlationVars
             PROVE  CorrelationTypeOK'
  OBVIOUS
<1>0. /\ CorrelationTypeOK /\ Running /\ Counted
      /\ merged \in Seq(Event) /\ trace \in Seq(Happening) /\ open \subseteq Happening
      /\ ended \in Seq(0..(2 * MaxEvents)) /\ Len(ended) \in Nat
      /\ happened \in 0..MaxEvents /\ clock \in 0..MaxClock /\ stage \in 0..MaxStages
  BY ListTypes DEF CorrelationInv, CorrelationTypeOK
<1> USE BoundsAssumption
<1>1. CASE Tick
  BY <1>0, <1>1 DEF Tick, stageVars, CorrelationTypeOK
<1>2. CASE BeginStage
  BY <1>0, <1>2 DEF BeginStage, CorrelationTypeOK, Running
<1>3. CASE Read
  <2>1. Now("read", stage) \in Happening
    BY <1>0, <1>3, StageRuns, NewHappening DEF Read
  <2>2. trace' \in Seq(Happening)
    BY <1>0, <1>3, <2>1, AppendProperties DEF Read
  <2> QED
    BY <1>0, <1>3, <2>2 DEF Read, Room, stageVars, CorrelationTypeOK
<1>4. ASSUME NEW s \in Stages, Connect(s)
      PROVE  CorrelationTypeOK'
  <2>1. Now("connect", s) \in Happening
    BY <1>0, <1>4, NewHappening DEF Connect
  <2>2. trace' \in Seq(Happening)
    <3>1. Append(trace, Now("connect", s)) \in Seq(Happening)
      BY <1>0, <2>1, AppendProperties
    <3> QED
      BY <1>0, <1>4, <3>1 DEF Connect
  <2>3. open' \subseteq Happening
    BY <1>0, <1>4, <2>1 DEF Connect
  <2> QED
    BY <1>0, <1>4, <2>2, <2>3 DEF Connect, Room, stageVars, CorrelationTypeOK
<1>5. ASSUME NEW s \in Stages, BulkAccess(s)
      PROVE  CorrelationTypeOK'
  <2>1. Stamped(Now("bulk", s), "instrumentation") \in Event
    BY <1>0, <1>5, NewHappening, NewEvent DEF BulkAccess
  <2>2. merged' \in Seq(Event)
    BY <1>0, <1>5, <2>1, AppendProperties DEF BulkAccess
  <2> QED
    BY <1>0, <1>5, <2>2 DEF BulkAccess, Room, stageVars, CorrelationTypeOK
<1>6. CASE Sample
  <2>1. stage \in Stages
    BY <1>0, <1>6 DEF Sample, Stages
  <2>2. Stamped(Now("sample", stage), "host") \in Event
    BY <1>0, <1>6, <2>1, NewHappening, NewEvent DEF Sample
  <2>3. merged' \in Seq(Event)
    BY <1>0, <1>6, <2>2, AppendProperties DEF Sample
  <2> QED
    BY <1>0, <1>6, <2>3 DEF Sample, Room, stageVars, CorrelationTypeOK
<1>7. ASSUME NEW c \in open, Capture(c)
      PROVE  CorrelationTypeOK'
  <2>1. merged' \in Seq(Event)
    BY <1>0, <1>7, NewEvent, AppendProperties DEF Capture
  <2> QED
    BY <1>0, <1>7, <2>1 DEF Capture, stageVars, CorrelationTypeOK
<1>8. CASE EndStage
  <2>1. merged' \in Seq(Event)
    BY <1>0, <1>8, LogMore
  <2>3. ended' \in Seq(0..(2 * MaxEvents)) /\ Len(ended') = Len(ended) + 1
    BY <1>0, <1>8, EndNoted
  <2>4. trace' \in Seq(Happening)
    BY <1>8, EmptySeq DEF EndStage
  <2>5. Len(ended') = stage' /\ leftover' \subseteq 1..Len(ended') /\ sighted' \subseteq 1..Len(ended')
    <3>1. stage' = stage /\ Len(ended) = stage - 1 /\ stage \in Stages
      BY <1>0, <1>8, StageRuns DEF EndStage, Running
    <3>2. leftover \subseteq 1..Len(ended) /\ sighted \subseteq 1..Len(ended)
      BY <1>0 DEF CorrelationTypeOK
    <3> QED
      BY <1>0, <1>8, <2>3, <3>1, <3>2 DEF EndStage, Stages
  <2> QED
    BY <1>0, <1>8, <2>1, <2>3, <2>4, <2>5 DEF EndStage, CorrelationTypeOK
<1>9. ASSUME NEW s \in leftover, LeftoverExits(s)
      PROVE  CorrelationTypeOK'
  BY <1>0, <1>9 DEF LeftoverExits, CorrelationTypeOK
<1>10. CASE Finish
  BY <1>0, <1>10 DEF Finish, CorrelationTypeOK
<1>11. CASE UNCHANGED correlationVars
  BY <1>0, <1>11 DEF correlationVars, stageVars, CorrelationTypeOK
<1> QED
  BY <1>1, <1>2, <1>3, <1>4, <1>5, <1>6, <1>7, <1>8, <1>9, <1>10, <1>11 DEF CorrelationNext

-----------------------------------------------------------------------------
(* What a step does to the list: nothing, one event, or the log of a stage *)

Recording(e) ==
    /\ merged' = Append(merged, e)
    /\ e.source # "gvisor" /\ e.kind # "read" /\ e.stage <= stage /\ e.stamp = clock
    /\ UNCHANGED <<phase, stage, ended, trace, clock>>

LEMMA Growth ==
  ASSUME CorrelationInv, [CorrelationNext]_correlationVars
  PROVE  UNCHANGED <<merged, ended>> \/ (\E e \in Event : Recording(e)) \/ EndStage
<1>0. CorrelationTypeOK /\ Running /\ Placed /\ stage \in 0..MaxStages /\ stage \in Nat
  BY BoundsAssumption DEF CorrelationInv, CorrelationTypeOK
<1>1. ASSUME NEW s \in Stages, BulkAccess(s)
      PROVE  \E e \in Event : Recording(e)
  <2> DEFINE e == Stamped(Now("bulk", s), "instrumentation")
  <2>1. e \in Event
    BY <1>0, <1>1, NewHappening, NewEvent DEF BulkAccess
  <2>2. s <= stage
    <3>1. leftover \subseteq 1..Len(ended) /\ Len(ended) \in Nat /\ Len(ended) <= stage
      BY <1>0, ListTypes DEF CorrelationTypeOK, Running
    <3>2. s = stage \/ s \in 1..Len(ended)
      BY <1>1, <3>1 DEF BulkAccess
    <3> QED
      BY <1>0, <3>1, <3>2
  <2>3. Recording(e)
    BY <1>1, <2>2 DEF BulkAccess, Recording, Stamped, Now, stageVars
  <2> QED
    BY <2>1, <2>3
<1>2. CASE Sample
  <2> DEFINE e == Stamped(Now("sample", stage), "host")
  <2>1. stage \in Stages
    BY <1>0, <1>2 DEF Sample, Stages
  <2>2. e \in Event
    BY <1>0, <1>2, <2>1, NewHappening, NewEvent DEF Sample
  <2>3. Recording(e)
    BY <1>0, <1>2 DEF Sample, Recording, Stamped, Now, stageVars
  <2> QED
    BY <2>2, <2>3
<1>3. ASSUME NEW c \in open, Capture(c)
      PROVE  \E e \in Event : Recording(e)
  <2> DEFINE e == Stamped(c, "sinkhole")
  <2>1. e \in Event
    BY <1>0, <1>3, NewEvent DEF CorrelationTypeOK
  <2>2. Recording(e)
    BY <1>0, <1>3 DEF Capture, Recording, Stamped, Placed, stageVars
  <2> QED
    BY <2>1, <2>2
<1>4. CASE UNCHANGED correlationVars
  BY <1>4 DEF correlationVars, stageVars
<1> QED
  BY <1>1, <1>2, <1>3, <1>4
     DEF CorrelationNext, Tick, BeginStage, Read, Connect, LeftoverExits, Finish, stageVars

\* Whatever a step does, the list it finds stays as it is.
LEMMA Prefix ==
  ASSUME CorrelationInv, [CorrelationNext]_correlationVars
  PROVE  /\ Len(merged) \in Nat /\ Len(merged') \in Nat /\ Len(merged) <= Len(merged')
         /\ DOMAIN merged = 1..Len(merged) /\ DOMAIN merged' = 1..Len(merged')
         /\ \A i \in DOMAIN merged : merged'[i] = merged[i]
<1>0. CorrelationTypeOK
  BY DEF CorrelationInv
<1>1. Len(merged) \in Nat /\ DOMAIN merged = 1..Len(merged) /\ Len(trace) \in Nat
  BY <1>0, ListTypes
<1>2. CASE UNCHANGED <<merged, ended>>
  BY <1>1, <1>2
<1>3. ASSUME NEW e \in Event, Recording(e)
      PROVE  /\ Len(merged') = Len(merged) + 1 /\ DOMAIN merged' = 1..(Len(merged) + 1)
             /\ \A i \in DOMAIN merged : merged'[i] = merged[i]
  BY <1>0, <1>3, OneMore DEF Recording
<1>4. CASE EndStage
  BY <1>0, <1>1, <1>4, LogMore
<1> QED
  BY <1>1, <1>2, <1>3, <1>4, Growth

LEMMA InOrderStep ==
  CorrelationInv /\ [CorrelationNext]_correlationVars => InOrder'
<1> SUFFICES ASSUME CorrelationInv, [CorrelationNext]_correlationVars PROVE InOrder'
  OBVIOUS
<1>0. CorrelationTypeOK /\ Running /\ LogOrdered /\ Placed /\ InOrder
  BY DEF CorrelationInv
<1>1. /\ Len(merged) \in Nat /\ DOMAIN merged = 1..Len(merged)
      /\ Len(trace) \in Nat /\ DOMAIN trace = 1..Len(trace)
  BY <1>0, ListTypes
<1>2. CASE UNCHANGED <<merged, ended>>
  BY <1>0, <1>2 DEF InOrder, Traced
<1>3. ASSUME NEW e \in Event, Recording(e)
      PROVE  InOrder'
  <2>1. /\ DOMAIN merged' = 1..(Len(merged) + 1) /\ merged'[Len(merged) + 1] = e
        /\ \A i \in DOMAIN merged : merged'[i] = merged[i]
    BY <1>0, <1>3, OneMore DEF Recording
  <2> SUFFICES ASSUME NEW i \in DOMAIN merged', NEW j \in DOMAIN merged', i < j
               PROVE  /\ merged'[i].stamp <= merged'[j].stamp
                      /\ Traced(j)' => merged'[i].stage <= merged'[j].stage
                      /\ Traced(i)' /\ Traced(j)' => merged'[i].real < merged'[j].real
    BY DEF InOrder
  <2>2. i \in DOMAIN merged /\ merged'[i] = merged[i]
    BY <1>1, <2>1
  <2>3. CASE j \in DOMAIN merged
    BY <1>0, <2>1, <2>2, <2>3 DEF InOrder, Traced
  <2>4. CASE j \notin DOMAIN merged
    <3>1. merged'[j] = e
      BY <1>1, <2>1, <2>4
    <3> QED
      BY <1>0, <1>3, <2>2, <3>1 DEF Recording, Traced, Placed
  <2> QED
    BY <2>3, <2>4
<1>4. CASE EndStage
  <2>1. /\ DOMAIN merged' = 1..(Len(merged) + Len(trace))
        /\ \A i \in DOMAIN merged : merged'[i] = merged[i]
        /\ \A i \in DOMAIN merged' \ DOMAIN merged :
              /\ i - Len(merged) \in DOMAIN trace
              /\ merged'[i] = Stamped(trace[i - Len(merged)], "gvisor")
    BY <1>0, <1>4, LogMore
  <2> SUFFICES ASSUME NEW i \in DOMAIN merged', NEW j \in DOMAIN merged', i < j
               PROVE  /\ merged'[i].stamp <= merged'[j].stamp
                      /\ Traced(j)' => merged'[i].stage <= merged'[j].stage
                      /\ Traced(i)' /\ Traced(j)' => merged'[i].real < merged'[j].real
    BY DEF InOrder
  <2>2. CASE j \in DOMAIN merged
    <3>1. i \in DOMAIN merged /\ merged'[i] = merged[i] /\ merged'[j] = merged[j]
      BY <1>1, <2>1, <2>2
    <3> QED
      BY <1>0, <2>2, <3>1 DEF InOrder, Traced
  <2>3. CASE i \in DOMAIN merged /\ j \notin DOMAIN merged
    <3>1. /\ merged'[i] = merged[i] /\ j - Len(merged) \in DOMAIN trace
          /\ merged'[j] = Stamped(trace[j - Len(merged)], "gvisor")
      BY <2>1, <2>3
    <3>2. /\ merged'[j].stamp = clock /\ merged'[j].stage = stage
          /\ merged'[j].real = trace[j - Len(merged)].real
      BY <1>0, <3>1 DEF Stamped, LogOrdered
    <3> QED
      BY <1>0, <2>3, <3>1, <3>2 DEF Placed, Traced
  <2>4. CASE i \notin DOMAIN merged /\ j \notin DOMAIN merged
    <3>1. /\ i - Len(merged) \in DOMAIN trace /\ j - Len(merged) \in DOMAIN trace
          /\ merged'[i] = Stamped(trace[i - Len(merged)], "gvisor")
          /\ merged'[j] = Stamped(trace[j - Len(merged)], "gvisor")
      BY <2>1, <2>4
    <3>2. i - Len(merged) < j - Len(merged)
      BY <1>1, <2>1
    <3>3. trace[i - Len(merged)].real < trace[j - Len(merged)].real
      BY <1>0, <3>1, <3>2 DEF LogOrdered
    <3>4. stage <= stage /\ clock <= clock
      BY <1>0, BoundsAssumption DEF CorrelationTypeOK
    <3> QED
      BY <1>0, <3>1, <3>3, <3>4 DEF Stamped, LogOrdered
  <2> QED
    BY <1>1, <2>1, <2>2, <2>3, <2>4
<1> QED
  BY <1>2, <1>3, <1>4, Growth

LEMMA InBlocksStep ==
  CorrelationInv /\ [CorrelationNext]_correlationVars => InBlocks'
<1> SUFFICES ASSUME CorrelationInv, [CorrelationNext]_correlationVars PROVE InBlocks'
  OBVIOUS
<1>0. CorrelationTypeOK /\ Running /\ LogOrdered /\ Placed /\ InBlocks
  BY DEF CorrelationInv
<1>1. /\ Len(merged) \in Nat /\ DOMAIN merged = 1..Len(merged)
      /\ Len(merged') \in Nat /\ DOMAIN merged' = 1..Len(merged')
      /\ \A i \in DOMAIN merged : i \in DOMAIN merged' /\ merged'[i] = merged[i]
  BY Prefix
<1> SUFFICES ASSUME NEW i \in DOMAIN merged', NEW j \in DOMAIN merged', i < j,
                    Traced(i)', Traced(j)', merged'[i].stage = merged'[j].stage
             PROVE  /\ merged'[i].stamp = merged'[j].stamp
                    /\ \A k \in DOMAIN merged' : i < k /\ k < j => Traced(k)'
  BY DEF InBlocks
<1>2. CASE j \in DOMAIN merged
  <2>1. i \in DOMAIN merged /\ \A k \in DOMAIN merged' : k < j => k \in DOMAIN merged
    BY <1>1, <1>2
  <2> QED
    BY <1>0, <1>1, <1>2, <2>1 DEF InBlocks, Traced
<1>3. ASSUME j \notin DOMAIN merged, NEW e \in Event, Recording(e)
      PROVE  FALSE
  <2>1. merged'[j] = e
    BY <1>0, <1>1, <1>3, OneMore DEF Recording
  <2> QED
    BY <1>3, <2>1 DEF Recording, Traced
<1>4. CASE j \notin DOMAIN merged /\ EndStage
  <2>1. \A k \in DOMAIN merged' \ DOMAIN merged :
            /\ k - Len(merged) \in DOMAIN trace
            /\ merged'[k] = Stamped(trace[k - Len(merged)], "gvisor")
    BY <1>0, <1>4, LogMore
  <2>2. \A k \in DOMAIN merged' \ DOMAIN merged :
            merged'[k].stage = stage /\ merged'[k].stamp = clock /\ Traced(k)'
    BY <1>0, <2>1 DEF LogOrdered, Stamped, Traced
  <2>3. i \notin DOMAIN merged
    <3> SUFFICES ASSUME i \in DOMAIN merged PROVE FALSE
      OBVIOUS
    <3>1. merged[i].stage = stage /\ merged[i].stage <= Len(ended)
      BY <1>0, <1>1, <1>4, <2>2 DEF Placed, Traced
    <3>2. Len(ended) = stage - 1 /\ stage \in Nat
      BY <1>0, <1>4, BoundsAssumption DEF Running, EndStage, CorrelationTypeOK
    <3> QED
      BY <3>1, <3>2
  <2>4. \A k \in DOMAIN merged' : i < k => k \notin DOMAIN merged
    BY <1>1, <2>3
  <2> QED
    BY <1>4, <2>2, <2>3, <2>4
<1> QED
  BY <1>1, <1>2, <1>3, <1>4, Growth

LEMMA RunningStep ==
  CorrelationInv /\ [CorrelationNext]_correlationVars => Running'
<1> SUFFICES ASSUME CorrelationInv, [CorrelationNext]_correlationVars PROVE Running'
  OBVIOUS
<1>0. CorrelationTypeOK /\ Running /\ Len(ended) \in Nat /\ stage \in 0..MaxStages
  BY ListTypes DEF CorrelationInv, CorrelationTypeOK
<1> USE DEF Running, stageVars
<1>1. CASE EndStage
  <2>1. Len(ended') = Len(ended) + 1
    BY <1>0, <1>1, EndNoted DEF CorrelationInv
  <2> QED
    BY <1>0, <1>1, <2>1 DEF EndStage
<1>2. CASE BeginStage
  BY <1>0, <1>2, BoundsAssumption DEF BeginStage
<1>3. CASE Tick \/ Sample \/ Read \/ Finish \/ UNCHANGED correlationVars
  BY <1>0, <1>3 DEF Tick, Sample, Read, Finish, correlationVars
<1>4. ASSUME NEW s \in Stages, Connect(s) \/ BulkAccess(s)
      PROVE  Running'
  BY <1>0, <1>4 DEF Connect, BulkAccess
<1>5. ASSUME NEW s \in leftover, LeftoverExits(s)
      PROVE  Running'
  BY <1>0, <1>5 DEF LeftoverExits
<1>6. ASSUME NEW c \in open, Capture(c)
      PROVE  Running'
  BY <1>0, <1>6 DEF Capture
<1> QED
  BY <1>1, <1>2, <1>3, <1>4, <1>5, <1>6 DEF CorrelationNext

LEMMA LogOrderedStep ==
  CorrelationInv /\ [CorrelationNext]_correlationVars => LogOrdered'
<1> SUFFICES ASSUME CorrelationInv, [CorrelationNext]_correlationVars PROVE LogOrdered'
  OBVIOUS
<1>0. /\ CorrelationTypeOK /\ Running /\ LogOrdered
      /\ Len(trace) \in Nat /\ DOMAIN trace = 1..Len(trace) /\ trace \in Seq(Happening)
      /\ \A k \in DOMAIN trace : trace[k].real \in Nat
      /\ happened \in Nat
  <2>1. CorrelationTypeOK /\ Running /\ LogOrdered
    BY DEF CorrelationInv
  <2>2. trace \in Seq(Happening) /\ happened \in Nat
    BY <2>1, BoundsAssumption DEF CorrelationTypeOK
  <2>3. Len(trace) \in Nat /\ DOMAIN trace = 1..Len(trace) /\ \A k \in DOMAIN trace : trace[k] \in Happening
    BY <2>1, ListTypes
  <2>4. \A k \in DOMAIN trace : trace[k].real \in Nat
    BY <2>3, BoundsAssumption DEF Happening
  <2> QED
    BY <2>1, <2>2, <2>3, <2>4
\* One line more.
<1>1. ASSUME NEW kind \in {"read", "connect"}, NEW s \in Stages, s = stage, Room,
             trace' = Append(trace, Now(kind, s)), happened' = happened + 1, stage' = stage
      PROVE  LogOrdered'
  <2>1. /\ DOMAIN trace' = 1..(Len(trace) + 1) /\ trace'[Len(trace) + 1] = Now(kind, s)
        /\ \A k \in DOMAIN trace : trace'[k] = trace[k]
    <3>1. Now(kind, s) \in Happening
      BY <1>0, <1>1, NewHappening
    <3> QED
      BY <1>0, <1>1, <3>1, AppendProperties, LenProperties
  <2>2. Now(kind, s).kind = kind /\ Now(kind, s).stage = s /\ Now(kind, s).real = happened + 1
    BY DEF Now
  <2> QED
    BY <1>0, <1>1, <2>1, <2>2 DEF LogOrdered
\* The lines there are stay in order.
<1>2. ASSUME trace' = trace, stage' = stage, happened' \in {happened, happened + 1}
      PROVE  LogOrdered'
  BY <1>0, <1>2 DEF LogOrdered
<1>3. ASSUME trace' = <<>>
      PROVE  LogOrdered'
  BY <1>3 DEF LogOrdered
<1>4. CASE Read
  BY <1>0, <1>1, <1>4, StageRuns DEF Read, stageVars
<1>5. ASSUME NEW s \in Stages, Connect(s)
      PROVE  LogOrdered'
  BY <1>1, <1>2, <1>5 DEF Connect, stageVars
<1>6. CASE BeginStage
  BY <1>0, <1>3, <1>6 DEF BeginStage, Running
<1>7. CASE EndStage
  BY <1>3, <1>7 DEF EndStage
<1>8. CASE Tick \/ Sample \/ Finish \/ UNCHANGED correlationVars
  BY <1>2, <1>8 DEF Tick, Sample, Finish, correlationVars, stageVars
<1>9. ASSUME NEW s \in Stages, BulkAccess(s)
      PROVE  LogOrdered'
  BY <1>2, <1>9 DEF BulkAccess, stageVars
<1>10. ASSUME NEW s \in leftover, LeftoverExits(s)
       PROVE  LogOrdered'
  BY <1>2, <1>10 DEF LeftoverExits
<1>11. ASSUME NEW c \in open, Capture(c)
       PROVE  LogOrdered'
  BY <1>2, <1>11 DEF Capture, stageVars
<1> QED
  BY <1>4, <1>5, <1>6, <1>7, <1>8, <1>9, <1>10, <1>11 DEF CorrelationNext

LEMMA SightedStep ==
  CorrelationInv /\ [CorrelationNext]_correlationVars => Sighted'
<1> SUFFICES ASSUME CorrelationInv, [CorrelationNext]_correlationVars PROVE Sighted'
  OBVIOUS
<1>0. /\ CorrelationTypeOK /\ Counted /\ Sighted
      /\ Len(merged) \in Nat /\ DOMAIN merged = 1..Len(merged)
      /\ Len(merged') \in Nat /\ DOMAIN merged' = 1..Len(merged') /\ Len(merged) <= Len(merged')
      /\ \A i \in DOMAIN merged : i \in DOMAIN merged' /\ merged'[i] = merged[i]
      /\ Len(ended) \in Nat /\ DOMAIN ended = 1..Len(ended)
      /\ \A s \in DOMAIN ended : ended[s] \in Nat
      /\ sighted \subseteq DOMAIN ended /\ leftover \subseteq DOMAIN ended
  BY Prefix, ListTypes DEF CorrelationInv, CorrelationTypeOK
\* What was sampled after the end of a stage still is.
<1>1. ASSUME \A s \in DOMAIN ended : s \in DOMAIN ended' /\ ended'[s] = ended[s]
      PROVE  \A s \in sighted : SampledAfter(s)'
  <2> TAKE s \in sighted
  <2>1. PICK i \in Places("sample") : i > ended[s]
    BY <1>0 DEF Sighted, SampledAfter
  <2>2. i \in Places("sample")' /\ ended'[s] = ended[s]
    BY <1>0, <1>1, <2>1 DEF Places
  <2> QED
    BY <2>1, <2>2 DEF SampledAfter
<1>2. ASSUME ended' = ended, sighted' = sighted
      PROVE  Sighted'
  BY <1>0, <1>1, <1>2 DEF Sighted
\* The sample of a survivor comes after every end there is.
<1>3. CASE Sample
  <2> DEFINE e == Stamped(Now("sample", stage), "host")
  <2>1. stage \in Stages
    BY <1>3 DEF Sample, Stages, CorrelationInv, CorrelationTypeOK
  <2>2. e \in Event
    BY <1>0, <1>3, <2>1, NewHappening, NewEvent DEF Sample
  <2>3. Len(merged) + 1 \in DOMAIN merged' /\ merged'[Len(merged) + 1] = e
    BY <1>0, <1>3, <2>2, OneMore DEF Sample
  <2>4. Len(merged) + 1 \in Places("sample")'
    BY <2>3 DEF Places, Stamped, Now
  <2>5. ended' = ended /\ sighted' = sighted \cup leftover
    BY <1>3 DEF Sample, stageVars
  <2>6. \A s \in leftover : Len(merged) + 1 > ended'[s]
    BY <1>0, <2>5 DEF Sighted
  <2>7. \A s \in sighted' : SampledAfter(s)'
    BY <1>1, <2>4, <2>5, <2>6 DEF SampledAfter
  <2> QED
    BY <1>0, <2>5, <2>7 DEF Sighted
<1>4. CASE EndStage
  <2>1. /\ DOMAIN ended' = 1..(Len(ended) + 1) /\ ended'[Len(ended) + 1] = Len(merged)
        /\ \A s \in DOMAIN ended : s \in DOMAIN ended' /\ ended'[s] = ended[s]
    BY <1>0, <1>4, EndNoted
  <2>2. sighted' = sighted
    BY <1>4 DEF EndStage
  <2> QED
    BY <1>0, <1>1, <2>1, <2>2 DEF Sighted
<1>5. CASE Tick \/ BeginStage \/ Read \/ Finish \/ UNCHANGED correlationVars
  BY <1>2, <1>5 DEF Tick, BeginStage, Read, Finish, correlationVars, stageVars
<1>6. ASSUME NEW s \in Stages, Connect(s) \/ BulkAccess(s)
      PROVE  Sighted'
  BY <1>2, <1>6 DEF Connect, BulkAccess, stageVars
<1>7. ASSUME NEW s \in leftover, LeftoverExits(s)
      PROVE  Sighted'
  BY <1>2, <1>7 DEF LeftoverExits
<1>8. ASSUME NEW c \in open, Capture(c)
      PROVE  Sighted'
  BY <1>2, <1>8 DEF Capture, stageVars
<1> QED
  BY <1>3, <1>4, <1>5, <1>6, <1>7, <1>8 DEF CorrelationNext

\* The counters only go up.
LEMMA Forward ==
  ASSUME CorrelationInv, [CorrelationNext]_correlationVars
  PROVE  /\ stage \in Nat /\ clock \in Nat /\ happened \in Nat /\ Len(ended) \in Nat
         /\ stage' \in Nat /\ clock' \in Nat /\ happened' \in Nat /\ Len(ended') \in Nat
         /\ stage <= stage' /\ clock <= clock' /\ happened <= happened'
         /\ Len(ended) <= Len(ended') /\ Len(ended) <= stage /\ Len(ended') <= stage'
<1>0. CorrelationTypeOK /\ Counted /\ Running /\ Running'
  BY RunningStep DEF CorrelationInv
<1>1. stage \in Nat /\ clock \in Nat /\ happened \in Nat /\ Len(ended) \in Nat
  BY <1>0, BoundsAssumption, ListTypes DEF CorrelationTypeOK
<1>2. stage' \in {stage, stage + 1} /\ clock' \in {clock, clock + 1} /\ happened' \in {happened, happened + 1}
  BY DEF CorrelationNext, Tick, BeginStage, Read, Connect, Capture, BulkAccess, Sample, EndStage,
         LeftoverExits, Finish, stageVars, correlationVars
<1>3. Len(ended') \in {Len(ended), Len(ended) + 1}
  <2>1. EndStage => Len(ended') = Len(ended) + 1
    BY <1>0, EndNoted
  <2>2. EndStage \/ ended' = ended
    BY DEF CorrelationNext, Tick, BeginStage, Read, Connect, Capture, BulkAccess, Sample,
           LeftoverExits, Finish, stageVars, correlationVars
  <2> QED
    BY <2>1, <2>2
<1>4. stage' \in Nat /\ clock' \in Nat /\ happened' \in Nat /\ Len(ended') \in Nat
  BY <1>1, <1>2, <1>3
<1>5. Len(ended) \in {stage - 1, stage} /\ Len(ended') \in {stage' - 1, stage'}
  BY <1>0 DEF Running
<1>6. Len(ended) <= stage /\ Len(ended') <= stage'
  <2>1. \A m, n \in Nat : m \in {n - 1, n} => m <= n
    OBVIOUS
  <2> QED
    BY <1>1, <1>4, <1>5, <2>1
<1> QED
  BY <1>1, <1>2, <1>3, <1>4, <1>6

LEMMA PlacedStep ==
  CorrelationInv /\ [CorrelationNext]_correlationVars => Placed'
<1> SUFFICES ASSUME CorrelationInv, [CorrelationNext]_correlationVars PROVE Placed'
  OBVIOUS
<1>0. /\ CorrelationTypeOK /\ Counted /\ Running /\ Placed /\ LogOrdered
      /\ DOMAIN merged = 1..Len(merged) /\ Len(merged) \in Nat
      /\ \A i \in DOMAIN merged : merged[i] \in Event
      /\ \A k \in DOMAIN trace : trace[k] \in Happening
  BY ListTypes DEF CorrelationInv
<1>1. /\ stage \in Nat /\ clock \in Nat /\ happened \in Nat /\ Len(ended) \in Nat
      /\ stage' \in Nat /\ clock' \in Nat /\ happened' \in Nat /\ Len(ended') \in Nat
      /\ stage <= stage' /\ clock <= clock' /\ happened <= happened'
      /\ Len(ended) <= Len(ended') /\ Len(ended) <= stage
  BY Forward
<1>2. \A i \in DOMAIN merged :
          merged[i].stage \in Nat /\ merged[i].stamp \in Nat /\ merged[i].real \in Nat
  BY <1>0, BoundsAssumption DEF Event, Stages
\* What is open.
<1>3. \A c \in open' : c.stage <= stage' /\ c.kind = "connect"
  <2>1. \A c \in open : c.stage <= stage' /\ c.kind = "connect"
    BY <1>0, <1>1, BoundsAssumption DEF Placed, CorrelationTypeOK, Happening, Stages
  <2>2. ASSUME NEW s \in Stages, Connect(s)
        PROVE  \A c \in open' : c.stage <= stage' /\ c.kind = "connect"
    <3>1. leftover \subseteq 1..Len(ended)
      BY <1>0 DEF CorrelationTypeOK
    <3>2. s \in 1..Len(ended) \/ s = stage
      BY <2>2, <3>1 DEF Connect
    <3>3. Now("connect", s).stage = s /\ Now("connect", s).kind = "connect"
      BY DEF Now
    <3>4. s <= stage'
      BY <1>1, <3>2
    <3> QED
      BY <2>1, <2>2, <3>3, <3>4 DEF Connect
  <2>3. (\E s \in Stages : Connect(s)) \/ open' \subseteq open
    BY DEF CorrelationNext, Tick, BeginStage, Read, Capture, BulkAccess, Sample, EndStage,
           LeftoverExits, Finish, correlationVars
  <2> QED
    BY <2>1, <2>2, <2>3
\* What is in the list: as before, or new.
<1>4. ASSUME NEW i \in DOMAIN merged, merged'[i] = merged[i]
      PROVE  /\ merged'[i].stage <= stage' /\ merged'[i].stamp <= clock'
             /\ merged'[i].kind = "read" => Traced(i)'
             /\ Traced(i)' => merged'[i].stage <= Len(ended') /\ merged'[i].real <= happened'
  BY <1>0, <1>1, <1>2, <1>4 DEF Placed, Traced
<1>5. \A i \in DOMAIN merged' :
          /\ merged'[i].stage <= stage' /\ merged'[i].stamp <= clock'
          /\ merged'[i].kind = "read" => Traced(i)'
          /\ Traced(i)' => merged'[i].stage <= Len(ended') /\ merged'[i].real <= happened'
  <2>1. CASE UNCHANGED <<merged, ended>>
    BY <1>4, <2>1
  <2>2. ASSUME NEW e \in Event, Recording(e)
        PROVE  \A i \in DOMAIN merged' :
                 /\ merged'[i].stage <= stage' /\ merged'[i].stamp <= clock'
                 /\ merged'[i].kind = "read" => Traced(i)'
                 /\ Traced(i)' => merged'[i].stage <= Len(ended') /\ merged'[i].real <= happened'
    <3> TAKE i \in DOMAIN merged'
    <3>1. (i \in DOMAIN merged /\ merged'[i] = merged[i]) \/ merged'[i] = e
      BY <1>0, <2>2, OneMore DEF Recording
    <3>2. e.stage <= stage' /\ e.stamp <= clock' /\ e.kind # "read" /\ e.source # "gvisor"
      BY <1>1, <2>2 DEF Recording
    <3> QED
      BY <1>4, <3>1, <3>2 DEF Traced
  <2>3. CASE EndStage
    <3> TAKE i \in DOMAIN merged'
    <3>1. CASE i \in DOMAIN merged
      BY <1>0, <1>4, <2>3, <3>1, LogMore
    <3>2. CASE i \notin DOMAIN merged
      <4>1. /\ i - Len(merged) \in DOMAIN trace
            /\ merged'[i] = Stamped(trace[i - Len(merged)], "gvisor")
        BY <1>0, <2>3, <3>2, LogMore
      <4>2. stage' = stage /\ clock' = clock /\ happened' = happened /\ Len(ended') = stage
        BY <1>0, <1>1, <2>3, EndNoted DEF EndStage, Running
      <4> QED
        BY <1>0, <1>1, <4>1, <4>2 DEF Stamped, LogOrdered, Traced
    <3> QED
      BY <3>1, <3>2
  <2> QED
    BY <2>1, <2>2, <2>3, Growth
\* A line of the log is later than what was traced before.
<1>6. \A i \in DOMAIN merged', k \in DOMAIN trace' : Traced(i)' => merged'[i].real < trace'[k].real
  <2>1. CASE EndStage \/ BeginStage
    BY <1>0, <2>1 DEF EndStage, BeginStage, Running
  <2>2. ASSUME NEW e \in Event, Recording(e)
        PROVE  \A i \in DOMAIN merged', k \in DOMAIN trace' : Traced(i)' => merged'[i].real < trace'[k].real
    <3> TAKE i \in DOMAIN merged', k \in DOMAIN trace'
    <3>1. (i \in DOMAIN merged /\ merged'[i] = merged[i]) \/ merged'[i] = e
      BY <1>0, <2>2, OneMore DEF Recording
    <3> QED
      BY <1>0, <2>2, <3>1 DEF Recording, Placed, Traced
  <2>3. ASSUME NEW kind \in {"read", "connect"}, NEW s \in Stages, Room, merged' = merged,
               trace' = Append(trace, Now(kind, s))
        PROVE  \A i \in DOMAIN merged', k \in DOMAIN trace' : Traced(i)' => merged'[i].real < trace'[k].real
    <3> TAKE i \in DOMAIN merged', k \in DOMAIN trace'
    <3>1. (k \in DOMAIN trace /\ trace'[k] = trace[k]) \/ trace'[k] = Now(kind, s)
      <4>1. Now(kind, s) \in Happening
        BY <1>0, <2>3, NewHappening
      <4>2. trace \in Seq(Happening) /\ DOMAIN trace = 1..Len(trace) /\ Len(trace) \in Nat
        BY <1>0, ListTypes DEF CorrelationTypeOK
      <4>3. /\ trace' \in Seq(Happening) /\ Len(trace') = Len(trace) + 1
            /\ trace'[Len(trace) + 1] = Now(kind, s)
            /\ \A l \in 1..Len(trace) : trace'[l] = trace[l]
        BY <2>3, <4>1, <4>2, AppendProperties
      <4>4. DOMAIN trace' = 1..(Len(trace) + 1)
        BY <4>3, LenProperties
      <4> QED
        BY <4>2, <4>3, <4>4
    <3>2. Now(kind, s).real = happened + 1
      BY DEF Now
    <3>3. i \in DOMAIN merged /\ merged'[i] = merged[i] /\ (Traced(i)' <=> Traced(i))
      BY <2>3 DEF Traced
    <3>4. CASE k \in DOMAIN trace /\ trace'[k] = trace[k]
      BY <1>0, <3>3, <3>4 DEF Placed
    <3>5. CASE trace'[k] = Now(kind, s)
      <4>1. Traced(i) => merged[i].real <= happened
        BY <1>0, <3>3 DEF Placed
      <4> QED
        BY <1>1, <1>2, <3>2, <3>3, <3>5, <4>1
    <3> QED
      BY <3>1, <3>4, <3>5
  <2>4. CASE UNCHANGED <<merged, trace>>
    BY <1>0, <2>4 DEF Placed, Traced
  <2>5. CASE Read
    BY <1>0, <2>3, <2>5, StageRuns DEF Read
  <2>6. ASSUME NEW s \in Stages, Connect(s)
        PROVE  \A i \in DOMAIN merged', k \in DOMAIN trace' : Traced(i)' => merged'[i].real < trace'[k].real
    BY <2>3, <2>4, <2>6 DEF Connect
  <2>7. \/ EndStage \/ BeginStage \/ Read \/ (\E s \in Stages : Connect(s))
        \/ UNCHANGED trace
    BY DEF CorrelationNext, Tick, Sample, BulkAccess, Capture, LeftoverExits, Finish, correlationVars
  <2> QED
    BY <2>1, <2>2, <2>4, <2>5, <2>6, <2>7, Growth
<1> QED
  BY <1>3, <1>5, <1>6 DEF Placed

LEMMA CountedStep ==
  CorrelationInv /\ [CorrelationNext]_correlationVars => Counted'
<1> SUFFICES ASSUME CorrelationInv, [CorrelationNext]_correlationVars PROVE Counted'
  OBVIOUS
<1>0. /\ CorrelationTypeOK /\ Counted
      /\ Len(merged) \in Nat /\ Len(trace) \in Nat /\ Cardinality(open) \in Nat /\ happened \in Nat
      /\ merged \in Seq(Event) /\ trace \in Seq(Happening)
      /\ IsFiniteSet(open) /\ Len(merged) + Len(trace) + Cardinality(open) <= 2 * happened
  BY ListTypes, FS_CardinalityType, BoundsAssumption DEF CorrelationInv, Counted, CorrelationTypeOK
\* A line of the log, or none; a connection to record, or none.
<1>1. \A h : /\ IsFiniteSet(open \cup {h})
             /\ Cardinality(open \cup {h}) \in {Cardinality(open), Cardinality(open) + 1}
  BY <1>0, FS_AddElement
<1>2. \A h \in Happening : Len(Append(trace, h)) = Len(trace) + 1
  BY <1>0, AppendProperties
<1>3. CASE Read
  <2>1. Len(trace') = Len(trace) + 1
    BY <1>0, <1>2, <1>3, StageRuns, NewHappening DEF Read, CorrelationInv
  <2> QED
    BY <1>0, <1>3, <2>1 DEF Read, Counted
<1>4. ASSUME NEW s \in Stages, Connect(s)
      PROVE  Counted'
  <2>1. Len(trace') \in {Len(trace), Len(trace) + 1}
    BY <1>0, <1>2, <1>4, NewHappening DEF Connect
  <2>2. IsFiniteSet(open') /\ Cardinality(open') \in {Cardinality(open), Cardinality(open) + 1}
    BY <1>0, <1>1, <1>4 DEF Connect
  <2>3. merged' = merged /\ happened' = happened + 1
    BY <1>4 DEF Connect
  <2> QED
    BY <1>0, <2>1, <2>2, <2>3 DEF Counted
<1>5. ASSUME NEW e \in Event, merged' = Append(merged, e), happened' = happened + 1, UNCHANGED <<trace, open>>
      PROVE  Counted'
  <2>1. Len(merged') = Len(merged) + 1
    BY <1>0, <1>5, OneMore
  <2> QED
    BY <1>0, <1>5, <2>1 DEF Counted
<1>6. ASSUME NEW s \in Stages, BulkAccess(s)
      PROVE  Counted'
  BY <1>0, <1>5, <1>6, NewHappening, NewEvent DEF BulkAccess
<1>7. CASE Sample
  <2>1. stage \in Stages
    BY <1>0, <1>7 DEF Sample, Stages, CorrelationTypeOK
  <2> QED
    BY <1>0, <1>5, <1>7, <2>1, NewHappening, NewEvent DEF Sample
\* What is recorded is not open any more.
<1>8. ASSUME NEW c \in open, Capture(c)
      PROVE  Counted'
  <2>1. IsFiniteSet(open') /\ Cardinality(open') = Cardinality(open) - 1
    BY <1>0, <1>8, FS_RemoveElement DEF Capture
  <2>2. Stamped(c, "sinkhole") \in Event
    BY <1>0, NewEvent DEF CorrelationTypeOK
  <2>3. Len(merged') = Len(merged) + 1
    BY <1>0, <1>8, <2>2, OneMore DEF Capture
  <2>4. trace' = trace /\ happened' = happened
    BY <1>8 DEF Capture
  <2> QED
    BY <1>0, <2>1, <2>3, <2>4 DEF Counted
<1>9. CASE EndStage
  <2>1. Len(merged') = Len(merged) + Len(trace) /\ Len(trace') = 0
    BY <1>0, <1>9, LogMore, EmptySeq DEF EndStage
  <2> QED
    BY <1>0, <1>9, <2>1 DEF EndStage, Counted
<1>10. CASE Tick \/ BeginStage \/ Finish \/ UNCHANGED correlationVars
  BY <1>0, <1>10 DEF Tick, BeginStage, Finish, correlationVars, Counted
<1>11. ASSUME NEW s \in leftover, LeftoverExits(s)
       PROVE  Counted'
  BY <1>0, <1>11 DEF LeftoverExits, Counted
<1> QED
  BY <1>3, <1>4, <1>6, <1>7, <1>8, <1>9, <1>10, <1>11 DEF CorrelationNext

LEMMA CorrelationInvariant == CorrelationSpec => []CorrelationInv
<1>1. CorrelationInit => CorrelationInv
  <2> SUFFICES ASSUME CorrelationInit PROVE CorrelationInv
    OBVIOUS
  <2>1. CorrelationTypeOK
    BY BoundsAssumption, EmptySeq DEF CorrelationInit, CorrelationTypeOK
  <2>2. Counted
    BY FS_EmptySet, EmptySeq DEF CorrelationInit, Counted
  <2> QED
    BY <2>1, <2>2 DEF CorrelationInit, CorrelationInv, Running, LogOrdered, Placed, InOrder,
                      InBlocks, Sighted
<1>2. CorrelationInv /\ [CorrelationNext]_correlationVars => CorrelationInv'
  BY TypingStep, CountedStep, RunningStep, LogOrderedStep, PlacedStep, InOrderStep, InBlocksStep,
     SightedStep
     DEF CorrelationInv
<1> QED
  BY <1>1, <1>2, PTL DEF CorrelationSpec

-----------------------------------------------------------------------------
(* Pairs *)

LEMMA CandidatesArePlaces ==
  ASSUME CorrelationInv, NEW a, NEW kind
  PROVE  Candidates(a, kind) \in SUBSET Nat /\ Candidates(a, kind) \subseteq Places(kind)
<1>1. DOMAIN merged = 1..Len(merged) /\ Len(merged) \in Nat
  BY ListTypes DEF CorrelationInv
<1> QED
  BY <1>1 DEF Candidates, Places

\* A pair is made of a place and a later one.
LEMMA PairShape ==
  ASSUME CorrelationInv, NEW kindA, NEW kindB, NEW p \in TimeNear(kindA, kindB)
  PROVE  /\ p[1] \in DOMAIN merged /\ p[2] \in DOMAIN merged /\ p[1] < p[2]
<1>1. PICK a \in Places(kindA) : Candidates(a, kindB) # {} /\ p = <<a, Nearest(a, kindB)>>
  BY DEF TimeNear
<1>2. Nearest(a, kindB) \in Candidates(a, kindB)
  BY <1>1, CandidatesArePlaces, MinIsLeast DEF Nearest
<1> QED
  BY <1>1, <1>2 DEF Candidates, Places

LEMMA PairsCausal == CorrelationInv => PairsAreCausal
<1> SUFFICES ASSUME CorrelationInv, NEW p \in AllPairs, Traced(p[2])
             PROVE  IF Traced(p[1]) THEN merged[p[1]].real < merged[p[2]].real
                                    ELSE merged[p[1]].stage <= merged[p[2]].stage
  BY DEF PairsAreCausal
<1>1. p[1] \in DOMAIN merged /\ p[2] \in DOMAIN merged /\ p[1] < p[2]
  BY PairShape DEF AllPairs
<1> QED
  BY <1>1 DEF CorrelationInv, InOrder

LEMMA ReadFinds == CorrelationInv => ReadFindsItsConnect
<1> SUFFICES ASSUME CorrelationInv, NEW r \in Places("read")
             PROVE  LET own == {c \in Places("connect") :
                                   Traced(c) /\ merged[c].stage = merged[r].stage /\ r < c}
                    IN  own # {} => <<r, Min(own)>> \in TimeNear("read", "connect")
  BY DEF ReadFindsItsConnect
<1> DEFINE own == {c \in Places("connect") :
                      Traced(c) /\ merged[c].stage = merged[r].stage /\ r < c}
<1> SUFFICES ASSUME own # {} PROVE <<r, Min(own)>> \in TimeNear("read", "connect")
  OBVIOUS
<1>0. /\ CorrelationTypeOK /\ Placed /\ InOrder /\ InBlocks
      /\ Len(merged) \in Nat /\ DOMAIN merged = 1..Len(merged)
      /\ \A i \in DOMAIN merged : merged[i] \in Event
  BY ListTypes DEF CorrelationInv
<1>1. r \in DOMAIN merged /\ Traced(r)
  BY <1>0 DEF Placed, Places
<1>2. own \in SUBSET Nat /\ own \subseteq DOMAIN merged
  BY <1>0 DEF Places
<1>3. Min(own) \in own /\ \A c \in own : Min(own) <= c
  BY <1>2, MinIsLeast
<1> DEFINE m == Min(own)
<1>4. m \in Places("connect") /\ m \in DOMAIN merged /\ Traced(m) /\ merged[m].stage = merged[r].stage /\ r < m
  BY <1>3 DEF Places
<1> HIDE DEF m
\* Both were stamped with their log.
<1>5. Gap(r, m) <= Window
  <2>1. merged[r].stamp = merged[m].stamp /\ merged[r].stamp \in Nat
    BY <1>0, <1>1, <1>4, BoundsAssumption DEF InBlocks, Event
  <2> QED
    BY <2>1, WindowAssumption DEF Gap
\* What lies between is of that log.
<1>6. ASSUME NEW c \in Candidates(r, "connect"), c < m
      PROVE  FALSE
  <2>1. c \in Places("connect") /\ c \in DOMAIN merged /\ r < c
    BY DEF Candidates, Places
  <2>2. Traced(c)
    BY <1>0, <1>1, <1>4, <1>6, <2>1 DEF InBlocks
  <2>3. merged[r].stage <= merged[c].stage /\ merged[c].stage <= merged[m].stage
    BY <1>0, <1>1, <1>4, <1>6, <2>1, <2>2 DEF InOrder
  <2>4. merged[c].stage = merged[r].stage
    BY <1>0, <1>1, <1>4, <2>1, <2>3, BoundsAssumption DEF Event, Stages
  <2>5. c \in own
    BY <2>1, <2>2, <2>4
  <2> QED
    BY <1>2, <1>3, <1>6, <2>5 DEF m
<1>7. m \in Candidates(r, "connect")
  BY <1>4, <1>5 DEF Candidates
<1>8. Nearest(r, "connect") = m
  <2>1. \A c \in Candidates(r, "connect") : m <= c
    BY <1>0, <1>4, <1>6, CandidatesArePlaces
  <2> QED
    BY <1>7, <2>1, CandidatesArePlaces, MinIsUnique DEF Nearest
<1>9. <<r, m>> \in TimeNear("read", "connect")
  BY <1>7, <1>8 DEF TimeNear
<1> QED
  BY <1>9 DEF m

-----------------------------------------------------------------------------
(* The theorems *)

\* Every variable keeps its type: in particular an analysis in which so much
\* happened has at most twice as many events.
THEOREM CorrelationTyping == CorrelationSpec => []CorrelationTypeOK
<1>1. CorrelationInv => CorrelationTypeOK
  BY DEF CorrelationInv
<1> QED
  BY <1>1, CorrelationInvariant, PTL

\* build_correlations on traced events, stamped when their stage has ended: pairs
\* of them are in the true order, and nothing stamped at once is paired with what
\* an earlier stage did.
THEOREM CausalPairs == CorrelationSpec => []PairsAreCausal
  BY PairsCausal, CorrelationInvariant, PTL

\* _time_near pairs a read with the first connection its own stage made after it,
\* if the log has one, whatever was recorded meanwhile and whatever the window.
THEOREM ReadsPaired == CorrelationSpec => []ReadFindsItsConnect
  BY ReadFinds, CorrelationInvariant, PTL

\* build_timing_signals reports every stage whose survivor was sampled.
THEOREM SurvivorsReported == CorrelationSpec => []SightedIsResidual
<1>1. CorrelationInv => SightedIsResidual
  <2> SUFFICES ASSUME CorrelationInv, NEW s \in sighted PROVE s \in Residual
    BY DEF SightedIsResidual
  <2>1. s \in DOMAIN ended /\ SampledAfter(s)
    BY ListTypes DEF CorrelationInv, CorrelationTypeOK, Sighted
  <2> QED
    BY <2>1 DEF Residual
<1> QED
  BY <1>1, CorrelationInvariant, PTL

\* The first candidate has the least gap of all: taking it is what _time_near's
\* search for the smallest difference of stamps does.
THEOREM FirstIsNearest ==
  CorrelationSpec =>
    [](\A a \in DOMAIN merged, kind \in {"read", "connect", "bulk", "sample"} :
          \A c \in Candidates(a, kind) : Gap(a, Nearest(a, kind)) <= Gap(a, c))
<1>1. CorrelationInv =>
        \A a \in DOMAIN merged, kind \in {"read", "connect", "bulk", "sample"} :
          \A c \in Candidates(a, kind) : Gap(a, Nearest(a, kind)) <= Gap(a, c)
  <2> SUFFICES ASSUME CorrelationInv, NEW a \in DOMAIN merged,
                      NEW kind \in {"read", "connect", "bulk", "sample"},
                      NEW c \in Candidates(a, kind)
               PROVE  Gap(a, Nearest(a, kind)) <= Gap(a, c)
    OBVIOUS
  <2> DEFINE n == Nearest(a, kind)
  <2>1. n \in Candidates(a, kind) /\ n <= c
    BY CandidatesArePlaces, MinIsLeast DEF Nearest
  <2>2. a \in DOMAIN merged /\ n \in DOMAIN merged /\ c \in DOMAIN merged
    BY <2>1 DEF Candidates, Places
  <2>3. /\ DOMAIN merged = 1..Len(merged) /\ Len(merged) \in Nat
        /\ merged[a].stamp \in Nat /\ merged[n].stamp \in Nat /\ merged[c].stamp \in Nat
    BY <2>2, ListTypes, BoundsAssumption DEF CorrelationInv, Event
  <2>4. n = c \/ merged[n].stamp <= merged[c].stamp
    BY <2>1, <2>2, <2>3 DEF CorrelationInv, InOrder
  <2> QED
    BY <2>3, <2>4 DEF Gap
<1> QED
  BY <1>1, CorrelationInvariant, PTL
=============================================================================
