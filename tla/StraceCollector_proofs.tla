----------------------- MODULE StraceCollector_proofs -----------------------
(***************************************************************************)
(* Proofs about the trace collector, for any analyses, any number of       *)
(* stages, any logs, and any limit: whose lines it takes, and that it      *)
(* takes those of a stage that ended in time once and to the last.         *)
(***************************************************************************)
EXTENDS StraceCollector, TLAPS

\* A log that was never made: nobody has heard of it.
Fresh(f) ==
    /\ f \notin present \cup removed \cup live
    /\ log[f] = <<>>
    /\ \A a \in Analyses :
          f \notin seen[a] \cup todo[a] \cup old[a] /\ \A x \in got[a] : x[1] # f

\* The stages an analysis has still to start.
Ahead(a, s) == s > stage[a] \/ (s = stage[a] /\ at[a] = "marked")

Unmade ==
    /\ \A f \in starting : Fresh(f)
    /\ \A a \in Analyses, s \in 1..MaxStages :
          Ahead(a, s) => Fresh(<<a, s>>) /\ <<a, s>> \notin starting

\* Logs a collect must not take: those older than the collector, and those of
\* which an earlier collect has lines.
Past(a, f) ==
    f \in old[a] \/ \E x \in got[a] : x[1] = f /\ (x[3] < stage[a] \/ at[a] # "reading")

Attributed(a) ==
    /\ at[a] = "new" => got[a] = {}
    /\ \A f \in present : Past(a, f) => f \in seen[a]
    /\ \A f \in todo[a] : ~Past(a, f) /\ f \in present \cup removed
    /\ at[a] # "reading" => todo[a] = {}
    /\ \A x \in got[a] : x[1] \notin old[a] /\ x[3] <= stage[a]
    /\ at[a] \in {"marked", "running", "returned"} => \A x \in got[a] : x[3] < stage[a]
    /\ \A x, y \in got[a] : x[1] = y[1] => x[3] = y[3]

Over(a, s) ==
    s < stage[a] \/ (s = stage[a] /\ at[a] \in {"returned", "reading", "between"})

ReadAll(a, s) == \A k \in DOMAIN log[<<a, s>>] : <<<<a, s>>, k, s>> \in got[a]

\* The log of the stage that runs is not yet to be passed over, and that of a stage
\* that ended in time is complete.
Closed(a) ==
    /\ at[a] \in {"marked", "running", "returned"} => Own(a) \notin seen[a]
    /\ \A s \in 1..MaxStages :
          Over(a, s) /\ <<a, s>> \notin overdue => <<a, s>> \notin starting \cup live

\* It is read, or still to be read.
ReadOut(a) ==
    \A s \in 1..MaxStages :
       Over(a, s) /\ <<a, s>> \notin overdue \cup removed \cup cut =>
         \/ ReadAll(a, s)
         \/ s = stage[a] /\ at[a] = "returned"
         \/ s = stage[a] /\ at[a] = "reading" /\ <<a, s>> \in todo[a]

Written == \A f \in Logs : log[f] # <<>> => f \in present \cup removed

StraceInv ==
    /\ StraceTypeOK
    /\ Unmade
    /\ Written
    /\ \A a \in Analyses : Attributed(a) /\ Closed(a) /\ ReadOut(a)

-----------------------------------------------------------------------------

\* A collect takes the first n lines of the log it reads, for its own stage, and
\* leaves the log half read only if it is full.
ReadsTo(b, g, n) ==
    /\ at[b] = "reading" /\ g \in todo[b]
    /\ UNCHANGED <<at, stage, starting, live, log, present, removed, cleans, seen, overdue, old>>
    /\ DOMAIN taken' = DOMAIN taken
    /\ got' = [got EXCEPT ![b] = @ \cup {<<g, k, stage[b]>> : k \in 1..n}]
    /\ \/ todo' = [todo EXCEPT ![b] = {}] /\ cut' = cut \cup {Own(b)}
       \/ /\ todo' = [todo EXCEPT ![b] = @ \ {g}] /\ cut' = cut
          /\ g \in present => n = Len(log[g])

LEMMA LogIsRead ==
  ASSUME StraceTypeOK, NEW b \in Analyses, NEW g \in Logs, ReadLog(b, g)
  PROVE  \E n \in Nat : ReadsTo(b, g, n)
<1> DEFINE lines == IF g \in present THEN log[g] ELSE <<>>
<1>1. PICK n \in 0..Len(lines) :
         LET sum == taken[b] + EventsUpTo(lines, n)
             full == g \in present /\ sum >= Limit
         IN  /\ Takes(lines, taken[b], n)
             /\ got' = [got EXCEPT ![b] = @ \cup {<<g, k, stage[b]>> : k \in 1..n}]
             /\ todo' = [todo EXCEPT ![b] = IF full THEN {} ELSE @ \ {g}]
             /\ cut' = IF full THEN cut \cup {Own(b)} ELSE cut
  BY DEF ReadLog
<1>2. lines \in Seq(Kinds) /\ n \in Nat
  BY DEF StraceTypeOK
<1>3. g \in present /\ n # Len(lines) => taken[b] + EventsUpTo(lines, n) >= Limit
  BY <1>1 DEF Takes, Reaches
<1> QED
  BY <1>1, <1>2, <1>3 DEF ReadLog, ReadsTo, hostVars

LEMMA StraceTypingStep == StraceTypeOK /\ [StraceNext]_straceVars => StraceTypeOK'
<1> SUFFICES ASSUME StraceTypeOK, [StraceNext]_straceVars PROVE StraceTypeOK'
  OBVIOUS
<1>0. \A a \in Analyses, s \in 1..MaxStages : <<a, s>> \in Logs
  BY DEF Logs
<1> USE <1>0, StagesAssumption DEF StraceTypeOK, Active, hostVars, collectVars
<1>1. ASSUME NEW b \in Analyses, Construct(b)
      PROVE  StraceTypeOK'
  BY <1>1 DEF Construct, Mark, To
<1>2. ASSUME NEW b \in Analyses, MarkBefore(b)
      PROVE  StraceTypeOK'
  BY <1>2 DEF MarkBefore, Mark, To
<1>3. ASSUME NEW b \in Analyses, RunStage(b)
      PROVE  StraceTypeOK'
  BY <1>3 DEF RunStage, To, Own
<1>4. ASSUME NEW b \in Analyses, StageReturns(b)
      PROVE  StraceTypeOK'
  BY <1>4 DEF StageReturns, To, Own
<1>5. ASSUME NEW b \in Analyses, StageRaises(b)
      PROVE  StraceTypeOK'
  BY <1>5 DEF StageRaises, To
<1>6. ASSUME NEW b \in Analyses, BeginCollect(b)
      PROVE  StraceTypeOK'
  BY <1>6 DEF BeginCollect, To
<1>7. ASSUME NEW b \in Analyses, EndCollect(b)
      PROVE  StraceTypeOK'
  BY <1>7 DEF EndCollect, Mark, To
<1>8. ASSUME NEW b \in Analyses, NEW g \in Logs, ReadLog(b, g)
      PROVE  StraceTypeOK'
  <2>1. PICK n \in Nat : ReadsTo(b, g, n)
    BY <1>8, LogIsRead
  <2>2. {<<g, k, stage[b]>> : k \in 1..n} \subseteq Logs \X Nat \X Nat
    OBVIOUS
  <2>3. got' \in [Analyses -> SUBSET (Logs \X Nat \X Nat)]
    BY <2>1, <2>2 DEF ReadsTo
  <2>4. \E T \in SUBSET Logs : todo' = [todo EXCEPT ![b] = T]
    BY <2>1 DEF ReadsTo
  <2>5. Own(b) \in Logs /\ cut' \subseteq Logs
    BY <2>1 DEF ReadsTo, Own
  <2>6. /\ UNCHANGED <<at, stage, starting, live, log, present, removed, cleans, seen, overdue, old>>
        /\ DOMAIN taken' = DOMAIN taken
    BY <2>1 DEF ReadsTo
  <2> QED
    BY <2>3, <2>4, <2>5, <2>6
<1>9. ASSUME NEW g \in Logs, MakeContainer(g)
      PROVE  StraceTypeOK'
  BY <1>9 DEF MakeContainer
<1>10. ASSUME NEW g \in Logs, ContainerExits(g)
       PROVE  StraceTypeOK'
  BY <1>10 DEF ContainerExits
<1>11. ASSUME NEW g \in Logs, NEW kind \in Kinds, WriteLine(g, kind)
       PROVE  StraceTypeOK'
  BY <1>11 DEF WriteLine
<1>12. CASE CleanDirectory
  BY <1>12 DEF CleanDirectory
<1>13. CASE UNCHANGED straceVars
  BY <1>13 DEF straceVars
<1> QED
  BY <1>1, <1>2, <1>3, <1>4, <1>5, <1>6, <1>7, <1>8, <1>9, <1>10, <1>11,
     <1>12, <1>13
     DEF StraceNext

LEMMA UnmadeStep == StraceInv /\ [StraceNext]_straceVars => Unmade'
<1> SUFFICES ASSUME StraceInv, [StraceNext]_straceVars PROVE Unmade'
  OBVIOUS
<1>0. /\ StraceTypeOK /\ Unmade
      /\ \A a \in Analyses, s \in 1..MaxStages : <<a, s>> \in Logs
  BY DEF StraceInv, Logs
<1> USE <1>0, StagesAssumption DEF StraceTypeOK, Active, Unmade, Fresh, Ahead, hostVars, collectVars
<1>1. ASSUME NEW b \in Analyses, Construct(b)
      PROVE  Unmade'
  BY <1>1 DEF Construct, Mark, To
<1>2. ASSUME NEW b \in Analyses, MarkBefore(b)
      PROVE  Unmade'
  BY <1>2 DEF MarkBefore, Mark, To
<1>3. ASSUME NEW b \in Analyses, RunStage(b)
      PROVE  Unmade'
  <2>1. \A f : Fresh(f) => Fresh(f)'
    BY <1>3 DEF RunStage
  <2>2. Fresh(Own(b))
    BY <1>3 DEF RunStage, Own
  <2>3. \A a \in Analyses, s \in 1..MaxStages : Ahead(a, s)' => Ahead(a, s) /\ <<a, s>> # Own(b)
    BY <1>3 DEF RunStage, To, Own
  <2> HIDE DEF Fresh, Ahead
  <2> QED
    BY <1>3, <2>1, <2>2, <2>3 DEF RunStage
<1>4. ASSUME NEW b \in Analyses, StageReturns(b)
      PROVE  Unmade'
  BY <1>4 DEF StageReturns, To, Own
<1>5. ASSUME NEW b \in Analyses, StageRaises(b)
      PROVE  Unmade'
  BY <1>5 DEF StageRaises, To
<1>6. ASSUME NEW b \in Analyses, BeginCollect(b)
      PROVE  Unmade'
  BY <1>6 DEF BeginCollect, To
<1>7. ASSUME NEW b \in Analyses, EndCollect(b)
      PROVE  Unmade'
  BY <1>7 DEF EndCollect, Mark, To
<1>8. ASSUME NEW b \in Analyses, NEW g \in Logs, ReadLog(b, g)
      PROVE  Unmade'
  <2>1. PICK n \in Nat : ReadsTo(b, g, n)
    BY <1>8, LogIsRead
  <2>2. /\ g \in todo[b]
        /\ UNCHANGED <<at, stage, starting, present, removed, live, log, seen, old>>
    BY <2>1 DEF ReadsTo
  <2>3. ASSUME NEW a \in Analyses PROVE todo'[a] \subseteq todo[a]
    <3>1. todo'[a] = todo[a] \/ (a = b /\ todo'[a] \in {{}, todo[a] \ {g}})
      BY <2>1 DEF ReadsTo
    <3> QED
      BY <3>1
  <2>4. \A f : Fresh(f) => Fresh(f)'
    BY <2>1, <2>2, <2>3 DEF ReadsTo
  <2> HIDE DEF Fresh
  <2> QED
    BY <2>2, <2>4
<1>9. ASSUME NEW g \in Logs, MakeContainer(g)
      PROVE  Unmade'
  BY <1>9 DEF MakeContainer
<1>10. ASSUME NEW g \in Logs, ContainerExits(g)
       PROVE  Unmade'
  <2>1. \A f : Fresh(f) => Fresh(f)'
    BY <1>10 DEF ContainerExits
  <2>2. \A a \in Analyses, s \in 1..MaxStages : Ahead(a, s)' <=> Ahead(a, s)
    BY <1>10 DEF ContainerExits
  <2> HIDE DEF Fresh, Ahead
  <2> QED
    BY <1>10, <2>1, <2>2 DEF ContainerExits
<1>11. ASSUME NEW g \in Logs, NEW kind \in Kinds, WriteLine(g, kind)
       PROVE  Unmade'
  BY <1>11 DEF WriteLine
<1>12. CASE CleanDirectory
  BY <1>12 DEF CleanDirectory
<1>13. CASE UNCHANGED straceVars
  BY <1>13 DEF straceVars
<1> QED
  BY <1>1, <1>2, <1>3, <1>4, <1>5, <1>6, <1>7, <1>8, <1>9, <1>10, <1>11,
     <1>12, <1>13
     DEF StraceNext

LEMMA WrittenStep == StraceInv /\ [StraceNext]_straceVars => Written'
<1> SUFFICES ASSUME StraceInv, [StraceNext]_straceVars PROVE Written'
  OBVIOUS
<1>0. StraceTypeOK /\ Written
  BY DEF StraceInv
<1> USE <1>0 DEF StraceTypeOK, Written, hostVars, collectVars
<1>1. ASSUME NEW b \in Analyses, Construct(b)
      PROVE  Written'
  BY <1>1 DEF Construct, Mark, To
<1>2. ASSUME NEW b \in Analyses, MarkBefore(b)
      PROVE  Written'
  BY <1>2 DEF MarkBefore, Mark, To
<1>3. ASSUME NEW b \in Analyses, RunStage(b)
      PROVE  Written'
  BY <1>3 DEF RunStage, To, Own
<1>4. ASSUME NEW b \in Analyses, StageReturns(b)
      PROVE  Written'
  BY <1>4 DEF StageReturns, To, Own
<1>5. ASSUME NEW b \in Analyses, StageRaises(b)
      PROVE  Written'
  BY <1>5 DEF StageRaises, To
<1>6. ASSUME NEW b \in Analyses, BeginCollect(b)
      PROVE  Written'
  BY <1>6 DEF BeginCollect, To
<1>7. ASSUME NEW b \in Analyses, EndCollect(b)
      PROVE  Written'
  BY <1>7 DEF EndCollect, Mark, To
<1>8. ASSUME NEW b \in Analyses, NEW g \in Logs, ReadLog(b, g)
      PROVE  Written'
  BY <1>8, LogIsRead DEF ReadsTo
<1>9. ASSUME NEW g \in Logs, MakeContainer(g)
      PROVE  Written'
  BY <1>9 DEF MakeContainer
<1>10. ASSUME NEW g \in Logs, ContainerExits(g)
       PROVE  Written'
  BY <1>10 DEF ContainerExits
<1>11. ASSUME NEW g \in Logs, NEW kind \in Kinds, WriteLine(g, kind)
       PROVE  Written'
  BY <1>11 DEF WriteLine
<1>12. CASE CleanDirectory
  BY <1>12 DEF CleanDirectory
<1>13. CASE UNCHANGED straceVars
  BY <1>13 DEF straceVars
<1> QED
  BY <1>1, <1>2, <1>3, <1>4, <1>5, <1>6, <1>7, <1>8, <1>9, <1>10, <1>11,
     <1>12, <1>13
     DEF StraceNext

LEMMA AttributedStep ==
  StraceInv /\ [StraceNext]_straceVars => \A a \in Analyses : Attributed(a)'
<1> SUFFICES ASSUME StraceInv, [StraceNext]_straceVars, NEW a \in Analyses
             PROVE  Attributed(a)'
  OBVIOUS
<1>0. StraceTypeOK /\ Unmade /\ Attributed(a)
  BY DEF StraceInv
<1> USE <1>0, StagesAssumption
    DEF StraceTypeOK, Active, Unmade, Fresh, Attributed, Past, hostVars, collectVars
<1>1. ASSUME NEW b \in Analyses, Construct(b)
      PROVE  Attributed(a)'
  BY <1>1 DEF Construct, Mark, To
<1>2. ASSUME NEW b \in Analyses, MarkBefore(b)
      PROVE  Attributed(a)'
  BY <1>2 DEF MarkBefore, Mark, To
<1>3. ASSUME NEW b \in Analyses, RunStage(b)
      PROVE  Attributed(a)'
  BY <1>3 DEF RunStage, To, Own
<1>4. ASSUME NEW b \in Analyses, StageReturns(b)
      PROVE  Attributed(a)'
  BY <1>4 DEF StageReturns, To, Own
<1>5. ASSUME NEW b \in Analyses, StageRaises(b)
      PROVE  Attributed(a)'
  BY <1>5 DEF StageRaises, To
<1>6. ASSUME NEW b \in Analyses, BeginCollect(b)
      PROVE  Attributed(a)'
  BY <1>6 DEF BeginCollect, To
<1>7. ASSUME NEW b \in Analyses, EndCollect(b)
      PROVE  Attributed(a)'
  BY <1>7 DEF EndCollect, Mark, To
<1>8. ASSUME NEW b \in Analyses, NEW g \in Logs, ReadLog(b, g)
      PROVE  Attributed(a)'
  <2>1. PICK n \in Nat : ReadsTo(b, g, n)
    BY <1>8, LogIsRead
  <2>2. /\ at[b] = "reading" /\ g \in todo[b]
        /\ UNCHANGED <<at, stage, present, removed, seen, old>>
        /\ todo'[a] \subseteq todo[a] /\ (a = b => g \notin todo'[a])
    BY <2>1 DEF ReadsTo
  <2>3. CASE a # b
    BY <2>1, <2>2, <2>3 DEF ReadsTo
  <2>4. CASE a = b
    <3>1. \A x \in got'[a] : x \in got[a] \/ (x[1] = g /\ x[3] = stage[a])
      BY <2>1, <2>4 DEF ReadsTo
    <3>2. ~Past(a, g) /\ g \notin old[a] /\ \A x \in got[a] : x[1] = g => x[3] = stage[a]
      BY <2>2, <2>4
    <3>3. \A f : Past(a, f)' => Past(a, f)
      BY <2>2, <2>4, <3>1
    <3>4. \A x, y \in got'[a] : x[1] = y[1] => x[3] = y[3]
      BY <3>1, <3>2
    <3>5. \A x \in got'[a] : x[1] \notin old[a] /\ x[3] <= stage[a]
      BY <3>1, <3>2
    <3> HIDE DEF Past
    <3> QED
      BY <2>2, <2>4, <3>3, <3>4, <3>5
  <2> QED
    BY <2>3, <2>4
<1>9. ASSUME NEW g \in Logs, MakeContainer(g)
      PROVE  Attributed(a)'
  BY <1>9 DEF MakeContainer
<1>10. ASSUME NEW g \in Logs, ContainerExits(g)
       PROVE  Attributed(a)'
  BY <1>10 DEF ContainerExits
<1>11. ASSUME NEW g \in Logs, NEW kind \in Kinds, WriteLine(g, kind)
       PROVE  Attributed(a)'
  BY <1>11 DEF WriteLine
<1>12. CASE CleanDirectory
  BY <1>12 DEF CleanDirectory
<1>13. CASE UNCHANGED straceVars
  BY <1>13 DEF straceVars
<1> QED
  BY <1>1, <1>2, <1>3, <1>4, <1>5, <1>6, <1>7, <1>8, <1>9, <1>10, <1>11,
     <1>12, <1>13
     DEF StraceNext

LEMMA ClosedStep ==
  StraceInv /\ [StraceNext]_straceVars => \A a \in Analyses : Closed(a)'
<1> SUFFICES ASSUME StraceInv, [StraceNext]_straceVars, NEW a \in Analyses
             PROVE  Closed(a)'
  OBVIOUS
<1>0. /\ StraceTypeOK /\ Unmade /\ Closed(a)
      /\ \A b \in Analyses, s \in 1..MaxStages : <<b, s>> \in Logs
  BY DEF StraceInv, Logs
<1> USE <1>0, StagesAssumption
    DEF StraceTypeOK, Active, Unmade, Fresh, Ahead, Closed, Over, Own, hostVars, collectVars
<1>1. ASSUME NEW b \in Analyses, Construct(b)
      PROVE  Closed(a)'
  BY <1>1 DEF Construct, Mark, To
<1>2. ASSUME NEW b \in Analyses, MarkBefore(b)
      PROVE  Closed(a)'
  BY <1>2 DEF MarkBefore, Mark, To
<1>3. ASSUME NEW b \in Analyses, RunStage(b)
      PROVE  Closed(a)'
  BY <1>3 DEF RunStage, To, Own
<1>4. ASSUME NEW b \in Analyses, StageReturns(b)
      PROVE  Closed(a)'
  BY <1>4 DEF StageReturns, To, Own
<1>5. ASSUME NEW b \in Analyses, StageRaises(b)
      PROVE  Closed(a)'
  BY <1>5 DEF StageRaises, To
<1>6. ASSUME NEW b \in Analyses, BeginCollect(b)
      PROVE  Closed(a)'
  BY <1>6 DEF BeginCollect, To
<1>7. ASSUME NEW b \in Analyses, EndCollect(b)
      PROVE  Closed(a)'
  BY <1>7 DEF EndCollect, Mark, To
<1>8. ASSUME NEW b \in Analyses, NEW g \in Logs, ReadLog(b, g)
      PROVE  Closed(a)'
  BY <1>8, LogIsRead DEF ReadsTo
<1>9. ASSUME NEW g \in Logs, MakeContainer(g)
      PROVE  Closed(a)'
  BY <1>9 DEF MakeContainer
<1>10. ASSUME NEW g \in Logs, ContainerExits(g)
       PROVE  Closed(a)'
  BY <1>10 DEF ContainerExits
<1>11. ASSUME NEW g \in Logs, NEW kind \in Kinds, WriteLine(g, kind)
       PROVE  Closed(a)'
  BY <1>11 DEF WriteLine
<1>12. CASE CleanDirectory
  BY <1>12 DEF CleanDirectory
<1>13. CASE UNCHANGED straceVars
  BY <1>13 DEF straceVars
<1> QED
  BY <1>1, <1>2, <1>3, <1>4, <1>5, <1>6, <1>7, <1>8, <1>9, <1>10, <1>11,
     <1>12, <1>13
     DEF StraceNext

LEMMA ReadOutStep ==
  StraceInv /\ [StraceNext]_straceVars => \A a \in Analyses : ReadOut(a)'
<1> SUFFICES ASSUME StraceInv, [StraceNext]_straceVars, NEW a \in Analyses
             PROVE  ReadOut(a)'
  OBVIOUS
<1>0. /\ StraceTypeOK /\ Written /\ Attributed(a) /\ Closed(a) /\ ReadOut(a)
      /\ \A b \in Analyses, s \in 1..MaxStages : <<b, s>> \in Logs
  BY DEF StraceInv, Logs
<1> USE <1>0, StagesAssumption
    DEF StraceTypeOK, Active, Written, Closed, ReadOut, Over, ReadAll, Own, hostVars, collectVars
<1>1. ASSUME NEW b \in Analyses, Construct(b)
      PROVE  ReadOut(a)'
  BY <1>1 DEF Construct, Mark, To
<1>2. ASSUME NEW b \in Analyses, MarkBefore(b)
      PROVE  ReadOut(a)'
  BY <1>2 DEF MarkBefore, Mark, To
<1>3. ASSUME NEW b \in Analyses, RunStage(b)
      PROVE  ReadOut(a)'
  BY <1>3 DEF RunStage, To, Own
<1>4. ASSUME NEW b \in Analyses, StageReturns(b)
      PROVE  ReadOut(a)'
  BY <1>4 DEF StageReturns, To, Own
<1>5. ASSUME NEW b \in Analyses, StageRaises(b)
      PROVE  ReadOut(a)'
  BY <1>5 DEF StageRaises, To
<1>6. ASSUME NEW b \in Analyses, BeginCollect(b)
      PROVE  ReadOut(a)'
  <2> SUFFICES ASSUME NEW s \in 1..MaxStages, Over(a, s)', ~ReadAll(a, s)',
                      <<a, s>> \notin (overdue \cup removed \cup cut)'
               PROVE  \/ s = stage'[a] /\ at'[a] = "returned"
                      \/ s = stage'[a] /\ at'[a] = "reading" /\ <<a, s>> \in todo'[a]
    BY DEF ReadOut
  <2>1. UNCHANGED <<stage, log, got, overdue, removed, cut, present>>
    BY <1>6 DEF BeginCollect
  <2>2. CASE a # b
    BY <1>6, <2>1, <2>2 DEF BeginCollect, To
  <2>3. CASE a = b
    <3>1. at[a] = "returned" /\ at'[a] = "reading" /\ todo'[a] = present \ seen[a]
      BY <1>6, <2>3 DEF BeginCollect, To
    <3>2. s = stage[a]
      BY <2>1, <3>1
    <3>3. log[<<a, s>>] # <<>>
      <4>1. DOMAIN <<>> = {}
        OBVIOUS
      <4> QED
        BY <2>1, <4>1
    <3>4. <<a, s>> \in present /\ <<a, s>> \notin seen[a]
      BY <2>1, <3>1, <3>2, <3>3
    <3> QED
      BY <2>1, <3>1, <3>2, <3>4
  <2> QED
    BY <2>2, <2>3
<1>7. ASSUME NEW b \in Analyses, EndCollect(b)
      PROVE  ReadOut(a)'
  BY <1>7 DEF EndCollect, Mark, To
<1>8. ASSUME NEW b \in Analyses, NEW g \in Logs, ReadLog(b, g)
      PROVE  ReadOut(a)'
  <2>1. PICK n \in Nat : ReadsTo(b, g, n)
    BY <1>8, LogIsRead
  <2>2. UNCHANGED <<at, stage, log, overdue, removed, present>>
    BY <2>1 DEF ReadsTo
  <2>3. \A s \in 1..MaxStages : ReadAll(a, s) => ReadAll(a, s)'
    BY <2>1, <2>2 DEF ReadsTo
  <2>4. CASE a # b
    BY <2>1, <2>2, <2>3, <2>4 DEF ReadsTo
  <2>5. ASSUME a = b, Own(b) \notin cut', g = Own(a), g \notin removed PROVE ReadAll(a, stage[a])'
    <3>1. g \in todo[a] /\ g \in present
      BY <2>1, <2>5 DEF ReadsTo, Attributed
    <3>2. n = Len(log[g]) /\ log[g] \in Seq(Kinds)
      BY <2>1, <2>5, <3>1 DEF ReadsTo
    <3> QED
      BY <2>1, <2>2, <2>5, <3>2 DEF ReadsTo
  <2>6. ASSUME a = b, Own(b) \notin cut', g # Own(a) PROVE Own(a) \in todo[a] => Own(a) \in todo'[a]
    BY <2>1, <2>6 DEF ReadsTo
  <2>7. cut \subseteq cut'
    BY <2>1 DEF ReadsTo
  <2> HIDE DEF ReadAll
  <2> QED
    BY <2>2, <2>3, <2>4, <2>5, <2>6, <2>7
<1>9. ASSUME NEW g \in Logs, MakeContainer(g)
      PROVE  ReadOut(a)'
  BY <1>9 DEF MakeContainer
<1>10. ASSUME NEW g \in Logs, ContainerExits(g)
       PROVE  ReadOut(a)'
  BY <1>10 DEF ContainerExits
<1>11. ASSUME NEW g \in Logs, NEW kind \in Kinds, WriteLine(g, kind)
       PROVE  ReadOut(a)'
  BY <1>11 DEF WriteLine
<1>12. CASE CleanDirectory
  BY <1>12 DEF CleanDirectory
<1>13. CASE UNCHANGED straceVars
  BY <1>13 DEF straceVars
<1> QED
  BY <1>1, <1>2, <1>3, <1>4, <1>5, <1>6, <1>7, <1>8, <1>9, <1>10, <1>11,
     <1>12, <1>13
     DEF StraceNext

LEMMA StraceInvariant == StraceSpec => []StraceInv
<1>1. StraceInit => StraceInv
  BY AnalysesAssumption, StagesAssumption
     DEF StraceInit, StraceInv, StraceTypeOK, Active, Unmade, Fresh, Ahead, Written, Attributed,
         Past, Closed, ReadOut, Over, ReadAll, Own, Logs
<1>2. StraceInv /\ [StraceNext]_straceVars => StraceInv'
  <2> SUFFICES ASSUME StraceInv, [StraceNext]_straceVars PROVE StraceInv'
    OBVIOUS
  <2>1. StraceTypeOK'
    BY StraceTypingStep DEF StraceInv
  <2> QED
    BY <2>1, UnmadeStep, WrittenStep, AttributedStep, ClosedStep, ReadOutStep DEF StraceInv
<1> QED
  BY <1>1, <1>2, PTL DEF StraceSpec

-----------------------------------------------------------------------------
(* The theorems *)

\* Every variable of the collector and of the directory keeps its type.
THEOREM StraceTyping == StraceSpec => []StraceTypeOK
<1>1. StraceInv => StraceTypeOK
  BY DEF StraceInv
<1> QED
  BY <1>1, StraceInvariant, PTL

\* The log of a stage whose client returned in time is read to its last line,
\* for that stage and no other, unless the limit or a removal got in the way.
THEOREM FinishedIsRead == StraceSpec => []FinishedStageIsReadOnce
<1>1. StraceInv => FinishedStageIsReadOnce
  BY DEF StraceInv, Attributed, ReadOut, Over, ReadAll, FinishedStageIsReadOnce
<1> QED
  BY <1>1, StraceInvariant, PTL

\* No event comes from a log that is older than the analysis's collector.
THEOREM ForeignIsConcurrent == StraceSpec => []ForeignOnlyIfConcurrent
<1>1. StraceInv => ForeignOnlyIfConcurrent
  BY DEF StraceInv, Attributed, ForeignOnlyIfConcurrent
<1> QED
  BY <1>1, StraceInvariant, PTL
=============================================================================
