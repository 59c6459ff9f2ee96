------------------------- MODULE SharedHost_proofs -------------------------
(***************************************************************************)
(* Proofs about SharedHost for any number of analyses, backends and         *)
(* crashes. The three invariants concern three resources, and each gets a    *)
(* strengthening of its own: who leaves the list unreadable, who leaves the  *)
(* cache in part, and what a running tracer says of its analysis.            *)
(***************************************************************************)
EXTENDS SharedHost, TLAPS

\* The list is never taken away again, a reader without one could not fetch it,
\* and one that is unreadable is being written or was left so.
ListInv ==
    /\ list = "absent" => ~everGood
    /\ list = "unreadable" => spoilt \/ \E a \in Analyses : pc[a] = "writing"
    /\ \A a \in Analyses :
          /\ pc[a] \in {"write", "writing"} => body[a] # "none"
          /\ pc[a] = "read" /\ list = "absent" => a \in excused
          /\ verdict[a] = "unavailable" => a \in excused

\* A wheel in part is being written, and a cache in part being filled, unless a
\* pip was cut short; what was listed without a hindrance is all there, whole.
CacheInv ==
    /\ \A b \in Backends : cache[b] = "partial" =>
          cut \/ \E a \in Analyses : pc[a] = "pip" /\ writing[a] = b
    /\ InCache # {} /\ InCache # Backends =>
          cut \/ \E a \in Analyses : pc[a] = "pip"
    /\ \A a \in Analyses :
          /\ pc[a] = "copy" =>
                \/ a \in hindered \/ cut
                \/ listed[a] = Backends /\ \A b \in Backends : cache[b] = "whole"
          /\ pc[a] = "stages" => a \in hindered \/ cut \/ usable[a] = Backends

Before == {"idle", "list", "fetch", "write", "writing", "read", "collect"}

\* A tracer runs only from its start to the stop that ends it, or beyond one that
\* did not; what ended it before is noted.
TracerInv ==
    \A a \in Analyses :
        /\ pc[a] \in Before => tracer[a] = "none" /\ status[a] = "not started"
        /\ tracer[a] = "running" =>
              a \in spared \/ (status[a] = "tracing" /\ pc[a] \notin {"done", "dead"})
        /\ tracer[a] = "ended" /\ pc[a] # "done" => met[a] # {} \/ a \in quit

SharedInv == SharedTypeOK /\ ListInv /\ CacheInv /\ TracerInv

\* The initial state satisfies all of it.
LEMMA SharedInitInv == SharedInit => SharedInv
<1> SUFFICES ASSUME SharedInit PROVE SharedInv
  OBVIOUS
<1>1. pc \in [Analyses -> Places] /\ crashes \in 0..MaxCrashes
  BY CrashesAssumption DEF SharedInit, Places
<1>2. ListTypes /\ ListInv
  BY DEF SharedInit, ListInit, ListTypes, ListInv
<1>3. CacheTypes /\ CacheInv
  BY DEF SharedInit, CacheInit, CacheTypes, CacheInv, InCache
<1>4. TracerTypes /\ TracerInv
  BY DEF SharedInit, TracerInit, TracerTypes, TracerInv, Before
<1> QED
  BY <1>1, <1>2, <1>3, <1>4 DEF SharedInv, SharedTypeOK

\* Every step keeps the places and the count of crashes.
LEMMA PlacesStep ==
    ASSUME pc \in [Analyses -> Places], crashes \in 0..MaxCrashes, [SharedNext]_sharedVars
    PROVE  pc' \in [Analyses -> Places] /\ crashes' \in 0..MaxCrashes
<1>1. CASE UNCHANGED sharedVars
  BY <1>1 DEF sharedVars
<1>2. CASE ListAges
  BY <1>2 DEF ListAges, OtherVarsOfList
<1>3. CASE Crash
  BY <1>3, CrashesAssumption DEF Crash, Places
<1>4. ASSUME NEW a \in Analyses, OfAnalysis(a) PROVE pc' \in [Analyses -> Places] /\ crashes' \in 0..MaxCrashes
  <2>1. /\ UNCHANGED crashes
        /\ UNCHANGED pc \/ \E from, to \in Places : Goto(a, from, to)
    BY <1>4 DEF OfAnalysis, Begin, CheckList, FetchList, OpenList, WriteList,
         WriteFails, ReadList, StartTracer, TracerQuits, StopTracer, DrainTracer,
         CheckCache, PipOpens, PipCloses, PipEnds, PipFails, CopyWheels,
         OtherVarsOfList, OtherVarsOfCache, OtherVarsOfTracer, Goto, Places
  <2> QED
    BY <2>1 DEF Goto
<1> QED
  BY <1>1, <1>2, <1>3, <1>4 DEF SharedNext

\* A stop of the tracer leaves the list and the cache alone.
LEMMA StopGoes ==
    ASSUME NEW a \in Analyses, StopTracer(a)
    PROVE  /\ UNCHANGED <<listVars, cacheVars>>
           /\ pc[a] \in {"stages", "wheel"}
           /\ \E to \in {"drain", "done"} : pc' = [pc EXCEPT ![a] = to]
  BY DEF StopTracer, OtherVarsOfTracer, Goto

\* Every step keeps what is known of the list: a write ends with the file
\* readable, or leaves a mark.
LEMMA ListStep ==
    ASSUME pc \in [Analyses -> Places], ListTypes, ListInv, [SharedNext]_sharedVars
    PROVE  ListTypes' /\ ListInv'
<1>1. CASE UNCHANGED sharedVars
  BY <1>1 DEF sharedVars, ListTypes, ListInv, listVars
<1>2. CASE ListAges
  BY <1>2 DEF ListAges, OtherVarsOfList, ListTypes, ListInv, listVars
<1>3. CASE Crash
  BY <1>3 DEF Crash, InCache, ListTypes, ListInv, listVars
<1>4. ASSUME NEW a \in Analyses, OfAnalysis(a) PROVE ListTypes' /\ ListInv'
  <2>1. CASE Begin(a)
    BY <2>1 DEF Begin, OtherVarsOfList, Goto, ListTypes, ListInv, listVars
  <2>2. CASE CheckList(a)
    BY <2>2 DEF CheckList, OtherVarsOfList, Goto, ListTypes, ListInv, listVars
  <2>3. CASE FetchList(a)
    BY <2>3 DEF FetchList, OtherVarsOfList, Goto, ListTypes, ListInv, listVars
  <2>4. CASE OpenList(a)
    BY <2>4 DEF OpenList, OtherVarsOfList, Goto, ListTypes, ListInv, listVars
  <2>5. CASE WriteList(a)
    BY <2>5 DEF WriteList, OtherVarsOfList, Goto, ListTypes, ListInv, listVars
  <2>6. CASE WriteFails(a)
    BY <2>6 DEF WriteFails, OtherVarsOfList, Goto, ListTypes, ListInv,
         listVars
  <2>7. CASE ReadList(a)
    BY <2>7 DEF ReadList, ListWriters, OtherVarsOfList, Goto, ListTypes,
         ListInv, listVars
  <2>8. CASE StartTracer(a)
    BY <2>8 DEF StartTracer, OtherVarsOfTracer, Goto, ListTypes, ListInv, listVars
  <2>9. CASE StopTracer(a)
    BY <2>9, StopGoes DEF ListTypes, ListInv, listVars
  <2>16. CASE TracerQuits(a)
    BY <2>16 DEF TracerQuits, OtherVarsOfTracer, ListTypes, ListInv, listVars
  <2>17. CASE DrainTracer(a)
    BY <2>17 DEF DrainTracer, OtherVarsOfTracer, Goto, ListTypes, ListInv, listVars
  <2>10. CASE CheckCache(a)
    BY <2>10 DEF CheckCache, ListCache, InCache, Downloaders,
         OtherVarsOfCache, Goto, ListTypes, ListInv, listVars
  <2>11. CASE PipOpens(a)
    BY <2>11 DEF PipOpens, InCache, OtherVarsOfCache, Goto, ListTypes,
         ListInv, listVars
  <2>12. CASE PipCloses(a)
    BY <2>12 DEF PipCloses, InCache, OtherVarsOfCache, Goto, ListTypes,
         ListInv, listVars
  <2>13. CASE PipEnds(a)
    BY <2>13 DEF PipEnds, ListCache, InCache, Downloaders, OtherVarsOfCache,
         Goto, ListTypes, ListInv, listVars
  <2>14. CASE PipFails(a)
    BY <2>14 DEF PipFails, ListCache, InCache, Downloaders, OtherVarsOfCache,
         Goto, ListTypes, ListInv, listVars
  <2>15. CASE CopyWheels(a)
    BY <2>15 DEF CopyWheels, OtherVarsOfCache, Goto, ListTypes, ListInv,
         listVars
  <2> QED
    BY <1>4, <2>1, <2>2, <2>3, <2>4, <2>5, <2>6, <2>7, <2>8, <2>9, <2>10,
         <2>11, <2>12, <2>13, <2>14, <2>15, <2>16, <2>17 DEF OfAnalysis
<1> QED
  BY <1>1, <1>2, <1>3, <1>4 DEF SharedNext

\* Every step keeps what is known of the cache: a pip ends with all wheels
\* whole, or leaves a mark.
LEMMA CacheStep ==
    ASSUME pc \in [Analyses -> Places], CacheTypes, CacheInv, [SharedNext]_sharedVars
    PROVE  CacheTypes' /\ CacheInv'
<1>1. CASE UNCHANGED sharedVars
  BY <1>1 DEF sharedVars, CacheTypes, CacheInv, cacheVars, InCache
<1>2. CASE ListAges
  BY <1>2 DEF ListAges, OtherVarsOfList, CacheTypes, CacheInv, cacheVars,
       InCache
<1>3. CASE Crash
  BY <1>3, BackendsAssumption DEF Crash, CacheTypes, CacheInv, cacheVars,
       InCache
<1>4. ASSUME NEW a \in Analyses, OfAnalysis(a) PROVE CacheTypes' /\ CacheInv'
  <2>1. CASE Begin(a)
    BY <2>1, BackendsAssumption DEF Begin, OtherVarsOfList, Goto, CacheTypes,
         CacheInv, cacheVars, InCache
  <2>2. CASE CheckList(a)
    BY <2>2, BackendsAssumption DEF CheckList, OtherVarsOfList, Goto,
         CacheTypes, CacheInv, cacheVars, InCache
  <2>3. CASE FetchList(a)
    BY <2>3, BackendsAssumption DEF FetchList, OtherVarsOfList, Goto,
         CacheTypes, CacheInv, cacheVars, InCache
  <2>4. CASE OpenList(a)
    BY <2>4, BackendsAssumption DEF OpenList, OtherVarsOfList, Goto,
         CacheTypes, CacheInv, cacheVars, InCache
  <2>5. CASE WriteList(a)
    BY <2>5, BackendsAssumption DEF WriteList, OtherVarsOfList, Goto,
         CacheTypes, CacheInv, cacheVars, InCache
  <2>6. CASE WriteFails(a)
    BY <2>6, BackendsAssumption DEF WriteFails, OtherVarsOfList, Goto,
         CacheTypes, CacheInv, cacheVars, InCache
  <2>7. CASE ReadList(a)
    BY <2>7, BackendsAssumption DEF ReadList, ListWriters, OtherVarsOfList,
         Goto, CacheTypes, CacheInv, cacheVars, InCache
  <2>8. CASE StartTracer(a)
    <3>1. UNCHANGED cacheVars /\ pc[a] = "collect"
      BY <2>8 DEF StartTracer, OtherVarsOfTracer, Goto
    <3>2. CASE pc' = [pc EXCEPT ![a] = "backends"]
      BY <3>1, <3>2 DEF CacheTypes, CacheInv, cacheVars, InCache
    <3>3. CASE pc' = [pc EXCEPT ![a] = "wheel"]
      BY <3>1, <3>3 DEF CacheTypes, CacheInv, cacheVars, InCache
    <3> QED
      BY <2>8, <3>2, <3>3 DEF StartTracer, Goto
  <2>9. CASE StopTracer(a)
    <3>1. UNCHANGED cacheVars /\ pc[a] \in {"stages", "wheel"}
      BY <2>9, StopGoes
    <3>2. PICK to \in {"drain", "done"} : pc' = [pc EXCEPT ![a] = to]
      BY <2>9, StopGoes
    <3> QED
      BY <3>1, <3>2 DEF CacheTypes, CacheInv, cacheVars, InCache
  <2>16. CASE TracerQuits(a)
    BY <2>16 DEF TracerQuits, OtherVarsOfTracer, CacheTypes, CacheInv, cacheVars,
         InCache
  <2>17. CASE DrainTracer(a)
    <3>1. /\ UNCHANGED cacheVars
          /\ pc[a] = "drain" /\ pc' = [pc EXCEPT ![a] = "done"]
      BY <2>17 DEF DrainTracer, OtherVarsOfTracer, Goto
    <3> QED
      BY <3>1 DEF CacheTypes, CacheInv, cacheVars, InCache
  <2>10. CASE CheckCache(a)
    BY <2>10, BackendsAssumption DEF CheckCache, ListCache, Downloaders,
         OtherVarsOfCache, Goto, CacheTypes, CacheInv, cacheVars, InCache
  <2>11. CASE PipOpens(a)
    BY <2>11, BackendsAssumption DEF PipOpens, OtherVarsOfCache, Goto,
         CacheTypes, CacheInv, cacheVars, InCache
  <2>12. CASE PipCloses(a)
    BY <2>12, BackendsAssumption DEF PipCloses, OtherVarsOfCache, Goto,
         CacheTypes, CacheInv, cacheVars, InCache
  <2>13. CASE PipEnds(a)
    BY <2>13, BackendsAssumption DEF PipEnds, ListCache, Downloaders,
         OtherVarsOfCache, Goto, CacheTypes, CacheInv, cacheVars, InCache
  <2>14. CASE PipFails(a)
    BY <2>14, BackendsAssumption DEF PipFails, ListCache, Downloaders,
         OtherVarsOfCache, Goto, CacheTypes, CacheInv, cacheVars, InCache
  <2>15. CASE CopyWheels(a)
    BY <2>15, BackendsAssumption DEF CopyWheels, OtherVarsOfCache, Goto,
         CacheTypes, CacheInv, cacheVars, InCache
  <2> QED
    BY <1>4, <2>1, <2>2, <2>3, <2>4, <2>5, <2>6, <2>7, <2>8, <2>9, <2>10,
         <2>11, <2>12, <2>13, <2>14, <2>15, <2>16, <2>17 DEF OfAnalysis
<1> QED
  BY <1>1, <1>2, <1>3, <1>4 DEF SharedNext

\* Every step keeps what is known of the tracers.
LEMMA TracerStep ==
    ASSUME pc \in [Analyses -> Places], TracerTypes, TracerInv, [SharedNext]_sharedVars
    PROVE  TracerTypes' /\ TracerInv'
<1>1. CASE UNCHANGED sharedVars
  BY <1>1 DEF sharedVars, TracerTypes, TracerInv, tracerVars, Before
<1>2. CASE ListAges
  BY <1>2 DEF ListAges, OtherVarsOfList, TracerTypes, TracerInv, tracerVars,
       Before
<1>3. CASE Crash
  <2>1. /\ UNCHANGED <<tracer, status, met, quit>>
        /\ spared' = spared \cup {a \in Analyses : tracer[a] = "running"}
        /\ \A a \in Analyses : pc'[a] = pc[a] \/ (pc'[a] = "dead" /\ pc[a] # "done")
    BY <1>3 DEF Crash, Tracers
  <2>2. TracerTypes'
    BY <2>1 DEF TracerTypes
  <2>3. ASSUME NEW a \in Analyses
        PROVE  /\ pc'[a] \in Before => tracer[a] = "none" /\ status[a] = "not started"
               /\ tracer[a] = "running" => a \in spared'
               /\ tracer[a] = "ended" /\ pc'[a] # "done" => met[a] # {} \/ a \in quit
    BY <2>1 DEF TracerInv, Before
  <2> QED
    BY <2>1, <2>2, <2>3 DEF TracerInv
<1>4. ASSUME NEW a \in Analyses, OfAnalysis(a) PROVE TracerTypes' /\ TracerInv'
  <2>1. CASE Begin(a)
    BY <2>1 DEF Begin, OtherVarsOfList, Goto, TracerTypes, TracerInv,
         tracerVars, Before
  <2>2. CASE CheckList(a)
    BY <2>2 DEF CheckList, OtherVarsOfList, Goto, TracerTypes, TracerInv,
         tracerVars, Before
  <2>3. CASE FetchList(a)
    BY <2>3 DEF FetchList, OtherVarsOfList, Goto, TracerTypes, TracerInv,
         tracerVars, Before
  <2>4. CASE OpenList(a)
    BY <2>4 DEF OpenList, OtherVarsOfList, Goto, TracerTypes, TracerInv,
         tracerVars, Before
  <2>5. CASE WriteList(a)
    BY <2>5 DEF WriteList, OtherVarsOfList, Goto, TracerTypes, TracerInv,
         tracerVars, Before
  <2>6. CASE WriteFails(a)
    BY <2>6 DEF WriteFails, OtherVarsOfList, Goto, TracerTypes, TracerInv,
         tracerVars, Before
  <2>7. CASE ReadList(a)
    BY <2>7 DEF ReadList, ListWriters, OtherVarsOfList, Goto, TracerTypes,
         TracerInv, tracerVars, Before
  <2>8. CASE StartTracer(a)
    <3>1. /\ pc[a] = "collect" /\ UNCHANGED <<met, quit, spared>>
          /\ \/ tracer' = [tracer EXCEPT ![a] = "running"] /\ status' = [status EXCEPT ![a] = "tracing"]
             \/ tracer' = tracer /\ status' = [status EXCEPT ![a] = "unavailable"]
      BY <2>8 DEF StartTracer, OtherVarsOfTracer, Goto
    <3>2. pc'[a] \in {"backends", "wheel"} /\ \A b \in Analyses \ {a} : pc'[b] = pc[b]
      BY <2>8 DEF StartTracer, Goto
    <3>3. TracerTypes'
      BY <3>1 DEF TracerTypes
    <3>4. tracer[a] = "none"
      BY <3>1 DEF TracerInv, Before
    <3>5. \A b \in Analyses \ {a} : tracer'[b] = tracer[b] /\ status'[b] = status[b]
      BY <3>1 DEF TracerTypes
    <3>6. tracer'[a] = "none" \/ (tracer'[a] = "running" /\ status'[a] = "tracing")
      BY <3>1, <3>4 DEF TracerTypes
    <3> QED
      BY <3>1, <3>2, <3>3, <3>5, <3>6 DEF TracerInv, Before
  <2>9. CASE StopTracer(a)
    <3>1. pc[a] \in {"stages", "wheel"} /\ pc \in [Analyses -> Places]
      BY <2>9 DEF StopTracer
    <3>2. CASE status[a] # "tracing"
      <4>1. UNCHANGED tracerVars /\ pc' = [pc EXCEPT ![a] = "done"]
        BY <2>9, <3>2 DEF StopTracer, Goto
      <4> QED
        BY <3>1, <3>2, <4>1 DEF TracerTypes, TracerInv, tracerVars, Before
    <3>3. CASE status[a] = "tracing"
      <4>1. /\ quit' = quit
            /\ status' = status \/ Concluded(a)
            /\ \/ pc' = [pc EXCEPT ![a] = "done"]
               \/ pc' = [pc EXCEPT ![a] = "drain"] /\ tracer'[a] = "running" /\ UNCHANGED status
        BY <2>9, <3>3 DEF StopTracer, Goto
      <4>4. status' \in [Analyses -> {"not started", "unavailable", "tracing", "success", "failed"}]
        BY <4>1 DEF Concluded, TracerTypes
      <4>5. \A b \in Analyses \ {a} : pc'[b] = pc[b] /\ status'[b] = status[b]
        BY <3>1, <4>1 DEF Concluded, TracerTypes
      <4>6. pc'[a] \in {"done", "drain"} /\ (pc'[a] = "drain" => tracer'[a] = "running")
        BY <3>1, <4>1
      <4>2. CASE Pkill(a)
        <5>1. /\ tracer' = [b \in Analyses |-> IF tracer[b] = "running" THEN "ended" ELSE tracer[b]]
              /\ met' = [b \in Analyses |-> IF tracer[b] = "running" /\ b # a
                                            THEN met[b] \cup {a} ELSE met[b]]
              /\ spared' = {}
          BY <4>2 DEF Pkill, Tracers
        <5>2. TracerTypes'
          BY <4>1, <4>4, <5>1 DEF TracerTypes
        <5>3. \A b \in Analyses : tracer'[b] # "running"
          BY <5>1 DEF TracerTypes
        <5>4. pc'[a] = "done"
          BY <4>6, <5>3
        <5> QED
          BY <3>1, <4>1, <4>5, <5>1, <5>2, <5>3, <5>4 DEF TracerInv, Before
      <4>3. CASE PkillFails(a)
        <5>1. spared' = spared \cup {a} /\ UNCHANGED <<tracer, met>>
          BY <4>3 DEF PkillFails
        <5>2. TracerTypes'
          BY <4>1, <4>4, <5>1 DEF TracerTypes
        <5>3. pc[a] \notin {"done", "dead"}
          BY <3>1
        <5> QED
          BY <3>1, <4>1, <4>5, <4>6, <5>1, <5>2, <5>3 DEF TracerInv, Before
      <4> QED
        BY <2>9, <3>3, <4>2, <4>3 DEF StopTracer
    <3> QED
      BY <3>2, <3>3
  <2>16. CASE TracerQuits(a)
    BY <2>16 DEF TracerQuits, Tracers, OtherVarsOfTracer, TracerTypes, TracerInv, Before
  <2>17. CASE DrainTracer(a)
    BY <2>17 DEF DrainTracer, Concluded, OtherVarsOfTracer, Goto, TracerTypes,
         TracerInv, Before
  <2>10. CASE CheckCache(a)
    BY <2>10 DEF CheckCache, ListCache, InCache, Downloaders,
         OtherVarsOfCache, Goto, TracerTypes, TracerInv, tracerVars, Before
  <2>11. CASE PipOpens(a)
    BY <2>11 DEF PipOpens, InCache, OtherVarsOfCache, Goto, TracerTypes,
         TracerInv, tracerVars, Before
  <2>12. CASE PipCloses(a)
    BY <2>12 DEF PipCloses, InCache, OtherVarsOfCache, Goto, TracerTypes,
         TracerInv, tracerVars, Before
  <2>13. CASE PipEnds(a)
    BY <2>13 DEF PipEnds, ListCache, InCache, Downloaders, OtherVarsOfCache,
         Goto, TracerTypes, TracerInv, tracerVars, Before
  <2>14. CASE PipFails(a)
    BY <2>14 DEF PipFails, ListCache, InCache, Downloaders, OtherVarsOfCache,
         Goto, TracerTypes, TracerInv, tracerVars, Before
  <2>15. CASE CopyWheels(a)
    BY <2>15 DEF CopyWheels, OtherVarsOfCache, Goto, TracerTypes, TracerInv,
         tracerVars, Before
  <2> QED
    BY <1>4, <2>1, <2>2, <2>3, <2>4, <2>5, <2>6, <2>7, <2>8, <2>9, <2>10,
         <2>11, <2>12, <2>13, <2>14, <2>15, <2>16, <2>17 DEF OfAnalysis
<1> QED
  BY <1>1, <1>2, <1>3, <1>4 DEF SharedNext

\* The inductive invariant holds for ever.
THEOREM SharedInvariant == SharedSpec => []SharedInv
<1>1. SharedInv /\ [SharedNext]_sharedVars => SharedInv'
  BY PlacesStep, ListStep, CacheStep, TracerStep DEF SharedInv, SharedTypeOK
<1> QED
  BY SharedInitInv, <1>1, PTL DEF SharedSpec

\* Every behaviour of any number of analyses keeps the types.
THEOREM SharedTyping == SharedSpec => []SharedTypeOK
<1>1. SharedInv => SharedTypeOK
  BY DEF SharedInv
<1> QED
  BY <1>1, SharedInvariant, PTL

\* An analysis is told nothing of similar names only for a reason of its own,
\* another's write, or a list that was left unreadable.
THEOREM NoVerdict == SharedSpec => []NoVerdictHasCause
<1>1. SharedInv => NoVerdictHasCause
  BY DEF SharedInv, ListInv, NoVerdictHasCause
<1> QED
  BY <1>1, SharedInvariant, PTL

\* A build lacks a backend only for a reason of its own, another's pip, or a
\* pip that was cut short once.
THEOREM ShortCache == SharedSpec => []ShortCacheHasCause
<1>1. SharedInv => ShortCacheHasCause
  BY DEF SharedInv, CacheInv, ShortCacheHasCause
<1> QED
  BY <1>1, SharedInvariant, PTL

\* A tracer ends early only by itself or by the stop of another, and one runs on
\* behind its analysis only until a stop ends the tracers.
THEOREM TracerEnds == SharedSpec => []TracerEndsByStop
<1>1. SharedInv => TracerEndsByStop
  BY DEF SharedInv, TracerInv, TracerEndsByStop
<1> QED
  BY <1>1, SharedInvariant, PTL
=============================================================================
