-------------------------- MODULE Pipeline_proofs --------------------------
(***************************************************************************)
(* Proofs about the sinkhole's life, for any number of analyses, address   *)
(* ranges and containers; and about the pipeline around it, for any number *)
(* of probed scripts up to the code's three. The central fact of the second *)
(* part is that every step of the pipeline is a step of the sinkhole's own *)
(* specification or leaves the sinkhole alone, so that what the first part *)
(* proves holds inside the pipeline.                                       *)
(***************************************************************************)
EXTENDS Pipeline, TLAPS

-----------------------------------------------------------------------------
(* The sinkhole *)

\* What start() holds once it has got so far, and what stop() still holds.
Held(a) ==
    /\ step[a] \in {"idle", "ca", "create"} => a \notin networks
    /\ step[a] \in {"inspect", "bind", "nat", "threads", "up", "cleanup"} \cup StopSteps
          => a \in networks /\ a \in networkCreated
    /\ step[a] \in {"idle", "ca", "create", "inspect", "bind"} => chain[a] = "absent"
    /\ step[a] \in {"idle", "ca", "create", "inspect", "bind", "nat", "cleanup", "refused"}
          => a \notin rules /\ a \notin natInstalled
    /\ step[a] \in {"threads", "up", "join", "delete"}
          => a \in rules /\ chain[a] = "dnat" /\ a \in natInstalled
    /\ step[a] \in {"idle", "ca", "create", "inspect", "bind", "refused"} => sockets[a] = {}
    /\ step[a] \in {"nat", "threads", "up", "join"} => sockets[a] = Ports
    /\ step[a] \in {"delete", "flush", "drop", "remove", "stopped", "broken"} => sockets[a] = {}
    /\ a \in active <=> step[a] \in {"up", "stopped", "broken"} \cup StopSteps

\* Docker gives no two networks that exist at a time the same range.
DistinctSubnets ==
    \A a, b \in networks : a # b => subnet[a] # subnet[b]

\* While a sinkhole may carry traffic, every other rule for its range was in
\* PREROUTING before its own.
Ranked(a) ==
    step[a] \in {"threads", "up"} =>
        \A b \in rules \ {a} : subnet[b] = subnet[a] => b \in beneath[a]

\* What is gone as long as no removing command has failed.
Tidy(a) ==
    a \notin mishap =>
        /\ step[a] \in {"flush", "drop", "remove", "stopped"} => a \notin rules
        /\ step[a] = "drop" => chain[a] = "empty"
        /\ step[a] \in {"remove", "stopped"} => chain[a] = "absent"
        /\ step[a] \in {"refused", "stopped"} => a \notin networks

\* A rule leads to a complete chain until stop() has flushed the chain.
Complete(a) ==
    a \in rules => chain[a] = "dnat" \/ step[a] \in {"drop", "remove", "stopped", "broken"}

SinkholeInv ==
    /\ DistinctSubnets
    /\ \A a \in Analyses : Held(a) /\ Ranked(a) /\ Tidy(a) /\ Complete(a)

-----------------------------------------------------------------------------
(* Type correctness *)

LEMMA StepNames ==
    /\ "idle" \in Steps /\ "ca" \in Steps /\ "create" \in Steps
    /\ "inspect" \in Steps /\ "bind" \in Steps /\ "nat" \in Steps
    /\ "threads" \in Steps /\ "cleanup" \in Steps /\ "refused" \in Steps
    /\ "raised" \in Steps /\ "up" \in Steps /\ "join" \in Steps
    /\ "delete" \in Steps /\ "flush" \in Steps /\ "drop" \in Steps
    /\ "remove" \in Steps /\ "stopped" \in Steps /\ "broken" \in Steps
  BY DEF Steps, StartSteps, StopSteps, EndSteps

LEMMA Prefixes ==
    {} \in SUBSET Ports /\ {53} \in SUBSET Ports /\ {53, 80} \in SUBSET Ports
  BY DEF Ports

LEMMA SinkholeTypingStep ==
  SinkholeTypeOK /\ [SinkholeNext]_sinkholeVars => SinkholeTypeOK'
<1> USE StepNames, Prefixes
        DEF SinkholeTypeOK, objectVars, listenerVars, networkVars, natVars, Goto, Branch, NoteMishap
<1> SUFFICES ASSUME SinkholeTypeOK, [SinkholeNext]_sinkholeVars
             PROVE SinkholeTypeOK'
  OBVIOUS
<1>1. ASSUME NEW a \in Analyses, Start(a)
      PROVE SinkholeTypeOK'
  BY <1>1 DEF Start
<1>2. ASSUME NEW a \in Analyses, GenerateCA(a)
      PROVE SinkholeTypeOK'
  BY <1>2 DEF GenerateCA, RefuseOn
<1>3. ASSUME NEW a \in Analyses, CreateNetwork(a)
      PROVE SinkholeTypeOK'
  BY <1>3 DEF CreateNetwork, RefuseOn, FreeSubnets
<1>4. ASSUME NEW a \in Analyses, InspectNetwork(a)
      PROVE SinkholeTypeOK'
  BY <1>4 DEF InspectNetwork
<1>5. ASSUME NEW a \in Analyses, BindSockets(a)
      PROVE SinkholeTypeOK'
  BY <1>5 DEF BindSockets
<1>6. ASSUME NEW a \in Analyses, FillChain(a)
      PROVE SinkholeTypeOK'
  BY <1>6 DEF FillChain, Longer
<1>7. ASSUME NEW a \in Analyses, InsertRule(a)
      PROVE SinkholeTypeOK'
  BY <1>7 DEF InsertRule
<1>8. ASSUME NEW a \in Analyses, StartThreads(a)
      PROVE SinkholeTypeOK'
  BY <1>8 DEF StartThreads
<1>9. ASSUME NEW a \in Analyses, CleanupPartial(a)
      PROVE SinkholeTypeOK'
  BY <1>9 DEF CleanupPartial, RemoveNetwork
<1>10. ASSUME NEW a \in Analyses, Stop(a)
      PROVE SinkholeTypeOK'
  BY <1>10 DEF Stop
<1>11. ASSUME NEW a \in Analyses, JoinAndClose(a)
      PROVE SinkholeTypeOK'
  BY <1>11 DEF JoinAndClose
<1>12. ASSUME NEW a \in Analyses, DeleteRule(a)
      PROVE SinkholeTypeOK'
  BY <1>12 DEF DeleteRule
<1>13. ASSUME NEW a \in Analyses, FlushChain(a)
      PROVE SinkholeTypeOK'
  BY <1>13 DEF FlushChain
<1>14. ASSUME NEW a \in Analyses, DropChain(a)
      PROVE SinkholeTypeOK'
  BY <1>14 DEF DropChain
<1>15. ASSUME NEW a \in Analyses, Release(a)
      PROVE SinkholeTypeOK'
  BY <1>15 DEF Release, RemoveNetwork
<1>16. ASSUME NEW a \in Analyses, NEW p \in Ports, LoopSeesStop(a, p) \/ LoopFails(a, p)
       PROVE SinkholeTypeOK'
  BY <1>16 DEF LoopSeesStop, LoopFails
<1>17. ASSUME NEW a \in Analyses, NEW c \in Containers, Attach(a, c) \/ Detach(a, c)
       PROVE SinkholeTypeOK'
  BY <1>17 DEF Attach, Detach
<1>18. CASE UNCHANGED sinkholeVars
  BY <1>18 DEF sinkholeVars
<1>19. QED
  BY <1>1, <1>2, <1>3, <1>4, <1>5, <1>6, <1>7, <1>8, <1>9, <1>10, <1>11,
     <1>12, <1>13, <1>14, <1>15, <1>16, <1>17, <1>18
     DEF SinkholeNext, StartStep, StopStep

\* The types of the sinkhole's fields and of the host's state, at every step of
\* start() and stop() and whatever their commands do.
THEOREM SinkholeTyping == SinkholeSpec => []SinkholeTypeOK
<1>1. SinkholeInit => SinkholeTypeOK
  BY StepNames DEF SinkholeInit, SinkholeTypeOK
<1>2. SinkholeTypeOK /\ [SinkholeNext]_sinkholeVars => SinkholeTypeOK'
  BY SinkholeTypingStep
<1>3. QED
  BY <1>1, <1>2, PTL DEF SinkholeSpec

-----------------------------------------------------------------------------
(* The inductive invariant *)

LEMMA SinkholeInvInit == SinkholeInit => SinkholeInv
  BY DEF SinkholeInit, SinkholeInv, DistinctSubnets, Held, Ranked, Tidy, Complete,
         StopSteps

LEMMA SinkholeInvStep ==
  SinkholeTypeOK /\ SinkholeInv /\ [SinkholeNext]_sinkholeVars => SinkholeInv'
<1> SUFFICES ASSUME SinkholeTypeOK, SinkholeInv, [SinkholeNext]_sinkholeVars
             PROVE SinkholeInv'
  OBVIOUS
<1> USE DEF SinkholeTypeOK, SinkholeInv, DistinctSubnets, Held, Ranked, Tidy, Complete,
            objectVars, listenerVars, networkVars, natVars, StopSteps,
            Goto, Branch, NoteMishap, Done, Raises, Outcomes
<1>1. ASSUME NEW a \in Analyses, Start(a)
      PROVE SinkholeInv'
  BY <1>1 DEF Start
<1>2. ASSUME NEW a \in Analyses, GenerateCA(a)
      PROVE SinkholeInv'
  BY <1>2 DEF GenerateCA, RefuseOn
<1>3. ASSUME NEW a \in Analyses, CreateNetwork(a)
      PROVE SinkholeInv'
  BY <1>3 DEF CreateNetwork, RefuseOn, FreeSubnets
<1>4. ASSUME NEW a \in Analyses, InspectNetwork(a)
      PROVE SinkholeInv'
  BY <1>4 DEF InspectNetwork
<1>5. ASSUME NEW a \in Analyses, BindSockets(a)
      PROVE SinkholeInv'
  BY <1>5 DEF BindSockets
<1>6. ASSUME NEW a \in Analyses, FillChain(a)
      PROVE SinkholeInv'
  BY <1>6 DEF FillChain, Longer
<1>7. ASSUME NEW a \in Analyses, InsertRule(a)
      PROVE SinkholeInv'
  BY <1>7 DEF InsertRule
<1>8. ASSUME NEW a \in Analyses, StartThreads(a)
      PROVE SinkholeInv'
  BY <1>8 DEF StartThreads
<1>9. ASSUME NEW a \in Analyses, CleanupPartial(a)
      PROVE SinkholeInv'
  BY <1>9 DEF CleanupPartial, RemoveNetwork
<1>10. ASSUME NEW a \in Analyses, Stop(a)
      PROVE SinkholeInv'
  BY <1>10 DEF Stop
<1>11. ASSUME NEW a \in Analyses, JoinAndClose(a)
      PROVE SinkholeInv'
  BY <1>11 DEF JoinAndClose
<1>12. ASSUME NEW a \in Analyses, DeleteRule(a)
      PROVE SinkholeInv'
  BY <1>12 DEF DeleteRule
<1>13. ASSUME NEW a \in Analyses, FlushChain(a)
      PROVE SinkholeInv'
  BY <1>13 DEF FlushChain
<1>14. ASSUME NEW a \in Analyses, DropChain(a)
      PROVE SinkholeInv'
  BY <1>14 DEF DropChain
<1>15. ASSUME NEW a \in Analyses, Release(a)
      PROVE SinkholeInv'
  BY <1>15 DEF Release, RemoveNetwork
<1>16. ASSUME NEW a \in Analyses, NEW p \in Ports, LoopSeesStop(a, p) \/ LoopFails(a, p)
       PROVE SinkholeInv'
  BY <1>16 DEF LoopSeesStop, LoopFails
<1>17. ASSUME NEW a \in Analyses, NEW c \in Containers, Attach(a, c) \/ Detach(a, c)
       PROVE SinkholeInv'
  BY <1>17 DEF Attach, Detach
<1>18. CASE UNCHANGED sinkholeVars
  BY <1>18 DEF sinkholeVars
<1>19. QED
  BY <1>1, <1>2, <1>3, <1>4, <1>5, <1>6, <1>7, <1>8, <1>9, <1>10, <1>11,
     <1>12, <1>13, <1>14, <1>15, <1>16, <1>17, <1>18
     DEF SinkholeNext, StartStep, StopStep

LEMMA SinkholeInvariant == SinkholeSpec => []SinkholeInv
<1>1. SinkholeInit => SinkholeInv
  BY SinkholeInvInit
<1>2. SinkholeTypeOK /\ SinkholeInv /\ [SinkholeNext]_sinkholeVars => SinkholeInv'
  BY SinkholeInvStep
<1>3. QED
  BY <1>1, <1>2, SinkholeTyping, PTL DEF SinkholeSpec

-----------------------------------------------------------------------------
(* The safety properties *)

\* However many sinkholes the host has run or is running, and whatever they
\* left in its tables, an active one has its network and its traffic is
\* rewritten to its own gateway.
THEOREM Rewriting == SinkholeSpec => []UpIsRewritten
<1>1. SinkholeInv => UpIsRewritten
  BY DEF SinkholeInv, Held, Ranked, UpIsRewritten, Rewritten, StopSteps
<1>2. QED
  BY <1>1, SinkholeInvariant, PTL

\* A refused start() never leaves a rule that redirects traffic, nor a socket,
\* nor a network it could have removed.
THEOREM Refusal == SinkholeSpec => []RefusalLeavesNoTraffic
<1>1. SinkholeInv => RefusalLeavesNoTraffic
  BY DEF SinkholeInv, Held, Tidy, RefusalLeavesNoTraffic
<1>2. QED
  BY <1>1, SinkholeInvariant, PTL

\* stop() gives back the rule, the chain, the sockets and the network whenever
\* none of its commands fails.
THEOREM CleanStop == SinkholeSpec => []CleanStopLeavesNothing
<1>1. SinkholeInv => CleanStopLeavesNothing
  BY DEF SinkholeInv, Held, Tidy, CleanStopLeavesNothing
<1>2. QED
  BY <1>1, SinkholeInvariant, PTL

\* PREROUTING never leads into a chain that start() has not completed.
THEOREM CompleteChains == SinkholeSpec => []NoHalfChain
<1>1. SinkholeTypeOK /\ SinkholeInv => NoHalfChain
  BY DEF SinkholeTypeOK, SinkholeInv, Complete, NoHalfChain
<1>2. QED
  BY <1>1, SinkholeInvariant, SinkholeTyping, PTL

-----------------------------------------------------------------------------
(* The pipeline *)

\* Where the sinkhole can be when analyze_package is at a given place.
InStep(a) ==
    /\ pc[a] \in HostStages \cup {"idle", "prepare"} => step[a] = "idle"
    /\ pc[a] \in {"collectors", "stages", "stop_host", "stop_pcap", "stop_ebpf", "drain"} =>
          step[a] \in {"idle", "up", "refused"}
    /\ pc[a] \in {"collectors", "stages", "stop_host", "stop_pcap", "stop_ebpf", "drain",
                 "stop_sinkhole", "post"} =>
          (step[a] = "idle" <=> ~UsesSinkhole(a))
    /\ pc[a] = "stop_sinkhole" =>
          step[a] \in {"idle", "up", "refused", "stopped", "broken"} \cup StopSteps
    /\ pc[a] = "post" => step[a] \in {"idle", "refused", "stopped"}
    /\ pc[a] \in {"except", "bundle", "leave", "save", "done", "lost"} =>
          \/ step[a] \in {"idle", "refused", "stopped", "raised", "broken"}
          \/ step[a] = "up" /\ a \in flawed
    /\ step[a] # "idle" => UsesSinkhole(a)
    /\ client[a] # "none" => pc[a] = "stages"

\* The network mode is decided once, from the outcome of start(), and every
\* container is launched accordingly.
Decided(a) ==
    /\ pc[a] \in HostStages \cup {"idle", "prepare", "sinkhole"} => effective[a] = "undecided"
    /\ pc[a] \in {"collectors", "stages", "stop_host", "stop_pcap", "stop_ebpf", "drain",
                 "stop_sinkhole", "post"}
          => effective[a] # "undecided"
    /\ effective[a] # "undecided" =>
          effective[a] = IF ~UsesSinkhole(a) \/ a \in active THEN request[a].network
                         ELSE "restricted"
    /\ effective[a] = "undecided" => routes[a] = {} /\ attached[a] = {}
    /\ attached[a] # {} => a \in active
    /\ routes[a] \subseteq {Route(a)}
    /\ report[a].status = "completed" =>
          effective[a] # "undecided" /\ report[a].network_mode = effective[a]

\* What is left of the helpers as the finally block stops one after the other, and
\* where stopping one raised.
Left(a) == {LateHost, SparedEbpf} \cup IF a \in flawed THEN {"ebpf", EndedEbpf} ELSE {}

Stopped(a) ==
    /\ pc[a] \in HostStages \cup {"idle", "prepare", "sinkhole", "collectors"} => helpers[a] = {}
    /\ pc[a] \in {"stages", "stop_host"} => helpers[a] \subseteq {"host", "pcap", "ebpf", EndedEbpf}
    /\ pc[a] = "stop_pcap" => helpers[a] \subseteq {LateHost, "pcap", "ebpf", EndedEbpf}
    /\ pc[a] = "stop_ebpf" => helpers[a] \subseteq {LateHost, "ebpf", EndedEbpf}
    /\ pc[a] \in {"drain", "stop_sinkhole", "post"} => helpers[a] \subseteq {LateHost, SparedEbpf}
    /\ pc[a] \in {"except", "bundle", "leave", "save", "done", "lost"} => helpers[a] \subseteq Left(a)

\* A container nobody tells of belongs to a run that fails.
Tracked(a) ==
    /\ a \notin raised /\ report[a].status # "failed" =>
          Live(a) \subseteq tracked[a] \cup {client[a]}
    /\ pc[a] \notin {"bundle", "leave", "save", "done", "lost"} => report[a].status = "none"
    /\ pc[a] = "post" \/ report[a].status = "completed" => a \notin raised

PipelineInv ==
    /\ SinkholeTypeOK /\ SinkholeInv /\ PipelineTypeOK
    /\ \A a \in Analyses : InStep(a) /\ Decided(a) /\ Stopped(a) /\ Tracked(a)

-----------------------------------------------------------------------------
(* Type correctness of the pipeline's own state *)

LEMMA Places ==
    /\ "idle" \in Pcs /\ "resolve" \in Pcs /\ "download" \in Pcs /\ "inspect" \in Pcs
    /\ "prepare" \in Pcs /\ "sinkhole" \in Pcs /\ "collectors" \in Pcs
    /\ "stages" \in Pcs /\ "stop_host" \in Pcs /\ "stop_pcap" \in Pcs
    /\ "stop_ebpf" \in Pcs /\ "drain" \in Pcs /\ "stop_sinkhole" \in Pcs /\ "post" \in Pcs
    /\ "except" \in Pcs /\ "bundle" \in Pcs /\ "leave" \in Pcs
    /\ "save" \in Pcs /\ "done" \in Pcs /\ "lost" \in Pcs
  BY DEF Pcs, HostStages

LEMMA Names ==
    /\ "resolve" \in HostStages /\ "download" \in HostStages /\ "inspect" \in HostStages
    /\ "none" \notin SandboxStages /\ "end" \notin SandboxStages
    /\ "undecided" \notin Networks /\ "restricted" \in Networks
  BY DEF HostStages, SandboxStages, Networks

LEMMA PipelineTypingStep ==
  PipelineInv /\ [Next]_vars => PipelineTypeOK'
<1> SUFFICES ASSUME SinkholeTypeOK, PipelineTypeOK, \A a \in Analyses : Decided(a), [Next]_vars
             PROVE PipelineTypeOK'
  BY DEF PipelineInv
<1> USE Places, Names
        DEF PipelineTypeOK, pipelineVars, runVars, stageVars, At, To
<1>1. ASSUME NEW a \in Analyses, Begin(a)
      PROVE PipelineTypeOK'
  BY <1>1 DEF Begin
<1>2. ASSUME NEW a \in Analyses, Resolve(a)
      PROVE PipelineTypeOK'
  BY <1>2 DEF Resolve, Track
<1>3. ASSUME NEW a \in Analyses, Download(a)
      PROVE PipelineTypeOK'
  BY <1>3 DEF Download, Track
<1>4. ASSUME NEW a \in Analyses, Inspect(a)
      PROVE PipelineTypeOK'
  BY <1>4 DEF Inspect, Track
<1>5. ASSUME NEW a \in Analyses, Prepare(a)
      PROVE PipelineTypeOK'
  BY <1>5 DEF Prepare
<1>6. ASSUME NEW a \in Analyses, StartSinkhole(a)
      PROVE PipelineTypeOK'
  BY <1>6 DEF StartSinkhole
<1>7. ASSUME NEW a \in Analyses, DecideNetwork(a)
      PROVE PipelineTypeOK'
  BY <1>7 DEF DecideNetwork, Requests
<1>8. ASSUME NEW a \in Analyses, SinkholeRaises(a)
      PROVE PipelineTypeOK'
  BY <1>8 DEF SinkholeRaises
<1>9. ASSUME NEW a \in Analyses, StartCollectors(a)
      PROVE PipelineTypeOK'
  BY <1>9 DEF StartCollectors, MayStart
<1>10. ASSUME NEW a \in Analyses, NEW s \in SandboxStages, BeginStage(a, s)
       PROVE PipelineTypeOK'
  BY <1>10 DEF BeginStage, Launch, Route, Upcoming, TrackStage
<1>11. ASSUME NEW a \in Analyses, NEW s \in SandboxStages, SkipStage(a, s)
       PROVE PipelineTypeOK'
  BY <1>11 DEF SkipStage, TrackStage, Track, Upcoming, Following
<1>12. ASSUME NEW a \in Analyses, StageRaises(a)
       PROVE PipelineTypeOK'
  BY <1>12 DEF StageRaises
<1>13. ASSUME NEW a \in Analyses, FinishStage(a)
       PROVE PipelineTypeOK'
  BY <1>13 DEF FinishStage, ResultOf, TrackStage, Track
<1>14. ASSUME NEW a \in Analyses, TimeoutStage(a)
       PROVE PipelineTypeOK'
  BY <1>14 DEF TimeoutStage, ResultOf, TrackStage, Track
<1>15. ASSUME NEW a \in Analyses, EndStages(a)
       PROVE PipelineTypeOK'
  BY <1>15 DEF EndStages
<1>16. ASSUME NEW a \in Analyses, StopHost(a)
       PROVE PipelineTypeOK'
  BY <1>16 DEF StopHost, OtherThanHelpers, LateHost
<1>17. ASSUME NEW a \in Analyses, StopPcap(a)
       PROVE PipelineTypeOK'
  BY <1>17 DEF StopPcap, ReturnOrRaise
<1>18. ASSUME NEW a \in Analyses, StopEbpf(a)
       PROVE PipelineTypeOK'
  BY <1>18 DEF StopEbpf, Pkill, ReturnOrRaise, LateHost, EndedEbpf, SparedEbpf, Tracing, Ended
<1>19. ASSUME NEW a \in Analyses, StopSinkhole(a)
       PROVE PipelineTypeOK'
  BY <1>19 DEF StopSinkhole
<1>20. ASSUME NEW a \in Analyses, LeaveFinally(a)
       PROVE PipelineTypeOK'
  BY <1>20 DEF LeaveFinally
<1>21. ASSUME NEW a \in Analyses, MakeReport(a)
       PROVE PipelineTypeOK'
  <2>1. pc[a] = "post" => effective[a] # "undecided"
    BY DEF Decided
  <2>2. report' \in [Analyses -> Reports \cup {NoReport}]
    BY <1>21, <2>1 DEF MakeReport, Reports, SinkholeTypeOK
  <2> QED
    BY <1>21, <2>2 DEF MakeReport
<1>22. ASSUME NEW a \in Analyses, MakeFailedReport(a)
       PROVE PipelineTypeOK'
  BY <1>22 DEF MakeFailedReport, Reports, Requests
<1>23. ASSUME NEW a \in Analyses, WriteBundle(a)
       PROVE PipelineTypeOK'
  BY <1>23 DEF WriteBundle
<1>24. ASSUME NEW a \in Analyses, LeaveWorkspace(a)
       PROVE PipelineTypeOK'
  BY <1>24 DEF LeaveWorkspace
<1>25. ASSUME NEW a \in Analyses, SaveReport(a)
       PROVE PipelineTypeOK'
  BY <1>25 DEF SaveReport
<1>26. ASSUME NEW a \in Analyses, NEW s \in SandboxStages, ContainerExits(a, s)
       PROVE PipelineTypeOK'
  BY <1>26 DEF ContainerExits
<1>27. ASSUME NEW a \in Analyses, DeleteJob(a)
       PROVE PipelineTypeOK'
  BY <1>27 DEF DeleteJob
<1>28. ASSUME NEW a \in Analyses, ServingLoops(a)
       PROVE PipelineTypeOK'
  BY <1>28 DEF ServingLoops
<1>31. ASSUME NEW a \in Analyses, DrainEbpf(a)
       PROVE PipelineTypeOK'
  BY <1>31 DEF DrainEbpf, ReturnOrRaise
<1>32. ASSUME NEW a \in Analyses, SamplerEnds(a) \/ TracerEnds(a)
       PROVE PipelineTypeOK'
  BY <1>32 DEF SamplerEnds, TracerEnds, OtherThanHelpers, LateHost, EndedEbpf, SparedEbpf, Tracing, Ended
<1>29. CASE UNCHANGED vars
  BY <1>29 DEF vars
<1>30. QED
  BY <1>1, <1>2, <1>3, <1>4, <1>5, <1>6, <1>7, <1>8, <1>9, <1>10, <1>11,
     <1>12, <1>13, <1>14, <1>15, <1>16, <1>17, <1>18, <1>19, <1>20, <1>21,
     <1>22, <1>23, <1>24, <1>25, <1>26, <1>27, <1>28, <1>29, <1>31, <1>32
     DEF Next, Advance

-----------------------------------------------------------------------------
(* Every step of the pipeline is a step of the sinkhole, or leaves it alone *)

\* The actions that are not inside the sinkhole and concern no container.
Outside(a) ==
    \/ Begin(a) \/ Resolve(a) \/ Download(a) \/ Inspect(a)
    \/ Prepare(a) \/ DecideNetwork(a) \/ SinkholeRaises(a) \/ StartCollectors(a)
    \/ (\E s \in SandboxStages : SkipStage(a, s)) \/ StageRaises(a) \/ FinishStage(a) \/ TimeoutStage(a)
    \/ EndStages(a) \/ StopHost(a) \/ StopPcap(a) \/ StopEbpf(a) \/ DrainEbpf(a)
    \/ SamplerEnds(a) \/ TracerEnds(a)
    \/ LeaveFinally(a) \/ MakeReport(a) \/ MakeFailedReport(a) \/ WriteBundle(a)
    \/ LeaveWorkspace(a) \/ SaveReport(a) \/ DeleteJob(a)

LEMMA OutsideLeavesSinkhole ==
  ASSUME NEW a \in Analyses, Outside(a)
  PROVE UNCHANGED sinkholeVars
BY DEF Outside, Begin, Resolve, Download, Inspect, Prepare, DecideNetwork, SinkholeRaises,
       StartCollectors, SkipStage, StageRaises, FinishStage, TimeoutStage, EndStages,
       StopHost, StopPcap, StopEbpf, DrainEbpf, SamplerEnds, TracerEnds,
       OtherThanHelpers, LeaveFinally, MakeReport, MakeFailedReport,
       WriteBundle, LeaveWorkspace, SaveReport, DeleteJob,
       ResultOf, Track, TrackStage, sinkholeVars

LEMMA SinkholeSteps ==
  PipelineInv /\ [Next]_vars => [SinkholeNext]_sinkholeVars
<1> SUFFICES ASSUME PipelineInv, [Next]_vars
             PROVE [SinkholeNext]_sinkholeVars
  OBVIOUS
<1>1. ASSUME NEW a \in Analyses, Outside(a)
      PROVE [SinkholeNext]_sinkholeVars
  BY <1>1, OutsideLeavesSinkhole
<1>2. ASSUME NEW a \in Analyses, StartSinkhole(a) \/ StopSinkhole(a) \/ ServingLoops(a)
      PROVE [SinkholeNext]_sinkholeVars
  BY <1>2 DEF StartSinkhole, StopSinkhole, ServingLoops, SinkholeNext
<1>3. ASSUME NEW a \in Analyses, NEW s \in SandboxStages, BeginStage(a, s)
      PROVE [SinkholeNext]_sinkholeVars
  <2>1. CASE UNCHANGED <<attached, elsewhere, routes>>
    BY <1>3, <2>1 DEF BeginStage, sinkholeVars, objectVars, listenerVars, networkVars, natVars
  <2>2. CASE Launch(a, s, Route(a)) /\ Route(a) # "own"
    BY <1>3, <2>2 DEF BeginStage, Launch, sinkholeVars, objectVars, listenerVars, networkVars,
                      natVars
  <2>3. CASE Launch(a, s, Route(a)) /\ Route(a) = "own"
    <3>1. a \in active
      BY <2>3 DEF Route
    <3>2. step[a] = "up"
      BY <1>3, <3>1 DEF BeginStage, At, PipelineInv, InStep, SinkholeInv, Held, StopSteps
    <3>3. Attach(a, s)
      BY <1>3, <2>3, <3>2 DEF BeginStage, Launch, Attach
    <3> QED
      BY <3>3, ContainersAssumption DEF SinkholeNext
  <2> QED
    BY <1>3, <2>1, <2>2, <2>3 DEF BeginStage
<1>4. ASSUME NEW a \in Analyses, NEW s \in SandboxStages, ContainerExits(a, s)
      PROVE [SinkholeNext]_sinkholeVars
  BY <1>4, ContainersAssumption
     DEF ContainerExits, Detach, SinkholeNext, sinkholeVars, objectVars, listenerVars,
         networkVars, natVars
<1>5. CASE UNCHANGED vars
  BY <1>5 DEF vars
<1>6. QED
  BY <1>1, <1>2, <1>3, <1>4, <1>5 DEF Next, Advance, Outside

-----------------------------------------------------------------------------
(* What a step inside the sinkhole does to the state the pipeline reads *)

LEMMA StartMoves ==
  ASSUME SinkholeTypeOK, NEW a \in Analyses, Start(a) \/ StartStep(a)
  PROVE  /\ step' = [step EXCEPT ![a] = step'[a]]
         /\ step'[a] \in StartSteps \cup {"up", "refused", "raised"}
         /\ step[a] \in StartSteps \cup {"idle"}
         /\ active' = IF step'[a] = "up" THEN active \cup {a} ELSE active
         /\ attached' = attached
BY DEF SinkholeTypeOK, Start, StartStep, GenerateCA, CreateNetwork, InspectNetwork, BindSockets,
       FillChain, InsertRule, StartThreads, CleanupPartial, StartSteps, objectVars,
       Goto, Branch, Outcomes, Raises, Done

LEMMA StopMoves ==
  ASSUME SinkholeTypeOK, NEW a \in Analyses, Stop(a) \/ StopStep(a)
  PROVE  /\ step' = [step EXCEPT ![a] = step'[a]]
         /\ step'[a] \in StopSteps \cup {"stopped", "broken"}
         /\ step[a] \in StopSteps \cup {"up"}
         /\ active' = active
         /\ attached' = attached
BY DEF SinkholeTypeOK, Stop, StopStep, JoinAndClose, DeleteRule, FlushChain, DropChain, Release,
       StopSteps, objectVars, Goto, Branch, Outcomes, Raises, Done

LEMMA LoopsKeep ==
  ASSUME NEW a \in Analyses, ServingLoops(a)
  PROVE  UNCHANGED <<step, active, attached, pipelineVars>>
BY DEF ServingLoops, LoopSeesStop, LoopFails, objectVars

-----------------------------------------------------------------------------
(* The inductive invariant *)

LEMMA InStepStep ==
  PipelineInv /\ [Next]_vars => \A b \in Analyses : InStep(b)'
<1> SUFFICES ASSUME PipelineInv, [Next]_vars, NEW b \in Analyses
             PROVE InStep(b)'
  OBVIOUS
<1>0. SinkholeTypeOK /\ PipelineTypeOK
  BY DEF PipelineInv
<1>0a. \A a \in Analyses : InStep(a) /\ (a \in active <=> step[a] \in {"up", "stopped", "broken"} \cup StopSteps)
  BY DEF PipelineInv, SinkholeInv, Held, InStep
<1> HIDE DEF PipelineInv
<1> USE <1>0, <1>0a, Names, ContainersAssumption DEF PipelineTypeOK, pipelineVars, runVars, stageVars, At, To, InStep, SinkholeTypeOK, UsesSinkhole, HostStages, StopSteps
<1>1. ASSUME NEW a \in Analyses, Begin(a)
      PROVE InStep(b)'
  BY <1>1 DEF Begin, sinkholeVars, objectVars
<1>2. ASSUME NEW a \in Analyses, Resolve(a)
      PROVE InStep(b)'
  BY <1>2 DEF Resolve, Track, sinkholeVars, objectVars
<1>3. ASSUME NEW a \in Analyses, Download(a)
      PROVE InStep(b)'
  BY <1>3 DEF Download, Track, sinkholeVars, objectVars
<1>4. ASSUME NEW a \in Analyses, Inspect(a)
      PROVE InStep(b)'
  BY <1>4 DEF Inspect, Track, sinkholeVars, objectVars
<1>5. ASSUME NEW a \in Analyses, Prepare(a)
      PROVE InStep(b)'
  BY <1>5 DEF Prepare, sinkholeVars, objectVars
<1>6. ASSUME NEW a \in Analyses, StartSinkhole(a)
      PROVE InStep(b)'
  BY <1>6, StartMoves DEF StartSinkhole, StartSteps
<1>7. ASSUME NEW a \in Analyses, DecideNetwork(a)
      PROVE InStep(b)'
  BY <1>7 DEF DecideNetwork, sinkholeVars, objectVars
<1>8. ASSUME NEW a \in Analyses, SinkholeRaises(a)
      PROVE InStep(b)'
  BY <1>8 DEF SinkholeRaises, sinkholeVars, objectVars
<1>9. ASSUME NEW a \in Analyses, StartCollectors(a)
      PROVE InStep(b)'
  BY <1>9 DEF StartCollectors, sinkholeVars, objectVars
<1>10. ASSUME NEW a \in Analyses, NEW s \in SandboxStages, BeginStage(a, s)
       PROVE InStep(b)'
  BY <1>10 DEF BeginStage, Launch, sinkholeVars, objectVars
<1>11. ASSUME NEW a \in Analyses, NEW s \in SandboxStages, SkipStage(a, s)
       PROVE InStep(b)'
  BY <1>11 DEF SkipStage, TrackStage, Track, sinkholeVars, objectVars
<1>12. ASSUME NEW a \in Analyses, StageRaises(a)
       PROVE InStep(b)'
  BY <1>12 DEF StageRaises, sinkholeVars, objectVars
<1>13. ASSUME NEW a \in Analyses, FinishStage(a)
       PROVE InStep(b)'
  BY <1>13 DEF FinishStage, ResultOf, TrackStage, Track, sinkholeVars, objectVars
<1>14. ASSUME NEW a \in Analyses, TimeoutStage(a)
       PROVE InStep(b)'
  BY <1>14 DEF TimeoutStage, ResultOf, TrackStage, Track, sinkholeVars, objectVars
<1>15. ASSUME NEW a \in Analyses, EndStages(a)
       PROVE InStep(b)'
  BY <1>15 DEF EndStages, sinkholeVars, objectVars
<1>16. ASSUME NEW a \in Analyses, StopHost(a)
       PROVE InStep(b)'
  BY <1>16 DEF StopHost, OtherThanHelpers, sinkholeVars, objectVars
<1>17. ASSUME NEW a \in Analyses, StopPcap(a)
       PROVE InStep(b)'
  BY <1>17 DEF StopPcap, ReturnOrRaise, sinkholeVars, objectVars
<1>18. ASSUME NEW a \in Analyses, StopEbpf(a)
       PROVE InStep(b)'
  BY <1>18 DEF StopEbpf, Pkill, ReturnOrRaise, sinkholeVars, objectVars
<1>19. ASSUME NEW a \in Analyses, StopSinkhole(a)
       PROVE InStep(b)'
  BY <1>19, StopMoves DEF StopSinkhole
<1>20. ASSUME NEW a \in Analyses, LeaveFinally(a)
       PROVE InStep(b)'
  BY <1>20 DEF LeaveFinally, sinkholeVars, objectVars
<1>21. ASSUME NEW a \in Analyses, MakeReport(a)
       PROVE InStep(b)'
  BY <1>21 DEF MakeReport, sinkholeVars, objectVars
<1>22. ASSUME NEW a \in Analyses, MakeFailedReport(a)
       PROVE InStep(b)'
  BY <1>22 DEF MakeFailedReport, sinkholeVars, objectVars
<1>23. ASSUME NEW a \in Analyses, WriteBundle(a)
       PROVE InStep(b)'
  BY <1>23 DEF WriteBundle, sinkholeVars, objectVars
<1>24. ASSUME NEW a \in Analyses, LeaveWorkspace(a)
       PROVE InStep(b)'
  BY <1>24 DEF LeaveWorkspace, sinkholeVars, objectVars
<1>25. ASSUME NEW a \in Analyses, SaveReport(a)
       PROVE InStep(b)'
  BY <1>25 DEF SaveReport, sinkholeVars, objectVars
<1>26. ASSUME NEW a \in Analyses, NEW s \in SandboxStages, ContainerExits(a, s)
       PROVE InStep(b)'
  BY <1>26 DEF ContainerExits, sinkholeVars, objectVars
<1>27. ASSUME NEW a \in Analyses, DeleteJob(a)
       PROVE InStep(b)'
  BY <1>27 DEF DeleteJob, sinkholeVars, objectVars
<1>28. ASSUME NEW a \in Analyses, ServingLoops(a)
       PROVE InStep(b)'
  BY <1>28, LoopsKeep
<1>31. ASSUME NEW a \in Analyses, DrainEbpf(a)
       PROVE InStep(b)'
  BY <1>31 DEF DrainEbpf, ReturnOrRaise, sinkholeVars, objectVars
<1>32. ASSUME NEW a \in Analyses, SamplerEnds(a) \/ TracerEnds(a)
       PROVE InStep(b)'
  BY <1>32 DEF SamplerEnds, TracerEnds, OtherThanHelpers, sinkholeVars, objectVars
<1>29. CASE UNCHANGED vars
  BY <1>29 DEF vars, sinkholeVars, objectVars
<1>30. QED
  BY <1>1, <1>2, <1>3, <1>4, <1>5, <1>6, <1>7, <1>8, <1>9, <1>10, <1>11,
     <1>12, <1>13, <1>14, <1>15, <1>16, <1>17, <1>18, <1>19, <1>20, <1>21,
     <1>22, <1>23, <1>24, <1>25, <1>26, <1>27, <1>28, <1>29, <1>31, <1>32
     DEF Next, Advance

LEMMA StoppedStep ==
  PipelineInv /\ [Next]_vars => \A b \in Analyses : Stopped(b)'
<1> SUFFICES ASSUME PipelineInv, [Next]_vars, NEW b \in Analyses
             PROVE Stopped(b)'
  OBVIOUS
<1>0. SinkholeTypeOK /\ PipelineTypeOK
  BY DEF PipelineInv
<1>0a. \A a \in Analyses : Stopped(a) /\ (client[a] # "none" => pc[a] = "stages")
  BY DEF PipelineInv, InStep
<1> HIDE DEF PipelineInv
<1> USE <1>0, <1>0a, Names, ContainersAssumption
        DEF PipelineTypeOK, pipelineVars, runVars, stageVars, At, To, Stopped, Left,
            HostStages, Helpers
<1>1. ASSUME NEW a \in Analyses, Begin(a)
      PROVE Stopped(b)'
  BY <1>1 DEF Begin, sinkholeVars, objectVars
<1>2. ASSUME NEW a \in Analyses, Resolve(a)
      PROVE Stopped(b)'
  BY <1>2 DEF Resolve, Track, sinkholeVars, objectVars
<1>3. ASSUME NEW a \in Analyses, Download(a)
      PROVE Stopped(b)'
  BY <1>3 DEF Download, Track, sinkholeVars, objectVars
<1>4. ASSUME NEW a \in Analyses, Inspect(a)
      PROVE Stopped(b)'
  BY <1>4 DEF Inspect, Track, sinkholeVars, objectVars
<1>5. ASSUME NEW a \in Analyses, Prepare(a)
      PROVE Stopped(b)'
  BY <1>5 DEF Prepare, sinkholeVars, objectVars
<1>6. ASSUME NEW a \in Analyses, StartSinkhole(a)
      PROVE Stopped(b)'
  BY <1>6, StartMoves DEF StartSinkhole, StartSteps
<1>7. ASSUME NEW a \in Analyses, DecideNetwork(a)
      PROVE Stopped(b)'
  BY <1>7 DEF DecideNetwork, sinkholeVars, objectVars
<1>8. ASSUME NEW a \in Analyses, SinkholeRaises(a)
      PROVE Stopped(b)'
  BY <1>8 DEF SinkholeRaises, sinkholeVars, objectVars
<1>9. ASSUME NEW a \in Analyses, StartCollectors(a)
      PROVE Stopped(b)'
  BY <1>9 DEF StartCollectors, MayStart, sinkholeVars, objectVars
<1>10. ASSUME NEW a \in Analyses, NEW s \in SandboxStages, BeginStage(a, s)
       PROVE Stopped(b)'
  BY <1>10 DEF BeginStage, Launch, sinkholeVars, objectVars
<1>11. ASSUME NEW a \in Analyses, NEW s \in SandboxStages, SkipStage(a, s)
       PROVE Stopped(b)'
  BY <1>11 DEF SkipStage, TrackStage, Track, sinkholeVars, objectVars
<1>12. ASSUME NEW a \in Analyses, StageRaises(a)
       PROVE Stopped(b)'
  BY <1>12 DEF StageRaises, sinkholeVars, objectVars
<1>13. ASSUME NEW a \in Analyses, FinishStage(a)
       PROVE Stopped(b)'
  BY <1>13 DEF FinishStage, ResultOf, TrackStage, Track, sinkholeVars, objectVars
<1>14. ASSUME NEW a \in Analyses, TimeoutStage(a)
       PROVE Stopped(b)'
  BY <1>14 DEF TimeoutStage, ResultOf, TrackStage, Track, sinkholeVars, objectVars
<1>15. ASSUME NEW a \in Analyses, EndStages(a)
       PROVE Stopped(b)'
  BY <1>15 DEF EndStages, sinkholeVars, objectVars
<1>16. ASSUME NEW a \in Analyses, StopHost(a)
       PROVE Stopped(b)'
  BY <1>16 DEF StopHost, OtherThanHelpers, LateHost, sinkholeVars, objectVars
<1>17. ASSUME NEW a \in Analyses, StopPcap(a)
       PROVE Stopped(b)'
  BY <1>17 DEF StopPcap, ReturnOrRaise, sinkholeVars, objectVars
<1>18. ASSUME NEW a \in Analyses, StopEbpf(a)
       PROVE Stopped(b)'
  BY <1>18 DEF StopEbpf, Pkill, ReturnOrRaise, LateHost, EndedEbpf, SparedEbpf, Tracing, Ended, sinkholeVars, objectVars
<1>19. ASSUME NEW a \in Analyses, StopSinkhole(a)
       PROVE Stopped(b)'
  BY <1>19, StopMoves DEF StopSinkhole
<1>20. ASSUME NEW a \in Analyses, LeaveFinally(a)
       PROVE Stopped(b)'
  BY <1>20 DEF LeaveFinally, sinkholeVars, objectVars
<1>21. ASSUME NEW a \in Analyses, MakeReport(a)
       PROVE Stopped(b)'
  BY <1>21 DEF MakeReport, sinkholeVars, objectVars
<1>22. ASSUME NEW a \in Analyses, MakeFailedReport(a)
       PROVE Stopped(b)'
  BY <1>22 DEF MakeFailedReport, sinkholeVars, objectVars
<1>23. ASSUME NEW a \in Analyses, WriteBundle(a)
       PROVE Stopped(b)'
  BY <1>23 DEF WriteBundle, sinkholeVars, objectVars
<1>24. ASSUME NEW a \in Analyses, LeaveWorkspace(a)
       PROVE Stopped(b)'
  BY <1>24 DEF LeaveWorkspace, sinkholeVars, objectVars
<1>25. ASSUME NEW a \in Analyses, SaveReport(a)
       PROVE Stopped(b)'
  BY <1>25 DEF SaveReport, sinkholeVars, objectVars
<1>26. ASSUME NEW a \in Analyses, NEW s \in SandboxStages, ContainerExits(a, s)
       PROVE Stopped(b)'
  BY <1>26 DEF ContainerExits, sinkholeVars, objectVars
<1>27. ASSUME NEW a \in Analyses, DeleteJob(a)
       PROVE Stopped(b)'
  BY <1>27 DEF DeleteJob, sinkholeVars, objectVars
<1>28. ASSUME NEW a \in Analyses, ServingLoops(a)
       PROVE Stopped(b)'
  BY <1>28, LoopsKeep
<1>31. ASSUME NEW a \in Analyses, DrainEbpf(a)
       PROVE Stopped(b)'
  BY <1>31 DEF DrainEbpf, ReturnOrRaise, sinkholeVars, objectVars
<1>32. ASSUME NEW a \in Analyses, SamplerEnds(a) \/ TracerEnds(a)
       PROVE Stopped(b)'
  BY <1>32 DEF SamplerEnds, TracerEnds, OtherThanHelpers, LateHost, EndedEbpf, SparedEbpf, Tracing, Ended, sinkholeVars, objectVars
<1>29. CASE UNCHANGED vars
  BY <1>29 DEF vars, sinkholeVars, objectVars
<1>30. QED
  BY <1>1, <1>2, <1>3, <1>4, <1>5, <1>6, <1>7, <1>8, <1>9, <1>10, <1>11,
     <1>12, <1>13, <1>14, <1>15, <1>16, <1>17, <1>18, <1>19, <1>20, <1>21,
     <1>22, <1>23, <1>24, <1>25, <1>26, <1>27, <1>28, <1>29, <1>31, <1>32
     DEF Next, Advance

LEMMA DecidedStep ==
  PipelineInv /\ [Next]_vars => \A b \in Analyses : Decided(b)'
<1> SUFFICES ASSUME PipelineInv, [Next]_vars, NEW b \in Analyses
             PROVE Decided(b)'
  OBVIOUS
<1>0. SinkholeTypeOK /\ PipelineTypeOK
  BY DEF PipelineInv
<1>0a. \A a \in Analyses : Decided(a) /\ (client[a] # "none" => pc[a] = "stages")
  BY DEF PipelineInv, SinkholeInv, Held, InStep
<1> HIDE DEF PipelineInv
<1> USE <1>0, <1>0a, Names, ContainersAssumption DEF PipelineTypeOK, pipelineVars, runVars, stageVars, At, To, Decided, Route, HostStages, UsesSinkhole, NoReport, SinkholeTypeOK
<1>1. ASSUME NEW a \in Analyses, Begin(a)
      PROVE Decided(b)'
  BY <1>1 DEF Begin, sinkholeVars, objectVars
<1>2. ASSUME NEW a \in Analyses, Resolve(a)
      PROVE Decided(b)'
  BY <1>2 DEF Resolve, Track, sinkholeVars, objectVars
<1>3. ASSUME NEW a \in Analyses, Download(a)
      PROVE Decided(b)'
  BY <1>3 DEF Download, Track, sinkholeVars, objectVars
<1>4. ASSUME NEW a \in Analyses, Inspect(a)
      PROVE Decided(b)'
  BY <1>4 DEF Inspect, Track, sinkholeVars, objectVars
<1>5. ASSUME NEW a \in Analyses, Prepare(a)
      PROVE Decided(b)'
  BY <1>5 DEF Prepare, sinkholeVars, objectVars
<1>6. ASSUME NEW a \in Analyses, StartSinkhole(a)
      PROVE Decided(b)'
  BY <1>6, StartMoves DEF StartSinkhole, StartSteps
<1>7. ASSUME NEW a \in Analyses, DecideNetwork(a)
      PROVE Decided(b)'
  BY <1>7 DEF DecideNetwork, Requests, sinkholeVars, objectVars
<1>8. ASSUME NEW a \in Analyses, SinkholeRaises(a)
      PROVE Decided(b)'
  BY <1>8 DEF SinkholeRaises, sinkholeVars, objectVars
<1>9. ASSUME NEW a \in Analyses, StartCollectors(a)
      PROVE Decided(b)'
  BY <1>9 DEF StartCollectors, sinkholeVars, objectVars
<1>10. ASSUME NEW a \in Analyses, NEW s \in SandboxStages, BeginStage(a, s)
       PROVE Decided(b)'
  BY <1>10 DEF BeginStage, Launch, sinkholeVars, objectVars
<1>11. ASSUME NEW a \in Analyses, NEW s \in SandboxStages, SkipStage(a, s)
       PROVE Decided(b)'
  BY <1>11 DEF SkipStage, TrackStage, Track, sinkholeVars, objectVars
<1>12. ASSUME NEW a \in Analyses, StageRaises(a)
       PROVE Decided(b)'
  BY <1>12 DEF StageRaises, sinkholeVars, objectVars
<1>13. ASSUME NEW a \in Analyses, FinishStage(a)
       PROVE Decided(b)'
  BY <1>13 DEF FinishStage, ResultOf, TrackStage, Track, sinkholeVars, objectVars
<1>14. ASSUME NEW a \in Analyses, TimeoutStage(a)
       PROVE Decided(b)'
  BY <1>14 DEF TimeoutStage, ResultOf, TrackStage, Track, sinkholeVars, objectVars
<1>15. ASSUME NEW a \in Analyses, EndStages(a)
       PROVE Decided(b)'
  BY <1>15 DEF EndStages, sinkholeVars, objectVars
<1>16. ASSUME NEW a \in Analyses, StopHost(a)
       PROVE Decided(b)'
  BY <1>16 DEF StopHost, OtherThanHelpers, sinkholeVars, objectVars
<1>17. ASSUME NEW a \in Analyses, StopPcap(a)
       PROVE Decided(b)'
  BY <1>17 DEF StopPcap, ReturnOrRaise, sinkholeVars, objectVars
<1>18. ASSUME NEW a \in Analyses, StopEbpf(a)
       PROVE Decided(b)'
  BY <1>18 DEF StopEbpf, Pkill, ReturnOrRaise, sinkholeVars, objectVars
<1>19. ASSUME NEW a \in Analyses, StopSinkhole(a)
       PROVE Decided(b)'
  BY <1>19, StopMoves DEF StopSinkhole
<1>20. ASSUME NEW a \in Analyses, LeaveFinally(a)
       PROVE Decided(b)'
  BY <1>20 DEF LeaveFinally, sinkholeVars, objectVars
<1>21. ASSUME NEW a \in Analyses, MakeReport(a)
       PROVE Decided(b)'
  BY <1>21 DEF MakeReport, Reports, sinkholeVars, objectVars
<1>22. ASSUME NEW a \in Analyses, MakeFailedReport(a)
       PROVE Decided(b)'
  BY <1>22 DEF MakeFailedReport, Reports, sinkholeVars, objectVars
<1>23. ASSUME NEW a \in Analyses, WriteBundle(a)
       PROVE Decided(b)'
  BY <1>23 DEF WriteBundle, sinkholeVars, objectVars
<1>24. ASSUME NEW a \in Analyses, LeaveWorkspace(a)
       PROVE Decided(b)'
  BY <1>24 DEF LeaveWorkspace, sinkholeVars, objectVars
<1>25. ASSUME NEW a \in Analyses, SaveReport(a)
       PROVE Decided(b)'
  BY <1>25 DEF SaveReport, sinkholeVars, objectVars
<1>26. ASSUME NEW a \in Analyses, NEW s \in SandboxStages, ContainerExits(a, s)
       PROVE Decided(b)'
  BY <1>26 DEF ContainerExits, sinkholeVars, objectVars
<1>27. ASSUME NEW a \in Analyses, DeleteJob(a)
       PROVE Decided(b)'
  BY <1>27 DEF DeleteJob, sinkholeVars, objectVars
<1>28. ASSUME NEW a \in Analyses, ServingLoops(a)
       PROVE Decided(b)'
  BY <1>28, LoopsKeep
<1>31. ASSUME NEW a \in Analyses, DrainEbpf(a)
       PROVE Decided(b)'
  BY <1>31 DEF DrainEbpf, ReturnOrRaise, sinkholeVars, objectVars
<1>32. ASSUME NEW a \in Analyses, SamplerEnds(a) \/ TracerEnds(a)
       PROVE Decided(b)'
  BY <1>32 DEF SamplerEnds, TracerEnds, OtherThanHelpers, sinkholeVars, objectVars
<1>29. CASE UNCHANGED vars
  BY <1>29 DEF vars, sinkholeVars, objectVars
<1>30. QED
  BY <1>1, <1>2, <1>3, <1>4, <1>5, <1>6, <1>7, <1>8, <1>9, <1>10, <1>11,
     <1>12, <1>13, <1>14, <1>15, <1>16, <1>17, <1>18, <1>19, <1>20, <1>21,
     <1>22, <1>23, <1>24, <1>25, <1>26, <1>27, <1>28, <1>29, <1>31, <1>32
     DEF Next, Advance

LEMMA TrackedStep ==
  PipelineInv /\ [Next]_vars => \A b \in Analyses : Tracked(b)'
<1> SUFFICES ASSUME PipelineInv, [Next]_vars, NEW b \in Analyses
             PROVE Tracked(b)'
  OBVIOUS
<1>0. SinkholeTypeOK /\ PipelineTypeOK
  BY DEF PipelineInv
<1>0a. \A a \in Analyses : Tracked(a) /\ (client[a] # "none" => pc[a] = "stages")
  BY DEF PipelineInv, InStep
<1> HIDE DEF PipelineInv
<1> USE <1>0, <1>0a, Names, ContainersAssumption DEF PipelineTypeOK, pipelineVars, runVars, stageVars, At, To, Tracked, Live, SinkholeTypeOK
<1>1. ASSUME NEW a \in Analyses, Begin(a)
      PROVE Tracked(b)'
  BY <1>1 DEF Begin, sinkholeVars, objectVars
<1>2. ASSUME NEW a \in Analyses, Resolve(a)
      PROVE Tracked(b)'
  BY <1>2 DEF Resolve, Track, sinkholeVars, objectVars
<1>3. ASSUME NEW a \in Analyses, Download(a)
      PROVE Tracked(b)'
  BY <1>3 DEF Download, Track, sinkholeVars, objectVars
<1>4. ASSUME NEW a \in Analyses, Inspect(a)
      PROVE Tracked(b)'
  BY <1>4 DEF Inspect, Track, sinkholeVars, objectVars
<1>5. ASSUME NEW a \in Analyses, Prepare(a)
      PROVE Tracked(b)'
  BY <1>5 DEF Prepare, sinkholeVars, objectVars
<1>6. ASSUME NEW a \in Analyses, StartSinkhole(a)
      PROVE Tracked(b)'
  BY <1>6, StartMoves DEF StartSinkhole, StartSteps
<1>7. ASSUME NEW a \in Analyses, DecideNetwork(a)
      PROVE Tracked(b)'
  BY <1>7 DEF DecideNetwork, sinkholeVars, objectVars
<1>8. ASSUME NEW a \in Analyses, SinkholeRaises(a)
      PROVE Tracked(b)'
  BY <1>8 DEF SinkholeRaises, sinkholeVars, objectVars
<1>9. ASSUME NEW a \in Analyses, StartCollectors(a)
      PROVE Tracked(b)'
  BY <1>9 DEF StartCollectors, sinkholeVars, objectVars
<1>10. ASSUME NEW a \in Analyses, NEW s \in SandboxStages, BeginStage(a, s)
       PROVE Tracked(b)'
  BY <1>10 DEF BeginStage, Launch, sinkholeVars, objectVars
<1>11. ASSUME NEW a \in Analyses, NEW s \in SandboxStages, SkipStage(a, s)
       PROVE Tracked(b)'
  BY <1>11 DEF SkipStage, TrackStage, Track, sinkholeVars, objectVars
<1>12. ASSUME NEW a \in Analyses, StageRaises(a)
       PROVE Tracked(b)'
  BY <1>12 DEF StageRaises, sinkholeVars, objectVars
<1>13. ASSUME NEW a \in Analyses, FinishStage(a)
       PROVE Tracked(b)'
  BY <1>13 DEF FinishStage, ResultOf, TrackStage, Track, sinkholeVars, objectVars
<1>14. ASSUME NEW a \in Analyses, TimeoutStage(a)
       PROVE Tracked(b)'
  BY <1>14 DEF TimeoutStage, ResultOf, TrackStage, Track, sinkholeVars, objectVars
<1>15. ASSUME NEW a \in Analyses, EndStages(a)
       PROVE Tracked(b)'
  BY <1>15 DEF EndStages, sinkholeVars, objectVars
<1>16. ASSUME NEW a \in Analyses, StopHost(a)
       PROVE Tracked(b)'
  BY <1>16 DEF StopHost, OtherThanHelpers, sinkholeVars, objectVars
<1>17. ASSUME NEW a \in Analyses, StopPcap(a)
       PROVE Tracked(b)'
  BY <1>17 DEF StopPcap, ReturnOrRaise, sinkholeVars, objectVars
<1>18. ASSUME NEW a \in Analyses, StopEbpf(a)
       PROVE Tracked(b)'
  BY <1>18 DEF StopEbpf, Pkill, ReturnOrRaise, sinkholeVars, objectVars
<1>19. ASSUME NEW a \in Analyses, StopSinkhole(a)
       PROVE Tracked(b)'
  BY <1>19, StopMoves DEF StopSinkhole
<1>20. ASSUME NEW a \in Analyses, LeaveFinally(a)
       PROVE Tracked(b)'
  BY <1>20 DEF LeaveFinally, sinkholeVars, objectVars
<1>21. ASSUME NEW a \in Analyses, MakeReport(a)
       PROVE Tracked(b)'
  BY <1>21 DEF MakeReport, sinkholeVars, objectVars
<1>22. ASSUME NEW a \in Analyses, MakeFailedReport(a)
       PROVE Tracked(b)'
  BY <1>22 DEF MakeFailedReport, sinkholeVars, objectVars
<1>23. ASSUME NEW a \in Analyses, WriteBundle(a)
       PROVE Tracked(b)'
  BY <1>23 DEF WriteBundle, sinkholeVars, objectVars
<1>24. ASSUME NEW a \in Analyses, LeaveWorkspace(a)
       PROVE Tracked(b)'
  BY <1>24 DEF LeaveWorkspace, sinkholeVars, objectVars
<1>25. ASSUME NEW a \in Analyses, SaveReport(a)
       PROVE Tracked(b)'
  BY <1>25 DEF SaveReport, sinkholeVars, objectVars
<1>26. ASSUME NEW a \in Analyses, NEW s \in SandboxStages, ContainerExits(a, s)
       PROVE Tracked(b)'
  BY <1>26 DEF ContainerExits, sinkholeVars, objectVars
<1>27. ASSUME NEW a \in Analyses, DeleteJob(a)
       PROVE Tracked(b)'
  BY <1>27 DEF DeleteJob, sinkholeVars, objectVars
<1>28. ASSUME NEW a \in Analyses, ServingLoops(a)
       PROVE Tracked(b)'
  BY <1>28, LoopsKeep
<1>31. ASSUME NEW a \in Analyses, DrainEbpf(a)
       PROVE Tracked(b)'
  BY <1>31 DEF DrainEbpf, ReturnOrRaise, sinkholeVars, objectVars
<1>32. ASSUME NEW a \in Analyses, SamplerEnds(a) \/ TracerEnds(a)
       PROVE Tracked(b)'
  BY <1>32 DEF SamplerEnds, TracerEnds, OtherThanHelpers, sinkholeVars, objectVars
<1>29. CASE UNCHANGED vars
  BY <1>29 DEF vars, sinkholeVars, objectVars
<1>30. QED
  BY <1>1, <1>2, <1>3, <1>4, <1>5, <1>6, <1>7, <1>8, <1>9, <1>10, <1>11,
     <1>12, <1>13, <1>14, <1>15, <1>16, <1>17, <1>18, <1>19, <1>20, <1>21,
     <1>22, <1>23, <1>24, <1>25, <1>26, <1>27, <1>28, <1>29, <1>31, <1>32
     DEF Next, Advance

LEMMA PipelineInvInit == Init => PipelineInv
<1> SUFFICES ASSUME Init PROVE PipelineInv
  OBVIOUS
<1>1. SinkholeTypeOK
  BY StepNames DEF Init, SinkholeInit, SinkholeTypeOK
<1>2. SinkholeInv
  BY SinkholeInvInit DEF Init
<1>3. PipelineTypeOK
  BY Places, AskedAssumption DEF Init, PipelineTypeOK, NoReport
<1>4. ASSUME NEW a \in Analyses
      PROVE InStep(a) /\ Decided(a) /\ Stopped(a) /\ Tracked(a)
  BY <1>4 DEF Init, SinkholeInit, InStep, Decided, Stopped, Tracked, Live, HostStages, NoReport
<1> QED
  BY <1>1, <1>2, <1>3, <1>4 DEF PipelineInv

LEMMA PipelineInvStep == PipelineInv /\ [Next]_vars => PipelineInv'
<1> SUFFICES ASSUME PipelineInv, [Next]_vars PROVE PipelineInv'
  OBVIOUS
<1>1. [SinkholeNext]_sinkholeVars
  BY SinkholeSteps
<1>2. SinkholeTypeOK' /\ SinkholeInv'
  BY <1>1, SinkholeTypingStep, SinkholeInvStep DEF PipelineInv
<1>3. \A a \in Analyses : InStep(a)' /\ Decided(a)' /\ Stopped(a)' /\ Tracked(a)'
  BY InStepStep, DecidedStep, StoppedStep, TrackedStep
<1> QED
  BY <1>2, <1>3, PipelineTypingStep DEF PipelineInv

LEMMA PipelineInvariant == Spec => []PipelineInv
<1>1. Init => PipelineInv
  BY PipelineInvInit
<1>2. PipelineInv /\ [Next]_vars => PipelineInv'
  BY PipelineInvStep
<1> QED
  BY <1>1, <1>2, PTL DEF Spec

-----------------------------------------------------------------------------
(* The theorems *)

\* Every variable of the pipeline keeps its type.
THEOREM PipelineTyping == Spec => []PipelineTypeOK
<1>1. PipelineInv => PipelineTypeOK
  BY DEF PipelineInv
<1> QED
  BY <1>1, PipelineInvariant, PTL

\* The pipeline uses the sinkhole as the sinkhole expects to be used: it starts
\* it once, attaches containers only between the end of start() and the call of
\* stop(), and never touches its state otherwise.
THEOREM ImplementsSinkhole == Spec => SinkholeSpec
<1>1. Init => SinkholeInit
  BY DEF Init
<1>2. PipelineInv /\ [Next]_vars => [SinkholeNext]_sinkholeVars
  BY SinkholeSteps
<1> QED
  BY <1>1, <1>2, PipelineInvariant, PTL DEF Spec, SinkholeSpec

\* The default bridge is used by a request for "full" and by no other.
THEOREM BridgeNeedsFull == Spec => []BridgeOnlyIfFull
<1>1. PipelineInv => BridgeOnlyIfFull
  BY DEF PipelineInv, PipelineTypeOK, Requests, Networks, Decided, Route, UsesSinkhole,
         BridgeOnlyIfFull
<1> QED
  BY <1>1, PipelineInvariant, PTL

\* A stage being waited for on a sinkhole's network is contained by it.
THEOREM Containment == Spec => []StageContained
<1>1. ASSUME PipelineInv, NEW a \in Analyses, client[a] # "none", attached[a] # {}
      PROVE a \in networks /\ Rewritten(a) /\ sockets[a] = Ports
  <2>1. step[a] = "up"
    BY <1>1 DEF PipelineInv, InStep, Decided, SinkholeInv, Held, StopSteps
  <2> QED
    BY <1>1, <2>1 DEF PipelineInv, SinkholeInv, Held, Ranked, Rewritten
<1>2. PipelineInv => StageContained
  BY <1>1 DEF StageContained
<1> QED
  BY <1>2, PipelineInvariant, PTL

\* A run that made its report, or ended without one, holds nothing on the host but
\* the last sample of its sampler and a bpftrace its pkill spared; what it may hold
\* besides when the stop of tcpdump or bpftrace, start() or stop() raised or a
\* removing command failed is what the property names.
THEOREM ReportFreesHost == Spec => []NothingHeldAtReport
<1>1. PipelineInv => NothingHeldAtReport
  BY DEF PipelineInv, InStep, Stopped, Left, SinkholeInv, Held, Tidy, NothingHeldAtReport
<1> QED
  BY <1>1, PipelineInvariant, PTL

\* A completed report names the network the stages had.
THEOREM HonestReport == Spec => []CompletedReportIsHonest
<1>1. ASSUME PipelineInv, NEW a \in Analyses, report[a].status = "completed"
      PROVE routes[a] \subseteq
           [sinkhole |-> {"own"}, full |-> {"bridge"},
            restricted |-> {"none"}, disabled |-> {"none"}][report[a].network_mode]
  <2>1. /\ effective[a] \in Networks
        /\ report[a].network_mode = effective[a]
        /\ routes[a] \subseteq {Route(a)}
    BY <1>1 DEF PipelineInv, PipelineTypeOK, Decided
  <2>2. a \in active <=> effective[a] = "sinkhole"
    BY <1>1, <2>1 DEF PipelineInv, InStep, Decided, SinkholeInv, Held, StopSteps, UsesSinkhole
  <2> QED
    BY <2>1, <2>2 DEF Route, Networks
<1>2. PipelineInv => CompletedReportIsHonest
  BY <1>1 DEF CompletedReportIsHonest
<1> QED
  BY <1>2, PipelineInvariant, PTL

\* A running container is awaited or belongs to a stage in the report's list.
THEOREM ContainersReported == Spec => []NoUnreportedContainer
<1>1. PipelineInv => NoUnreportedContainer
  BY DEF PipelineInv, Tracked, NoUnreportedContainer
<1> QED
  BY <1>1, PipelineInvariant, PTL
=============================================================================
