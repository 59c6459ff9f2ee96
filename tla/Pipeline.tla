------------------------------ MODULE Pipeline ------------------------------
(***************************************************************************)
(* One run of analyze_package (backend/app/package.py), from the call to   *)
(* the report on disk, together with the sinkhole it uses. This module     *)
(* extends Sinkhole: a step of start() or stop() is a step of that module, *)
(* taken while the pipeline is inside the call.                            *)
(*                                                                         *)
(* The run goes through the host-side stages, decides the network mode,    *)
(* starts the collectors, and runs the sandboxed stages one after the      *)
(* other, each as a docker client with a time limit. A stage that fails or *)
(* times out does not end the run. A client that runs out of time is       *)
(* killed; its container is not, and runs on until it exits by itself. An  *)
(* exception among the sandboxed stages goes through the finally block,    *)
(* which stops the collectors and the sinkhole in order, to the except     *)
(* block, which makes a failed report; one outside the try ends the call   *)
(* with no report at all ("lost").                                         *)
(*                                                                         *)
(* What the stages print and the collectors observe is left out.           *)
(***************************************************************************)
EXTENDS Sinkhole

CONSTANT MaxProbes    \* scripts probed at most, 3 in the code

Networks == {"disabled", "restricted", "full", "sinkhole"}

SandboxStages == {"build", "install", "import", "probe1", "probe2", "probe3", "execute"}

ASSUME ContainersAssumption == Containers = SandboxStages
ASSUME MaxProbesAssumption == MaxProbes \in 0..3

\* What the collectors start: the host sampler's thread, tcpdump and bpftrace.
Helpers == {"host", "pcap", "ebpf"}

\* What becomes of them: the sampler goes on with a sample after its stop() has
\* returned; bpftrace ends before its stop(), or lives on after its own pkill. An
\* early end of the other two makes no difference and is left out.
LateHost == "late_host"
EndedEbpf == "ended_ebpf"
SparedEbpf == "spared_ebpf"
Tracing == {"ebpf", SparedEbpf}

\* A request: the network mode, whether the artifact was uploaded, and whether
\* a command is to be executed last (an upload has none).
Requests == {r \in [network : Networks, upload : BOOLEAN, command : BOOLEAN] :
                r.upload => ~r.command}

CONSTANT Asked        \* bound: the requests that are made

ASSUME AskedAssumption == Asked \subseteq Requests

Reports ==
    [status : {"completed", "failed"}, network_mode : Networks,
     sinkhole : {"absent", "not_used", "not_started", "refused", "capturing", "success"}]

NoReport == [status |-> "none"]

VARIABLES
    pc,          \* where analyze_package is
    request,     \* its arguments
    effective,   \* effective_network, "undecided" before it is computed
    last,        \* the sandboxed stage last begun
    client,      \* the stage whose docker client is awaited, or "none"
    elsewhere,   \* live containers that are not on a sinkhole's network
    helpers,     \* what the collectors have started and not stopped
    tracked,     \* the stages in the report's list so far
    raised,      \* analyses in which an exception is on its way out
    listed,      \* analyses with an entry in main.py's jobs
    report,      \* the report, as made
    routes,      \* history: the docker networks its containers were started on
    flawed       \* history: analyses in which stopping a helper raised

stageVars == <<last, client, elsewhere, tracked, routes>>
runVars == <<request, effective, helpers, raised, listed, report, flawed>>
pipelineVars == <<pc, runVars, stageVars>>
vars == <<pipelineVars, sinkholeVars>>

HostStages == {"resolve", "download", "inspect"}
Pcs == HostStages \cup
       {"idle", "prepare", "sinkhole", "collectors", "stages", "stop_host",
        "stop_pcap", "stop_ebpf", "drain", "stop_sinkhole", "post", "except",
        "bundle", "leave", "save", "done", "lost"}

PipelineTypeOK ==
    /\ pc \in [Analyses -> Pcs]
    /\ request \in [Analyses -> Requests]
    /\ effective \in [Analyses -> Networks \cup {"undecided"}]
    /\ last \in [Analyses -> SandboxStages \cup {"none"}]
    /\ client \in [Analyses -> SandboxStages \cup {"none"}]
    /\ elsewhere \in [Analyses -> SUBSET SandboxStages]
    /\ helpers \in [Analyses -> SUBSET (Helpers \cup {LateHost, EndedEbpf, SparedEbpf})]
    /\ tracked \in [Analyses -> SUBSET (HostStages \cup SandboxStages)]
    /\ raised \subseteq Analyses
    /\ listed \subseteq Analyses
    /\ report \in [Analyses -> Reports \cup {NoReport}]
    /\ routes \in [Analyses -> SUBSET {"own", "none", "bridge"}]
    /\ flawed \subseteq Analyses

Init ==
    /\ SinkholeInit
    /\ pc = [a \in Analyses |-> "idle"]
    /\ request \in [Analyses -> Asked]
    /\ effective = [a \in Analyses |-> "undecided"]
    /\ last = [a \in Analyses |-> "none"]
    /\ client = [a \in Analyses |-> "none"]
    /\ elsewhere = [a \in Analyses |-> {}]
    /\ helpers = [a \in Analyses |-> {}]
    /\ tracked = [a \in Analyses |-> {}]
    /\ raised = {}
    /\ listed = Analyses
    /\ report = [a \in Analyses |-> NoReport]
    /\ routes = [a \in Analyses |-> {}]
    /\ flawed = {}

At(a, p) == pc[a] = p
To(a, p) == pc' = [pc EXCEPT ![a] = p]

\* track: the stage goes into the list, then on_stage looks the job up, which
\* raises when the job has been deleted. Returns to p, or raises to q.
Track(a, s, p, q) ==
    /\ tracked' = [tracked EXCEPT ![a] = @ \cup {s}]
    /\ To(a, IF a \in listed THEN p ELSE q)

-----------------------------------------------------------------------------
(* Before the sandbox *)

\* The call: check_runtime runs outside the try, so its own timeout ends the
\* whole run.
Begin(a) ==
    /\ At(a, "idle")
    /\ To(a, "resolve") \/ To(a, "lost")
    /\ UNCHANGED <<runVars, stageVars, sinkholeVars>>

Resolve(a) ==
    /\ At(a, "resolve")
    /\ Track(a, "resolve", "download", "except")
    /\ UNCHANGED <<runVars, last, client, elsewhere, routes, sinkholeVars>>

\* pip download is tracked, then may have brought no artifact; an uploaded
\* file is copied, then tracked. The copy may fail, and so may reading the
\* output of pip.
Download(a) ==
    /\ At(a, "download")
    /\ \/ Track(a, "download", "inspect", "except")
       \/ /\ ~request[a].upload
          /\ Track(a, "download", "except", "except")
       \/ To(a, "except") /\ UNCHANGED tracked
    /\ UNCHANGED <<runVars, last, client, elsewhere, routes, sinkholeVars>>

\* The archive's listing, which may be no UTF-8.
Inspect(a) ==
    /\ At(a, "inspect")
    /\ \/ Track(a, "inspect", "prepare", "except")
       \/ To(a, "except") /\ UNCHANGED tracked
    /\ UNCHANGED <<runVars, last, client, elsewhere, routes, sinkholeVars>>

\* Metadata, image, dependencies, registry, static scan, bootstrap: most of it
\* cannot raise, the rest goes to the except block.
Prepare(a) ==
    /\ At(a, "prepare")
    /\ To(a, "sinkhole") \/ To(a, "except")
    /\ UNCHANGED <<runVars, stageVars, sinkholeVars>>

UsesSinkhole(a) == request[a].network = "sinkhole"

\* Inside sinkhole.start().
StartSinkhole(a) ==
    /\ At(a, "sinkhole")
    /\ UsesSinkhole(a)
    /\ Start(a) \/ StartStep(a)
    /\ UNCHANGED pipelineVars

\* Mutant: the mode stays when the sinkhole was refused.
DecideWithoutFallback(a) ==
    /\ At(a, "sinkhole")
    /\ UsesSinkhole(a) => step[a] \in {"up", "refused"}
    /\ effective' = [effective EXCEPT ![a] = request[a].network]
    /\ To(a, "collectors")
    /\ UNCHANGED <<request, helpers, flawed, raised, listed, report, stageVars, sinkholeVars>>

\* After it returned, or without it: a sinkhole that is not active turns the
\* whole run to "restricted".
DecideNetwork(a) ==
    /\ At(a, "sinkhole")
    /\ UsesSinkhole(a) => step[a] \in {"up", "refused"}
    /\ effective' = [effective EXCEPT ![a] =
                        IF ~UsesSinkhole(a) \/ a \in active THEN request[a].network
                        ELSE "restricted"]
    /\ To(a, "collectors")
    /\ UNCHANGED <<request, helpers, flawed, raised, listed, report, stageVars, sinkholeVars>>

\* start() let an exception out: no network was decided and nothing is stopped.
SinkholeRaises(a) ==
    /\ At(a, "sinkhole")
    /\ step[a] = "raised"
    /\ To(a, "except")
    /\ UNCHANGED <<runVars, stageVars, sinkholeVars>>

\* tcpdump is not even tried without a network.
MayStart(a) == IF effective[a] \in {"disabled", "restricted"} THEN Helpers \ {"pcap"} ELSE Helpers

\* Each collector starts or notes in its status why it did not.
StartCollectors(a) ==
    /\ At(a, "collectors")
    /\ \E up \in SUBSET MayStart(a) : helpers' = [helpers EXCEPT ![a] = up]
    /\ To(a, "stages")
    /\ UNCHANGED <<request, effective, flawed, raised, listed, report, stageVars,
                   sinkholeVars>>

OtherThanHelpers == <<request, effective, flawed, raised, listed, report,
                      stageVars, sinkholeVars>>

\* The sampler, told to stop, is through with its sample.
SamplerEnds(a) ==
    /\ LateHost \in helpers[a]
    /\ helpers' = [helpers EXCEPT ![a] = @ \ {LateHost}]
    /\ UNCHANGED <<pc, OtherThanHelpers>>

\* Running tracers have ended: the stop() yet to come will find that out, or
\* nothing will.
Ended(hs) == (hs \ Tracing) \cup IF "ebpf" \in hs THEN {EndedEbpf} ELSE {}

\* bpftrace ends by itself: sudo is refused, or it meets an error.
TracerEnds(a) ==
    /\ helpers[a] \cap Tracing # {}
    /\ helpers' = [helpers EXCEPT ![a] = Ended(@)]
    /\ UNCHANGED <<pc, OtherThanHelpers>>

-----------------------------------------------------------------------------
(* The sandboxed stages *)

\* Mutant: the mode itself is passed to --network.
RouteByMode(a) ==
    IF a \in active THEN "own" ELSE effective[a]

\* docker_command's choice of --network, given the network name passed down
\* (that of an active sinkhole) and the mode.
Route(a) ==
    IF a \in active THEN "own"
    ELSE IF effective[a] \in {"disabled", "restricted"} THEN "none" ELSE "bridge"

\* The stages that may follow the last one; "end" is the end of the try block.
\* Only an sdist is built, MaxProbes scripts are probed at most, and only a
\* request with a command executes it.
Following ==
    [none |-> {"build", "install"}, build |-> {"install"}, install |-> {"import"},
     import |-> {"probe1", "execute", "end"}, probe1 |-> {"probe2", "execute", "end"},
     probe2 |-> {"probe3", "execute", "end"}, probe3 |-> {"execute", "end"},
     execute |-> {"end"}]

ProbeNumber == [probe1 |-> 1, probe2 |-> 2, probe3 |-> 3]
TooMany == {s \in DOMAIN ProbeNumber : ProbeNumber[s] > MaxProbes}

Upcoming(a) ==
    Following[last[a]] \ (TooMany \cup
        IF request[a].command /\ last[a] # "execute" THEN {"end"} ELSE {"execute"})

Live(a) == attached[a] \cup elsewhere[a]

\* docker run starts stage s's container on network r.
Launch(a, s, r) ==
    /\ IF r = "own"
       THEN /\ attached' = [attached EXCEPT ![a] = @ \cup {s}]
            /\ UNCHANGED elsewhere
       ELSE /\ elsewhere' = [elsewhere EXCEPT ![a] = @ \cup {s}]
            /\ UNCHANGED attached
    /\ routes' = [routes EXCEPT ![a] = @ \cup {r}]

\* run_stage finds the runtime ready and calls docker run, which starts the
\* container or fails to.
BeginStage(a, s) ==
    /\ At(a, "stages") /\ client[a] = "none"
    /\ s \in Upcoming(a) \ {"end"}
    /\ last' = [last EXCEPT ![a] = s]
    /\ client' = [client EXCEPT ![a] = s]
    /\ Launch(a, s, Route(a)) \/ UNCHANGED <<attached, elsewhere, routes>>
    /\ UNCHANGED <<pc, runVars, tracked, step, objectVars, listenerVars,
                   networkVars, natVars, mishap>>

\* Mutant: the finally block is passed over.
StageRaisesPastFinally(a) ==
    /\ At(a, "stages") /\ client[a] = "none"
    /\ raised' = raised \cup {a}
    /\ To(a, "except")
    /\ UNCHANGED <<request, effective, helpers, flawed, listed, report, stageVars, sinkholeVars>>

\* run_stage finds no usable runtime and raises, or something before it does.
StageRaises(a) ==
    /\ At(a, "stages") /\ client[a] = "none"
    /\ raised' = raised \cup {a}
    /\ To(a, "stop_host")
    /\ UNCHANGED <<request, effective, helpers, flawed, listed, report, stageVars, sinkholeVars>>

\* A tracked sandboxed stage leads to the next, or, the job being deleted, into
\* the finally block with the exception.
TrackStage(a, s) ==
    /\ Track(a, s, "stages", "stop_host")
    /\ raised' = IF a \in listed THEN raised ELSE raised \cup {a}

\* check_runtime inside run_stage times out: the stage counts as timed out
\* although no container was started.
SkipStage(a, s) ==
    /\ At(a, "stages") /\ client[a] = "none"
    /\ s \in Upcoming(a) \ {"end"}
    /\ last' = [last EXCEPT ![a] = s]
    /\ TrackStage(a, s)
    /\ UNCHANGED <<request, effective, helpers, flawed, listed, report, client,
                   elsewhere, routes, sinkholeVars>>

\* What becomes of a client's output: the stage's result, or, when it is no
\* UTF-8, an exception out of run_stage, with the stage not yet tracked.
ResultOf(a, s) ==
    \/ TrackStage(a, s)
    \/ /\ raised' = raised \cup {a}
       /\ To(a, "stop_host")
       /\ UNCHANGED tracked

\* The client returns when its container is gone.
FinishStage(a) ==
    /\ client[a] # "none"
    /\ client[a] \notin Live(a)
    /\ client' = [client EXCEPT ![a] = "none"]
    /\ ResultOf(a, client[a])
    /\ UNCHANGED <<request, effective, helpers, flawed, listed, report, last,
                   elsewhere, routes, sinkholeVars>>

\* Mutant: a client out of time is still waited for until its container is gone.
TimeoutWaits(a) ==
    /\ client[a] # "none"
    /\ client[a] \notin Live(a)
    /\ client' = [client EXCEPT ![a] = "none"]
    /\ ResultOf(a, client[a])
    /\ UNCHANGED <<request, effective, helpers, flawed, listed, report, last,
                   elsewhere, routes, sinkholeVars>>

\* Mutant: a stage that timed out is left out of the list.
TimeoutUntracked(a) ==
    /\ client[a] # "none"
    /\ client' = [client EXCEPT ![a] = "none"]
    /\ UNCHANGED <<pc, runVars, tracked, last, elsewhere, routes, sinkholeVars>>

\* The client runs out of time and is killed; a container it started lives on.
TimeoutStage(a) ==
    /\ client[a] # "none"
    /\ client' = [client EXCEPT ![a] = "none"]
    /\ ResultOf(a, client[a])
    /\ UNCHANGED <<request, effective, helpers, flawed, listed, report, last,
                   elsewhere, routes, sinkholeVars>>

\* A container exits, whether its client still waits for it or not.
ContainerExits(a, s) ==
    /\ \/ s \in attached[a] /\ attached' = [attached EXCEPT ![a] = @ \ {s}] /\ UNCHANGED elsewhere
       \/ s \in elsewhere[a] /\ elsewhere' = [elsewhere EXCEPT ![a] = @ \ {s}] /\ UNCHANGED attached
    /\ UNCHANGED <<pc, runVars, last, client, tracked, routes, step, objectVars,
                   listenerVars, networkVars, natVars, mishap>>

\* Mutant: the last stage is not waited for.
EndEarly(a) ==
    /\ At(a, "stages")
    /\ "end" \in Upcoming(a)
    /\ To(a, "stop_host")
    /\ UNCHANGED <<runVars, stageVars, sinkholeVars>>

EndStages(a) ==
    /\ At(a, "stages") /\ client[a] = "none"
    /\ "end" \in Upcoming(a)
    /\ To(a, "stop_host")
    /\ UNCHANGED <<runVars, stageVars, sinkholeVars>>

-----------------------------------------------------------------------------
(* The finally block *)

\* The sampler's stop() sets its event and joins its thread for two seconds, in
\* which the thread ends, or is still in the middle of a sample.
StopHost(a) ==
    /\ At(a, "stop_host")
    /\ \/ helpers' = [helpers EXCEPT ![a] = @ \ {"host"}]
       \/ "host" \in helpers[a] /\ helpers' = [helpers EXCEPT ![a] = (@ \ {"host"}) \cup {LateHost}]
    /\ To(a, "stop_pcap")
    /\ UNCHANGED OtherThanHelpers

\* A stop() returns, and the finally block goes on at p; or it raises, and what was
\* to be stopped after it is not stopped.
ReturnOrRaise(a, p) ==
    \/ To(a, p) /\ UNCHANGED <<raised, flawed>>
    \/ To(a, "except") /\ raised' = raised \cup {a} /\ flawed' = flawed \cup {a}

\* tcpdump is terminated or killed, and gone, before anything can raise.
StopPcap(a) ==
    /\ At(a, "stop_pcap")
    /\ helpers' = [helpers EXCEPT ![a] = @ \ {"pcap"}]
    /\ IF "pcap" \in helpers[a] THEN ReturnOrRaise(a, "stop_ebpf")
       ELSE To(a, "stop_ebpf") /\ UNCHANGED <<raised, flawed>>
    /\ UNCHANGED <<request, effective, listed, report, stageVars, sinkholeVars>>

\* pkill -x bpftrace ends the tracer of every analysis, or fails and ends none:
\* its exit status is not read. An own tracer that has ended is waited for.
Pkill(a) ==
    \/ helpers' = [b \in Analyses |-> Ended(helpers[b]) \ IF b = a THEN {EndedEbpf} ELSE {}]
    \/ helpers' = [helpers EXCEPT ![a] = (@ \ {"ebpf", EndedEbpf}) \cup
                                         IF "ebpf" \in @ THEN {SparedEbpf} ELSE {}]

\* stop() of a tracer that was started. One that lives on is waited for for five
\* seconds; then sudo is killed, which is not allowed and raises, or leaves the
\* tracer alone, and the wait goes on without a limit for as long as the tracer
\* holds the pipes.
StopEbpf(a) ==
    /\ At(a, "stop_ebpf")
    /\ \/ /\ helpers[a] \cap {"ebpf", EndedEbpf} = {}
          /\ To(a, "stop_sinkhole")
          /\ UNCHANGED <<helpers, raised, flawed>>
       \/ /\ helpers[a] \cap {"ebpf", EndedEbpf} # {}
          /\ Pkill(a)
          /\ \/ ReturnOrRaise(a, "stop_sinkhole")
             \/ SparedEbpf \in helpers'[a] /\ To(a, "drain") /\ UNCHANGED <<raised, flawed>>
    /\ UNCHANGED <<request, effective, listed, report, stageVars, sinkholeVars>>

\* The second communicate() ends with the tracer.
DrainEbpf(a) ==
    /\ At(a, "drain")
    /\ SparedEbpf \notin helpers[a]
    /\ ReturnOrRaise(a, "stop_sinkhole")
    /\ UNCHANGED <<request, effective, helpers, listed, report, stageVars, sinkholeVars>>

\* Mutant: stop() begins with the network, without joining the loops.
StopSkipsTeardown(a) ==
    /\ At(a, "stop_sinkhole")
    /\ \/ /\ step[a] = "up"
          /\ Goto(a, "remove")
          /\ UNCHANGED <<objectVars, listenerVars, networkVars, natVars, attached, mishap>>
       \/ StopStep(a)
    /\ UNCHANGED pipelineVars

\* Inside sinkhole.stop().
StopSinkhole(a) ==
    /\ At(a, "stop_sinkhole")
    /\ Stop(a) \/ StopStep(a)
    /\ UNCHANGED pipelineVars

\* The end of the finally block, with or without an exception pending; stop()
\* returned, raised, or had nothing to do.
LeaveFinally(a) ==
    /\ At(a, "stop_sinkhole")
    /\ a \in active => step[a] \in {"stopped", "broken"}
    /\ To(a, IF a \in raised \/ step[a] = "broken" THEN "except" ELSE "post")
    /\ UNCHANGED <<runVars, stageVars, sinkholeVars>>

-----------------------------------------------------------------------------
(* The report *)

\* Mutant: the report names the network that was asked for.
MakeReportAsRequested(a) ==
    /\ At(a, "post")
    /\ \/ /\ report' = [report EXCEPT ![a] =
                [status |-> "completed", network_mode |-> request[a].network,
                 sinkhole |-> IF UsesSinkhole(a) THEN status[a] ELSE "not_used"]]
          /\ To(a, "bundle")
       \/ /\ To(a, "except")
          /\ UNCHANGED report
    /\ UNCHANGED <<request, effective, helpers, flawed, raised, listed, stageVars, sinkholeVars>>

\* The work after the stages ends in a completed report, or raises.
MakeReport(a) ==
    /\ At(a, "post")
    /\ \/ /\ report' = [report EXCEPT ![a] =
                [status |-> "completed", network_mode |-> effective[a],
                 sinkhole |-> IF UsesSinkhole(a) THEN status[a] ELSE "not_used"]]
          /\ To(a, "bundle")
       \/ /\ To(a, "except")
          /\ UNCHANGED report
    /\ UNCHANGED <<request, effective, helpers, flawed, raised, listed, stageVars, sinkholeVars>>

\* The except block: the report names the network that was asked for, and no
\* collector but the filesystem's.
MakeFailedReport(a) ==
    /\ At(a, "except")
    /\ report' = [report EXCEPT ![a] =
          [status |-> "failed", network_mode |-> request[a].network, sinkhole |-> "absent"]]
    /\ raised' = raised \ {a}
    /\ To(a, "bundle")
    /\ UNCHANGED <<request, effective, helpers, flawed, listed, stageVars, sinkholeVars>>

\* write_log_bundle, whose exceptions nothing catches.
WriteBundle(a) ==
    /\ At(a, "bundle")
    /\ To(a, "leave") \/ To(a, "lost")
    /\ UNCHANGED <<runVars, stageVars, sinkholeVars>>

\* The temporary workspace is removed, which can fail while a container that
\* outlived its stage still writes to it.
LeaveWorkspace(a) ==
    /\ At(a, "leave")
    /\ To(a, "save") \/ (Live(a) # {} /\ To(a, "lost"))
    /\ UNCHANGED <<runVars, stageVars, sinkholeVars>>

SaveReport(a) ==
    /\ At(a, "save")
    /\ To(a, "done") \/ To(a, "lost")
    /\ UNCHANGED <<runVars, stageVars, sinkholeVars>>

\* DELETE /api/analysis/{id} takes the entry out of jobs, at any time.
DeleteJob(a) ==
    /\ a \in listed
    /\ listed' = listed \ {a}
    /\ UNCHANGED <<pc, request, effective, helpers, flawed, raised, report,
                   stageVars, sinkholeVars>>

\* The sinkhole's serving loops end on their own.
ServingLoops(a) ==
    /\ \E p \in Ports : LoopSeesStop(a, p) \/ LoopFails(a, p)
    /\ UNCHANGED pipelineVars

-----------------------------------------------------------------------------
Advance(a) ==
    \/ Begin(a) \/ Resolve(a) \/ Download(a) \/ Inspect(a) \/ Prepare(a)
    \/ StartSinkhole(a) \/ DecideNetwork(a) \/ SinkholeRaises(a) \/ StartCollectors(a)
    \/ (\E s \in SandboxStages : BeginStage(a, s) \/ SkipStage(a, s))
    \/ StageRaises(a) \/ FinishStage(a) \/ TimeoutStage(a) \/ EndStages(a)
    \/ StopHost(a) \/ StopPcap(a) \/ StopEbpf(a) \/ DrainEbpf(a)
    \/ StopSinkhole(a) \/ LeaveFinally(a)
    \/ MakeReport(a) \/ MakeFailedReport(a) \/ WriteBundle(a) \/ LeaveWorkspace(a)
    \/ SaveReport(a)

Next ==
    \E a \in Analyses :
       \/ Advance(a)
       \/ \E s \in SandboxStages : ContainerExits(a, s)
       \/ SamplerEnds(a) \/ TracerEnds(a)
       \/ DeleteJob(a)
       \/ ServingLoops(a)

Spec == Init /\ [][Next]_vars

\* A worker thread that runs an analysis goes on: every call it makes returns,
\* raises or times out, but the second communicate(), which waits for bpftrace. A
\* serving loop polls its flag, and a sample is finite. Containers, tcpdump and
\* bpftrace are under no obligation to end.
FairSpec ==
    /\ Spec
    /\ \A a \in Analyses : WF_vars(Advance(a)) /\ WF_vars(SamplerEnds(a))
    /\ \A a \in Analyses, p \in Ports : WF_vars(LoopSeesStop(a, p) /\ UNCHANGED pipelineVars)

-----------------------------------------------------------------------------
(* Properties *)

\* Code under analysis is on the default bridge, the one network with a way to
\* the internet, only if the request said "full": whatever way a sinkhole fails
\* to start, the mode becomes "restricted" or the run ends before any stage.
BridgeOnlyIfFull == \A a \in Analyses : "bridge" \in routes[a] => request[a].network = "full"

\* A stage that is being waited for on a sinkhole's network is contained: the
\* network's traffic is rewritten to the sinkhole, whose sockets are open. The
\* stages all lie between the end of start() and the call of stop().
StageContained ==
    \A a \in Analyses : client[a] # "none" /\ attached[a] # {} =>
        a \in networks /\ Rewritten(a) /\ sockets[a] = Ports

\* When a run has made its report, through whichever of the return and except
\* paths, what it held on the host is gone. Its tcpdump always is, and its
\* sampler, but for a last sample. Its bpftrace is, unless its pkill failed or the
\* stop of tcpdump or bpftrace raised; its sockets, unless that or start() raised;
\* its network and its redirecting rule, unless, besides, a removing command
\* failed or raised.
NothingHeldAtReport ==
    \A a \in Analyses : pc[a] \in {"bundle", "leave", "save", "done", "lost"} =>
        /\ helpers[a] \subseteq {LateHost, SparedEbpf} \cup
                          IF a \in flawed THEN {"ebpf", EndedEbpf} ELSE {}
        /\ a \notin flawed /\ step[a] # "raised" =>
              /\ sockets[a] = {}
              /\ a \in networks \cup rules => a \in mishap \/ step[a] = "broken"

\* A completed report names the network its stages really had, also when the
\* sinkhole was given up and the mode replaced.
CompletedReportIsHonest ==
    \A a \in Analyses : report[a].status = "completed" =>
        routes[a] \subseteq
           [sinkhole |-> {"own"}, full |-> {"bridge"},
            restricted |-> {"none"}, disabled |-> {"none"}][report[a].network_mode]

\* A container still running is awaited or belongs to a stage in the report's
\* list, also when its job was deleted. Only a run that fails can have one that
\* nothing tells of: its client timed out and left an output that raised.
NoUnreportedContainer ==
    \A a \in Analyses :
        \/ report[a].status = "completed"
        \/ a \notin raised /\ report[a].status # "failed"
        => Live(a) \subseteq tracked[a] \cup {client[a]}

\* Whatever the commands, containers and clients of the API do, a run that began
\* ends, with its report saved or by an exception nothing caught, and so do the
\* serving loops of a sinkhole it stopped and the sampler's thread, also those
\* that outlived their two-second join. Only a bpftrace that its pkill did not
\* end holds a run up, and no longer than until it ends.
LoopsOver(a) == step[a] \in {"stopped", "broken"} => serving[a] = {}
RunEnds ==
    \A a \in Analyses :
        LET WaitsForTracer == pc[a] = "drain" /\ SparedEbpf \in helpers[a]
        IN  pc[a] = "resolve" \/ (pc[a] = "drain" /\ ~WaitsForTracer)
            ~> \/ pc[a] \in {"done", "lost"} /\ LoopsOver(a) /\ LateHost \notin helpers[a]
               \/ WaitsForTracer

(* What the documentation says *)

\* README: every packet that leaves the sinkhole's docker network is rewritten
\* to the gateway, and never goes on to its destination.
AlwaysRewritten == \A a \in Analyses : attached[a] # {} => Rewritten(a)

\* README: if any part of the sinkhole fails, the reason is in collector_status
\* .sinkhole and the mode is "restricted".
FailureIsReported ==
    \A a \in Analyses : report[a].status # "none" /\ UsesSinkhole(a) /\ a \notin active
        /\ step[a] # "idle"
        => report[a].network_mode = "restricted" /\ report[a].sinkhole = "refused"
=============================================================================
