---------------------------- MODULE Correlation ----------------------------
(***************************************************************************)
(* How the order of what sandboxed code did survives into the signals       *)
(* (backend/app/signals.py). Four sources stamp what happens:               *)
(*   - gVisor's trace of a stage is read when the stage has ended, and its  *)
(*     events are stamped then, one after the other;                        *)
(*   - the sinkhole stamps a request when it has read it;                    *)
(*   - the hooks inside the sandbox stamp at once;                          *)
(*   - the host sampler stamps a sample when it counted any process.        *)
(* The events are merged and sorted by stamp, and an event of one kind is    *)
(* paired with the nearest later one of another. Here the merged list grows  *)
(* in the order of the stamps, so a place in it stands for the fine part of  *)
(* a stamp and "stamp" for its whole seconds.                               *)
(***************************************************************************)
EXTENDS Naturals, Sequences, FiniteSets, FiniteSetsExt

CONSTANTS
    MaxStages,  \* sandboxed stages
    MaxClock,   \* bound: seconds
    MaxEvents,  \* bound: things that happen in one analysis
    Window      \* window_s, 5 or 10 in the code

ASSUME WindowAssumption == Window \in Nat
ASSUME BoundsAssumption == MaxStages \in Nat /\ MaxClock \in Nat /\ MaxEvents \in Nat

Stages == 1..MaxStages

VARIABLES
    phase,      \* "between" stages, "running" one, "done"
    stage,      \* the last stage that began
    clock,      \* seconds
    trace,      \* the lines of the running stage's log
    open,       \* connections the sinkhole has not recorded yet
    merged,     \* build_events_jsonl's list
    ended,      \* finished_at of each stage that ended, as a place in merged
    leftover,   \* stages whose container lives on after its client was killed
    happened,   \* history: how much happened
    sighted     \* history: stages the sampler saw living on

stageVars == <<phase, stage, ended, leftover>>
correlationVars == <<stageVars, clock, trace, open, merged, happened, sighted>>

\* What happened, with the stage it happened in and its place in the true order
\* of things. Only the source, the kind and the stamp reach the signals.
Happening == [kind : {"read", "connect", "bulk", "sample"}, stage : Stages,
              real : 1..MaxEvents, at : 0..MaxClock]
Event == [kind : {"read", "connect", "bulk", "sample"}, stage : Stages,
          real : 1..MaxEvents, at : 0..MaxClock,
          source : {"gvisor", "sinkhole", "instrumentation", "host"}, stamp : 0..MaxClock]

CorrelationTypeOK ==
    /\ phase \in {"between", "running", "done"}
    /\ stage \in 0..MaxStages
    /\ clock \in 0..MaxClock
    /\ trace \in Seq(Happening)
    /\ open \subseteq Happening
    /\ merged \in Seq(Event)
    /\ ended \in Seq(0..(2 * MaxEvents)) /\ Len(ended) \in {stage, stage - 1}
    /\ leftover \subseteq 1..Len(ended)
    /\ happened \in 0..MaxEvents
    /\ sighted \subseteq 1..Len(ended)

CorrelationInit ==
    /\ phase = "between" /\ stage = 0 /\ clock = 0
    /\ trace = <<>> /\ open = {} /\ merged = <<>> /\ ended = <<>>
    /\ leftover = {} /\ happened = 0 /\ sighted = {}

---------------------------------------------------------------------------
(* What happens while the stages run.                                       *)

Room == happened < MaxEvents

Now(kind, s) == [kind |-> kind, stage |-> s, real |-> happened + 1, at |-> clock]
Stamped(h, source) ==
    [kind |-> h.kind, stage |-> h.stage, real |-> h.real, at |-> h.at,
     source |-> source, stamp |-> clock]

Tick ==
    /\ phase # "done" /\ clock < MaxClock
    /\ clock' = clock + 1
    /\ UNCHANGED <<stageVars, trace, open, merged, happened, sighted>>

BeginStage ==
    /\ phase = "between" /\ stage < MaxStages
    /\ phase' = "running"
    /\ stage' = stage + 1
    /\ UNCHANGED <<clock, trace, open, merged, ended, leftover, happened, sighted>>

\* A sensitive file is read: a line of the trace.
Read ==
    /\ phase = "running" /\ Room
    /\ trace' = Append(trace, Now("read", stage))
    /\ happened' = happened + 1
    /\ UNCHANGED <<stageVars, clock, open, merged, sighted>>

\* A connection: a line of the trace, and the sinkhole gets it, unless its
\* mode is off. A container that outlived its stage connects too; its log is
\* not read any more.
Connect(s) ==
    /\ phase # "done" /\ Room
    /\ \/ /\ s = stage /\ phase = "running"
          /\ trace' = Append(trace, Now("connect", s))
          /\ open' \in {open, open \cup {Now("connect", s)}}
       \/ /\ s \in leftover
          /\ open' = open \cup {Now("connect", s)}
          /\ UNCHANGED trace
    /\ happened' = happened + 1
    /\ UNCHANGED <<stageVars, clock, merged, sighted>>

\* The sinkhole has read the request and records it.
Capture(c) ==
    /\ phase # "done"
    /\ open' = open \ {c}
    /\ merged' = Append(merged, Stamped(c, "sinkhole"))
    /\ UNCHANGED <<stageVars, clock, trace, happened, sighted>>

\* sitecustomize.py logs that the whole environment was walked through.
BulkAccess(s) ==
    /\ phase # "done" /\ Room
    /\ (s = stage /\ phase = "running") \/ s \in leftover
    /\ merged' = Append(merged, Stamped(Now("bulk", s), "instrumentation"))
    /\ happened' = happened + 1
    /\ UNCHANGED <<stageVars, clock, trace, open, sighted>>

\* A round of the sampler that counts a sandbox process; one that counts none
\* leaves no sample.
Sample ==
    /\ phase # "done" /\ Room /\ stage > 0
    /\ phase = "running" \/ leftover # {}
    /\ merged' = Append(merged, Stamped(Now("sample", stage), "host"))
    /\ happened' = happened + 1
    /\ sighted' = sighted \cup leftover
    /\ UNCHANGED <<stageVars, clock, trace, open>>

\* The stage's result is stamped, then its log is read. A container may live on
\* when its stage ran out of time.
EndStage ==
    /\ phase = "running"
    /\ phase' = "between"
    /\ ended' = Append(ended, Len(merged))
    /\ merged' = merged \o [i \in DOMAIN trace |-> Stamped(trace[i], "gvisor")]
    /\ trace' = <<>>
    /\ leftover' \in {leftover, leftover \cup {stage}}
    /\ UNCHANGED <<stage, clock, open, happened, sighted>>

LeftoverExits(s) ==
    /\ phase # "done"
    /\ leftover' = leftover \ {s}
    /\ UNCHANGED <<phase, stage, ended, clock, trace, open, merged, happened, sighted>>

Finish ==
    /\ phase = "between" /\ stage = MaxStages
    /\ phase' = "done"
    /\ UNCHANGED <<stage, clock, trace, open, merged, ended, leftover, happened, sighted>>

CorrelationNext ==
    \/ Tick \/ BeginStage \/ Read \/ Sample \/ EndStage \/ Finish
    \/ \E s \in Stages : Connect(s) \/ BulkAccess(s)
    \/ \E s \in leftover : LeftoverExits(s)
    \/ \E c \in open : Capture(c)

CorrelationSpec == CorrelationInit /\ [][CorrelationNext]_correlationVars

---------------------------------------------------------------------------
(* The signals, computed from the merged list.                              *)

Places(kind) == {i \in DOMAIN merged : merged[i].kind = kind}
Gap(a, b) == merged[b].stamp - merged[a].stamp

\* Mistake: the nearest in time, before or after.
CandidatesAround(a, kind) ==
    {b \in Places(kind) : b # a /\ Gap(a, b) <= Window}

\* The events of a kind an event can be paired with: not earlier, and inside
\* the window.
Candidates(a, kind) ==
    {b \in Places(kind) : a < b /\ Gap(a, b) <= Window}

\* Mistake: of candidates equally near the last.
NearestLast(a, kind) == Max(Candidates(a, kind))

\* The one _time_near takes: the first of those with the least gap.
Nearest(a, kind) == Min(Candidates(a, kind))

\* _time_near: places <<a, b>>
TimeNear(kindA, kindB) ==
    {<<a, Nearest(a, kindB)>> : a \in {x \in Places(kindA) : Candidates(x, kindB) # {}}}

\* Mistake: only samples up to the next stage's end count.
SampledBeforeNext(s) ==
    \E i \in Places("sample") : i > ended[s] /\ (s < Len(ended) => i <= ended[s + 1])

\* Samples taken after the stage finished
SampledAfter(s) == \E i \in Places("sample") : i > ended[s]

\* build_timing_signals
Residual == {s \in DOMAIN ended : SampledAfter(s)}

---------------------------------------------------------------------------
(* What the signals keep of the true order.                                 *)

Traced(i) == merged[i].source = "gvisor"
AllPairs == TimeNear("read", "connect") \cup TimeNear("bulk", "connect")

\* A pair with something out of a trace, which is stamped when its stage has
\* ended: two traced events are paired in the order they happened in, and
\* something stamped at once is not paired with what an earlier stage did. (A
\* capture is only known to be recorded later: its connection can be older.)
PairsAreCausal ==
    \A p \in AllPairs : Traced(p[2]) =>
        LET a == merged[p[1]]  b == merged[p[2]]
        IN  IF Traced(p[1]) THEN a.real < b.real ELSE a.stage <= b.stage

\* A read with a later connection in its own stage's trace is paired with a
\* connection of its own stage, the first one after it.
ReadFindsItsConnect ==
    \A r \in Places("read") :
        LET own == {c \in Places("connect") : Traced(c) /\ merged[c].stage = merged[r].stage /\ r < c}
        IN  own # {} => <<r, Min(own)>> \in TimeNear("read", "connect")

\* A stage whose container the sampler saw after the stage had ended is
\* reported, however many stages later that was.
SightedIsResidual == sighted \subseteq Residual

---------------------------------------------------------------------------
(* What the comments say.                                                   *)

\* signals.py on captures: they take part in every file<->network correlation
\* for free. A capture of a connection made after a read, in its stage and
\* inside the window, can be paired with the read.
CapturesJoinReads ==
    \A r \in Places("read"), c \in Places("connect") :
        /\ merged[c].source = "sinkhole"
        /\ merged[r].stage = merged[c].stage /\ merged[r].real < merged[c].real
        /\ merged[c].stamp - merged[r].at \in 0..Window
        => c \in Candidates(r, "connect")

\* _time_near on traced events: pairing them degrades to "same stage".
TracedPairsShareStage ==
    \A p \in TimeNear("read", "connect") :
        Traced(p[1]) /\ Traced(p[2]) => merged[p[1]].stage = merged[p[2]].stage

\* build_timing_signals calls what it reports residual: processes of the stage
\* that outlived it.
ResidualOutlived ==
    [][\A s \in Residual' \ Residual : s \in leftover]_correlationVars
=============================================================================
