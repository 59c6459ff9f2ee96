----------------------------- MODULE SharedHost -----------------------------
(***************************************************************************)
(* What analyses share on the host besides docker, in the order in which    *)
(* analyze_package (backend/app/package.py) uses it:                        *)
(*   - the cached list of top packages (registry.py), written in place and   *)
(*     trusted for a week;                                                  *)
(*   - the bpftrace processes (EbpfCollector of collectors.py), which every  *)
(*     stop tries to end by name, and which may end by themselves;          *)
(*   - the cached build backends (ensure_build_backends_cached), a directory *)
(*     of wheels that counts as complete as soon as anything is in it.       *)
(* The service may die and be started again; what is on disk stays, and so   *)
(* do the tracers, which run as root.                                       *)
(***************************************************************************)
EXTENDS Naturals, FiniteSets

CONSTANTS
    Analyses,
    Backends,    \* _BUILD_BACKEND_PACKAGES, all for one version of Python
    NoBackend,   \* pip is not writing any
    MaxCrashes   \* bound: deaths of the service

ASSUME BackendsAssumption == NoBackend \notin Backends /\ Backends # {}
ASSUME CrashesAssumption == MaxCrashes \in Nat

VARIABLES
    pc,          \* the place of each analysis
    list,        \* top-pypi-packages.json: "absent", "good", or "unreadable"
    fresh,       \* it is younger than the time it is trusted for
    body,        \* what the last successful response to an analysis held
    verdict,     \* the status typosquat_check returned
    cache,       \* each backend's wheel in the cache: "absent", "partial", "whole"
    writing,     \* the wheel an analysis's pip is writing
    listed,      \* the wheels ensure_build_backends_cached returned
    usable,      \* those of them that were whole when they were copied
    tracer,      \* the analysis's bpftrace: "none", "running", "ended"; "none"
                 \* also if it is not installed or its start failed
    status,      \* EbpfCollector.status
    crashes

\* What happened, kept for the properties only.
VARIABLES
    everGood,    \* a complete list was once in place
    spoilt,      \* the list was left unreadable by a response, a crash or a disk
    excused,     \* analyses that had themselves a reason to read no list
    cut,         \* a pip was cut short while it wrote a wheel, or between two
    hindered,    \* analyses that had themselves a reason to find no full cache
    met,         \* met[a]: whose stop fell into the tracing of a
    quit,        \* analyses whose tracer ended by itself
    spared       \* whose stop did not end the tracers, or who died, since a pkill
                 \* last did

listVars == <<list, fresh, body, verdict, everGood, spoilt, excused>>
cacheVars == <<cache, writing, listed, usable, cut, hindered>>
tracerVars == <<tracer, status, met, quit, spared>>
sharedVars == <<pc, listVars, cacheVars, tracerVars, crashes>>

Places == {"idle", "list", "fetch", "write", "writing", "read", "collect",
           "backends", "pip", "copy", "stages", "wheel", "drain", "done", "dead"}

ListTypes ==
    /\ list \in {"absent", "good", "unreadable"}
    /\ fresh \in BOOLEAN
    /\ body \in [Analyses -> {"none", "good", "unreadable"}]
    /\ verdict \in [Analyses -> {"none", "judged", "unavailable"}]
    /\ everGood \in BOOLEAN /\ spoilt \in BOOLEAN
    /\ excused \subseteq Analyses

CacheTypes ==
    /\ cache \in [Backends -> {"absent", "partial", "whole"}]
    /\ writing \in [Analyses -> Backends \cup {NoBackend}]
    /\ listed \in [Analyses -> SUBSET Backends]
    /\ usable \in [Analyses -> SUBSET Backends]
    /\ cut \in BOOLEAN
    /\ hindered \subseteq Analyses

TracerTypes ==
    /\ tracer \in [Analyses -> {"none", "running", "ended"}]
    /\ status \in [Analyses -> {"not started", "unavailable", "tracing", "success", "failed"}]
    /\ met \in [Analyses -> SUBSET Analyses]
    /\ quit \subseteq Analyses /\ spared \subseteq Analyses

SharedTypeOK ==
    /\ pc \in [Analyses -> Places]
    /\ ListTypes /\ CacheTypes /\ TracerTypes
    /\ crashes \in 0..MaxCrashes

ListInit ==
    /\ list = "absent" /\ fresh = FALSE
    /\ body = [a \in Analyses |-> "none"]
    /\ verdict = [a \in Analyses |-> "none"]
    /\ everGood = FALSE /\ spoilt = FALSE /\ excused = {}

CacheInit ==
    /\ cache = [b \in Backends |-> "absent"]
    /\ writing = [a \in Analyses |-> NoBackend]
    /\ listed = [a \in Analyses |-> {}]
    /\ usable = [a \in Analyses |-> {}]
    /\ cut = FALSE /\ hindered = {}

TracerInit ==
    /\ tracer = [a \in Analyses |-> "none"]
    /\ status = [a \in Analyses |-> "not started"]
    /\ met = [a \in Analyses |-> {}]
    /\ quit = {} /\ spared = {}

SharedInit ==
    /\ pc = [a \in Analyses |-> "idle"]
    /\ ListInit /\ CacheInit /\ TracerInit
    /\ crashes = 0

Goto(a, from, to) == pc[a] = from /\ pc' = [pc EXCEPT ![a] = to]

---------------------------------------------------------------------------
(* The list of top packages: _load_top_packages and typosquat_check, inside *)
(* _safe_call, which turns whatever is raised into "unavailable".           *)

OtherVarsOfList == <<cacheVars, tracerVars, crashes>>

Begin(a) == Goto(a, "idle", "list") /\ UNCHANGED <<listVars, OtherVarsOfList>>

\* A week goes by.
ListAges ==
    /\ fresh /\ fresh' = FALSE
    /\ UNCHANGED <<pc, list, body, verdict, everGood, spoilt, excused, OtherVarsOfList>>

CheckList(a) ==
    /\ Goto(a, "list", IF list # "absent" /\ fresh THEN "read" ELSE "fetch")
    /\ UNCHANGED <<listVars, OtherVarsOfList>>

\* Mistake: the response is written before its status is looked at.
FetchUnchecked(a) ==
    /\ Goto(a, "fetch", "write")
    /\ body' \in {[body EXCEPT ![a] = b] : b \in {"none", "good", "unreadable"}}
    /\ UNCHANGED <<list, fresh, verdict, everGood, spoilt, excused, OtherVarsOfList>>

\* A response with a good status may still hold something else than the list;
\* an error of any kind leaves the file as it is.
FetchList(a) ==
    /\ \/ /\ Goto(a, "fetch", "write")
          /\ \E b \in {"good", "unreadable"} : body' = [body EXCEPT ![a] = b]
          /\ UNCHANGED excused
       \/ /\ Goto(a, "fetch", "read")
          /\ excused' = IF everGood THEN excused ELSE excused \cup {a}
          /\ UNCHANGED body
    /\ UNCHANGED <<list, fresh, verdict, everGood, spoilt, OtherVarsOfList>>

\* write_text first opens the file, which empties it.
OpenList(a) ==
    /\ Goto(a, "write", "writing")
    /\ list' = "unreadable" /\ fresh' = TRUE
    /\ UNCHANGED <<body, verdict, everGood, spoilt, excused, OtherVarsOfList>>

WriteList(a) ==
    /\ Goto(a, "writing", "read")
    /\ list' = IF body[a] = "good" THEN "good" ELSE "unreadable"
    /\ fresh' = TRUE
    /\ everGood' = (everGood \/ body[a] = "good")
    /\ spoilt' = (body[a] = "unreadable")
    /\ UNCHANGED <<body, verdict, excused, OtherVarsOfList>>

\* The disk is full, before or after the file was emptied: not an HTTPError.
WriteFails(a) ==
    /\ pc[a] \in {"write", "writing"} /\ Goto(a, pc[a], "collect")
    /\ verdict' = [verdict EXCEPT ![a] = "unavailable"]
    /\ excused' = excused \cup {a}
    /\ spoilt' = (spoilt \/ pc[a] = "writing")
    /\ UNCHANGED <<list, fresh, body, everGood, OtherVarsOfList>>

ListWriters(a) == {b \in Analyses \ {a} : pc[b] = "writing"}

ReadList(a) ==
    /\ Goto(a, "read", "collect")
    /\ verdict' = [verdict EXCEPT ![a] = IF list = "good" THEN "judged" ELSE "unavailable"]
    /\ excused' = IF ListWriters(a) # {} \/ spoilt THEN excused \cup {a} ELSE excused
    /\ UNCHANGED <<list, fresh, body, everGood, spoilt, OtherVarsOfList>>

---------------------------------------------------------------------------
(* bpftrace.                                                                *)

Tracers == {a \in Analyses : tracer[a] = "running"}

OtherVarsOfTracer == <<listVars, cacheVars, crashes>>

\* Mistake: start() clears away tracers an earlier analysis may have left.
StartTracerAlone(a) ==
    /\ \E next \in {"backends", "wheel"} : Goto(a, "collect", next)
    /\ tracer' = [b \in Analyses |-> IF b = a THEN "running"
                                     ELSE IF b \in Tracers THEN "ended" ELSE tracer[b]]
    /\ status' = [status EXCEPT ![a] = "tracing"]
    /\ UNCHANGED <<met, quit, spared, OtherVarsOfTracer>>

\* Not installed or not to be started, or started; a wheel needs no build and no
\* backends.
StartTracer(a) ==
    /\ \E next \in {"backends", "wheel"} : Goto(a, "collect", next)
    /\ \/ /\ tracer' = [tracer EXCEPT ![a] = "running"]
          /\ status' = [status EXCEPT ![a] = "tracing"]
       \/ /\ status' = [status EXCEPT ![a] = "unavailable"]
          /\ UNCHANGED tracer
    /\ UNCHANGED <<met, quit, spared, OtherVarsOfTracer>>

\* sudo is refused, or bpftrace meets an error: nobody looks before stop().
TracerQuits(a) ==
    /\ a \in Tracers
    /\ tracer' = [tracer EXCEPT ![a] = "ended"]
    /\ quit' = quit \cup {a}
    /\ UNCHANGED <<pc, status, met, spared, OtherVarsOfTracer>>

\* pkill -x bpftrace ends them all, or, if it fails or cannot be run, none: its
\* exit status is not read.
Pkill(a) ==
    /\ tracer' = [b \in Analyses |-> IF b \in Tracers THEN "ended" ELSE tracer[b]]
    /\ met' = [b \in Analyses |-> IF b \in Tracers \ {a} THEN met[b] \cup {a} ELSE met[b]]
    /\ spared' = {}

PkillFails(a) == spared' = spared \cup {a} /\ UNCHANGED <<tracer, met>>

\* The status is made of the exit code and of what was printed: a tracer that
\* another ended exits as well as one that was not.
Concluded(a) == status' \in {[status EXCEPT ![a] = s] : s \in {"success", "failed"}}

\* stop() returns when the process has ended; raises on output that is no UTF-8;
\* or, five seconds later, kills sudo, which is not allowed or ends sudo only, and
\* waits again, now without a limit, for whoever still holds the pipes.
StopTracer(a) ==
    /\ pc[a] \in {"stages", "wheel"}
    /\ \/ /\ status[a] # "tracing"
          /\ Goto(a, pc[a], "done")
          /\ UNCHANGED tracerVars
       \/ /\ status[a] = "tracing"
          /\ Pkill(a) \/ PkillFails(a)
          /\ \/ Goto(a, pc[a], "done") /\ (Concluded(a) \/ UNCHANGED status)
             \/ tracer'[a] = "running" /\ Goto(a, pc[a], "drain") /\ UNCHANGED status
          /\ UNCHANGED quit
    /\ UNCHANGED OtherVarsOfTracer

\* The second communicate().
DrainTracer(a) ==
    /\ tracer[a] = "ended"
    /\ Goto(a, "drain", "done")
    /\ Concluded(a) \/ UNCHANGED status
    /\ UNCHANGED <<tracer, met, quit, spared, OtherVarsOfTracer>>

---------------------------------------------------------------------------
(* The build backends.                                                      *)

OtherVarsOfCache == <<listVars, tracerVars, crashes>>
InCache == {b \in Backends : cache[b] # "absent"}
Downloaders(a) == {b \in Analyses \ {a} : pc[b] = "pip"}

\* What the function returns, and who else was filling the directory.
ListCache(a, ownFailed) ==
    /\ listed' = [listed EXCEPT ![a] = InCache]
    /\ hindered' = IF ownFailed \/ Downloaders(a) # {} THEN hindered \cup {a} ELSE hindered

\* Mistake: the directory's existence is looked at, which mkdir has just made.
CheckCacheExists(a) ==
    /\ Goto(a, "backends", "copy") /\ ListCache(a, FALSE)
    /\ UNCHANGED <<cache, writing, usable, cut, OtherVarsOfCache>>

\* any(iterdir()): whatever is there is taken for everything.
CheckCache(a) ==
    /\ \/ InCache # {} /\ Goto(a, "backends", "copy") /\ ListCache(a, FALSE)
       \/ InCache = {} /\ Goto(a, "backends", "pip") /\ UNCHANGED <<listed, hindered>>
    /\ UNCHANGED <<cache, writing, usable, cut, OtherVarsOfCache>>

\* pip resolves everything first, then puts the wheels there one by one,
\* passing over those that are there.
PipOpens(a) ==
    /\ pc[a] = "pip" /\ writing[a] = NoBackend
    /\ \E b \in Backends \ InCache :
          /\ cache' = [cache EXCEPT ![b] = "partial"]
          /\ writing' = [writing EXCEPT ![a] = b]
    /\ UNCHANGED <<pc, listed, usable, cut, hindered, OtherVarsOfCache>>

PipCloses(a) ==
    /\ pc[a] = "pip" /\ writing[a] # NoBackend
    /\ cache' = [cache EXCEPT ![writing[a]] = "whole"]
    /\ writing' = [writing EXCEPT ![a] = NoBackend]
    /\ UNCHANGED <<pc, listed, usable, cut, hindered, OtherVarsOfCache>>

PipEnds(a) ==
    /\ writing[a] = NoBackend /\ InCache = Backends
    /\ Goto(a, "pip", "copy")
    /\ ListCache(a, FALSE)
    /\ UNCHANGED <<cache, writing, usable, cut, OtherVarsOfCache>>

\* Mistake: a listing that cannot be read yields a name that is no wheel.
PipFailsListsNone(a) ==
    /\ Goto(a, "pip", "copy")
    /\ writing' = [writing EXCEPT ![a] = NoBackend]
    /\ listed' = [listed EXCEPT ![a] = InCache \cup {NoBackend}]
    /\ hindered' = hindered \cup {a}
    /\ cut' = (cut \/ InCache # {})
    /\ UNCHANGED <<cache, usable, OtherVarsOfCache>>

\* It finds no version of some backend, or no network: nothing is written. Or
\* its 120 seconds are over, and it is killed wherever it is.
PipFails(a) ==
    /\ Goto(a, "pip", "copy")
    /\ writing' = [writing EXCEPT ![a] = NoBackend]
    /\ ListCache(a, TRUE)
    /\ cut' = (cut \/ InCache # {})
    /\ UNCHANGED <<cache, usable, OtherVarsOfCache>>

CopyWheels(a) ==
    /\ Goto(a, "copy", "stages")
    /\ usable' = [usable EXCEPT ![a] = {b \in listed[a] : cache[b] = "whole"}]
    /\ UNCHANGED <<cache, writing, listed, cut, hindered, OtherVarsOfCache>>

---------------------------------------------------------------------------
\* The service dies with everything it does; files and tracers are left.
Crash ==
    /\ crashes < MaxCrashes
    /\ crashes' = crashes + 1
    /\ pc' = [a \in Analyses |-> IF pc[a] \in {"idle", "done"} THEN pc[a] ELSE "dead"]
    /\ writing' = [a \in Analyses |-> NoBackend]
    /\ spoilt' = (spoilt \/ \E a \in Analyses : pc[a] = "writing")
    /\ cut' = (cut \/ (InCache # {} /\ \E a \in Analyses : pc[a] = "pip"))
    /\ spared' = spared \cup Tracers
    /\ UNCHANGED <<list, fresh, body, verdict, everGood, excused,
                   cache, listed, usable, hindered, tracer, status, met, quit>>

OfAnalysis(a) ==
    \/ Begin(a) \/ CheckList(a) \/ FetchList(a) \/ OpenList(a) \/ WriteList(a)
    \/ WriteFails(a) \/ ReadList(a) \/ StartTracer(a) \/ CheckCache(a) \/ PipOpens(a)
    \/ PipCloses(a) \/ PipEnds(a) \/ PipFails(a) \/ CopyWheels(a)
    \/ TracerQuits(a) \/ StopTracer(a) \/ DrainTracer(a)

SharedNext == ListAges \/ Crash \/ \E a \in Analyses : OfAnalysis(a)

SharedSpec == SharedInit /\ [][SharedNext]_sharedVars

---------------------------------------------------------------------------
(* Properties.                                                              *)

\* typosquat_check says nothing of similar names only to an analysis that could
\* not write the list, or could not fetch it when nobody ever had it, or read it
\* while another wrote it, or read what a response, a crash or a full disk had
\* left: in particular a failed fetch falls back on the list of last week.
NoVerdictHasCause == \A a \in Analyses : verdict[a] = "unavailable" => a \in excused

\* An analysis that builds gets every backend whole unless its own pip failed,
\* another was filling the cache as it looked, or a pip was cut short once.
ShortCacheHasCause ==
    \A a \in Analyses : pc[a] = "stages" /\ usable[a] # Backends => a \in hindered \/ cut

\* A tracer that ends before its analysis is done ended by itself or by the stop
\* of another analysis that traced too. And none runs on behind an analysis that
\* is done or dead, but one whose own stop failed to end it, or whose service
\* died; that one, too, is gone after the next stop that does end the tracers.
TracerEndsByStop ==
    \A a \in Analyses :
        /\ tracer[a] = "ended" /\ pc[a] # "done" => met[a] # {} \/ a \in quit
        /\ tracer[a] = "running" /\ pc[a] \in {"done", "dead"} => a \in spared

---------------------------------------------------------------------------
(* What the comments say; no run checks it.                                 *)

\* The docstring of ensure_build_backends_cached: an empty or partial cache
\* costs that one analysis. A cut download costs every later one.
PartialCostsOne ==
    \A a \in Analyses : pc[a] = "stages" /\ usable[a] # Backends => a \in hindered

\* README: a collector that lacks something says so. One that was ended by
\* another analysis says "success".
SuccessTracedAll == \A a \in Analyses : status[a] = "success" => met[a] = {}
=============================================================================
