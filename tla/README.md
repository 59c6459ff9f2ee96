# Formal model of the PyPI dynamic analysis service

This directory holds a TLA+ model of the service in `backend/app` and
`frontend/index.html`: a web service that downloads a PyPI package, runs it
stage by stage in sandboxed containers whose network ends in a sinkhole, and
writes a report. The modules are translated from the source. TLC checks them on
small instances, and TLAPS proves all the safety properties for every value of
the constants. `PROJECT.json` ties every
definition to the lines it models, lists the runs, one mutated definition for
each property, the hazards and the theorems.

    tlc -config MCPipeline.cfg MCPipeline   # one run
    tlapm Pipeline_proofs.tla               # one set of proofs (the modules *_proofs)

## The system

| Part | Source | State | Operations |
|---|---|---|---|
| Job service | `main.py`, `storage.py` | `jobs` dict, thread pool of two, `data/analyses/<id>/` | POST, upload, DELETE, GET one, GET list, a worker's run |
| Analysis pipeline | `package.py`, `sandbox.py` | locals of `analyze_package`: mode, stages, collectors, report | resolve, download, inspect, prepare, up to seven sandboxed stages, finally, report |
| Sinkhole lifecycle | `sinkhole.py` | the object's flags; docker network, listening sockets, NAT chain and PREROUTING rule on the host | `start()`, `stop()` |
| Sinkhole serving | `sinkhole.py` | certificate files and cache, captures, one lock, a thread per connection | accept, handshake, request, capture, `records()` |
| gVisor trace collector | `collectors.py` | `seen`; one log directory for the whole host | `mark()`, `collect()` |
| Other collectors | `collectors.py` | snapshots, a sampler thread, tcpdump, bpftrace | start, stop |
| Caches of the host | `registry.py`, `package.py` | the list of top packages, a directory of build backends per Python version | look, fetch, write, read |
| Packet decoding | `pcap_tls.py`, `sinkhole.py` | none: functions of bytes | answer a DNS query, read DNS answers and ClientHellos |
| Signals | `signals.py` | none: functions of the event list, the snapshots and the samples | correlations, timing, file system, process, env, network |
| Dashboard | `frontend/index.html` | rows shown, poll timer | submit, poll |
| Registry, static scan | `registry.py`, `static_scan.py` | none but the cached list | similar names, releases, comparison of releases, source scan, HTTP requests |
| Analyzer | `analyzer.py` | none: a function of the event list | findings, score, severity, chain |
| Instrumentation, CLI | `instrumentation.py`, `dast` | none | events of hooks; one request |

How they interact. A POST enters an analysis in `jobs` and submits it to the
pool. The worker calls `analyze_package`, which calls back into `main.py` at
every stage (`on_stage`, which trips over an entry a DELETE removed), starts a
`Sinkhole` if the request says so, decides from its outcome which docker
network the stages get, runs each stage as a docker client with a time limit,
and stops the collectors and the sinkhole in a `finally`. Containers, the
daemon, the gVisor logs, the host's NAT table, its bpftrace processes and two
caches on disk are shared with every other analysis. The report is written in place to a file that the list and detail
requests read at the same time; the page polls the list.

What makes it hard:

- A timeout kills the docker client and not the container, so sandboxed code
  can outlive its stage, the sinkhole and the report.
- Every command of `start()` and `stop()` can fail, or raise with or without
  its effect, and `stop()` reads no exit code. An exception of one stop in the
  `finally` keeps the next from being called.
- What is stopped need not be over: the sampler is joined for two seconds, and a
  `pkill` that fails leaves bpftrace to outlive its `sudo`.
- Requests, workers, handler threads and deletes share a dict, files and a lock
  that covers only some of it.
- The list request reads two things one after the other that change together.
- Logs are attributed to stages by which files were there before, in a
  directory other analyses write to.
- Both caches are filled in place and looked at without a lock; a stop ends
  processes by name, those of other analyses too.
- A capture ends anywhere, and Python's slices end silently where its indexing
  raises; pids and paths of different sandboxes are joined as if of one.
- Events are stamped by several clocks, some only when a stage is over, and the
  signals are about their order.

`PROJECT.json` lists 40 such hazards, each at its line with the properties that
cover it.

## Modules

**Sinkhole** (with `MCSinkhole`). One value of each variable per analysis.
`step` is the place inside `start()` or `stop()`; one action per command. An
outcome is one of `ok`, `fail`, `lost` (it raised, without the effect), `late`
(it raised after the effect). `chain` says how much of the NAT chain exists,
`rules` which entry rules, `beneath` which rules were already there when one
was put at the head: PREROUTING is ordered, docker gives ranges again, and a
leftover rule may match a later network. `_run` raises through `start()`
("raised"), a failed check ends in `_cleanup_partial` ("refused"). The serving
loops and containers on the network are actions of their own.

**Pipeline** (with `MCPipeline`) extends Sinkhole. `pc` is the place in `analyze_package`; a step of
the sinkhole is taken while the pipeline is inside `start()` or `stop()`.
`client` is the docker client a worker waits for, and the containers alive are
those attached to the sinkhole's network and those `elsewhere`; `TimeoutStage`
clears the first and not the second. `helpers` are the sampler thread, tcpdump
and bpftrace, and what may become of them: a sampler that outlives its join
(`LateHost`), a bpftrace that ended by itself (`EndedEbpf`) or that its own
`pkill` did not end (`SparedEbpf`). For the last, `stop()` kills the `sudo`,
which raises if that is not allowed, and waits again without a limit (`drain`).
A `stop()` returns or raises (`ReturnOrRaise`); after a raise the stops that
follow are not made (`flawed`). `tracked` is the list of stages in the report. Exceptions go the
way the code has them: inside the `try` through the finally clause to the
failed report, outside it ("lost") out of the call.

**Lifecycle** and **JobService**. Lifecycle is what a client that keeps asking
for one analysis may be told: queued, running, unreadable while the report is
written, final; it can vanish, and one that vanished before its run was over can
come back once, with its report. JobService is the code, step by step as threads
can interleave: one operation on the dict or one on the disk each.
`ImplementsLifecycle` instantiates the first with what GET answers (`Visible`)
and how far the run is (`RunOf`).

**Dashboard** extends JobService with a list request that is a loop over the
directory followed by a read of `jobs`, and with the page: its rows, its timer,
and the reload after a submission.

**StraceCollector**. Logs are sequences of kinds of lines, each worth a number of
events. Containers are made by the daemon, perhaps after their client was
killed, write, and exit by themselves; an operator may empty the directory.
`Others` are analyses of which only a container matters, and it may be made at
any time.

**Serving**. Each connection is a thread with a place. The three files of each
host name carry whose key they hold, so a certificate matches its key or not. A
failed openssl command leaves each file old, empty or, the key, written. The end
of the analysis (stop, status, the logs and the pcap, records, count, list) goes
on next to handlers that are still open; the commands of `stop()` and what lies
between the status and the records can raise, and then no records are read.

**Correlation**. What the sandboxed code does has a place in the true order; the
merged event list has the order of stamps. Traced events are stamped when the
stage's log is read, captures when recorded, hook events at once, samples when
counted. The signals are operators on that list.

**FilesystemSignals**. The workspace has a host and a container name. Snapshots
skip unreadable files ("hidden"), and raise at one whose directory can be listed
and not searched ("shut"), which fails the analysis. The trace has opens for
writing and chmods up to the limit, and no renames. An open is classified in the
order of the code: a sensitive path first (`Sensitive`), then a probe
(`Evasive`), then what the filter takes for ours (`TraceSkips`), then a write
outside; and its path is the first in the text of the call, that of the directory
it was made from unless that is the root. The filters look for substrings, so
`TraceSkips` and `DiffSkips` are sets of paths of their own, not the files
that are `Own`. The signals are operators on snapshots and trace.

**SharedHost** is what analyses share besides docker. `pc` is the place of an
analysis in the order in which `analyze_package` comes to the three: the list of
top packages (`list`, `fresh`; opening the file to write empties it), bpftrace
(`tracer` is the process, `status` what the collector says of it; a tracer can
quit by itself, a `pkill` can fail unread, a stop can raise or wait for good), and the build
backends (`cache`, one value per wheel; what is `listed` is not always
`usable`). A crash ends every analysis and leaves files and tracers. The
variables "kept for the properties only" record causes: `excused`, `hindered`,
`cut`, `spoilt`, `met`, `quit`, `spared`.

**Packets**, **ProcessTree**, **Reputation**, **Analyzer** are the host's computations on
evidence as operators: bytes of DNS messages and ClientHellos with the places
where Python's slices and indexing end; the process tree with its circles of
parents; edit distance, similar name, history of releases, release before and
comparison; the analyzer's rules and score. Loops and recursion of the code are
recursive functions: of a place in a message, of the number of records read, of
the pids seen on a walk. **Evidence** calls each of them once
on every small input, and holds the result against a definition made in another
way: labels that lead from one to the next, edits put into a name one by one,
records of known length. Bytes are scaled down so that every byte of the
question can be tried: a pointer starts at 3 instead of 192.

**Pipeline_proofs** (the sinkhole's theorems too), **JobService_proofs** (the
dashboard's too), **StraceCollector_proofs**, **Serving_proofs**,
**FilesystemSignals_proofs**, **SharedHost_proofs**, **Correlation_proofs** and
**Evidence_proofs** hold the theorems.

## Runs

Ten runs pass and two show disagreements. Deadlock is not checked anywhere:
each system may legitimately stop (an analysis ends, a service is not asked for
anything).

| Run | Instance | What it asks |
|---|---|---|
| `sinkhole` | 2 sinkholes, 2 ranges, 1 container name, symmetric | Does an active sinkhole rewrite its own network whatever others left behind? What is left after giving up, and after a clean stop? |
| `pipeline` | 1 run, a request for the sinkhole or one for each other network with an upload or a command, no probes, fair worker | Where can code run, and behind what? Is everything given back when the report is made? Is the report honest about the network, and about containers still alive? Is every step one the sinkhole's specification allows? Does a run end although containers hang, and its serving loops with it? |
| `job_service` | 2 analyses (one an upload), 1 worker, 1 restart, fair | Do dict and disk agree? Can a deleted analysis come back, and as what? Is every accepted analysis settled? Does the service implement Lifecycle? |
| `dashboard` | 1 analysis, 1 restart, fair | What may a list leave out? Does a stale row go? |
| `strace_collector` | 1 followed analysis of 2 stages and 1 foreign container, logs of 2 lines, limit 2, 1 emptying | Is every line of a finished stage read once, and none lost without a reason? Which foreign logs can get in? |
| `serving` | 2 connections, a name or none, fair | Is a connection without trouble of its own captured exactly once? Do the four readings of the captures agree? Does the analysis get its records, or an exception before it asks for them, although the lock is held across openssl? |
| `correlation` | 2 stages, 3 happenings, 2 seconds, window 1 | Which order do pairs keep? Does a read find its connection? Are survivors that were sampled reported? |
| `filesystem_signals` | 1 file in each filter alone or in both, 3 directories, 4 steps, limit 2 | Is a dropped file that is still there listed, and one that is not, if the trace has its open in its own name? |
| `shared_host` | 2 analyses, 2 backends, 1 crash, symmetric | Who gets no verdict on similar names, a cache that is short, a tracer that ended early or runs on: only those with a cause? |
| `evidence` | questions of 7 bytes over 4 values; 2 records cut at every byte; ClientHellos cut at every byte; 3 pids, 3 execs and 3 forks; names of 3; 4 releases of which 2 are kept; 3 events of each kind and stage | Which queries are answered, and does the host's own decoder read the answer? What do a cut capture and a cut ClientHello yield? Are depths those of the parents, circles included? Is the nearest name found, and the release before? Does a verdict follow from what was done, wherever it was done? |
| `outcome_shown`, `exec_drop_flagged` | as `dashboard`, `filesystem_signals` | See *Disagreements*. |

Why the bounds are enough to be interesting. Two sinkholes are the least for a
leftover rule and a reused range, or for two ranges side by side; a third adds
only another rule for the same range. In the pipeline, one run has the whole of
`analyze_package`; several are covered by the proofs, which hold for any number.
An upload or a command to execute changes which stages there are and nothing of
the sinkhole, so `MCPipeline` combines them with the other three networks; the
proofs are for any set of requests.
One worker and two analyses make one wait for the other. Two stages are the
least for something of one to be taken for the next; two connections for
sharing files or racing the readings. A probe is one more stage of the
kind `import` and `execute` are already; the proofs of Pipeline allow up to
three. Two analyses are enough for a cache: one that writes, one that looks. In
`filesystem_signals` the files are one no filter knows, a downloaded wheel, a
sensitive one, a probed one and one that only shares the prefix of `site/`; two
events fill the limit and two more steps get past it. In `evidence` the sizes are those at which every length, a pointer, a circle of
three pids, two edits and a truncated history occur together. Events bounds (lines, happenings, steps)
are named in the modules as bounds and are large enough to reach each limit
modelled; every property has a mutant of the code's model that breaks it under
the same bounds. Other bounds: one DELETE of an analysis at a time, one list
request of the page at a time.

### Fairness

Only what the code drives by itself is fair. A worker thread goes on, since every
call it makes returns, raises or times out (`FairSpec`, `FairJobSpec`), but for one:
the second `communicate()` of a bpftrace that no `pkill` ended, which is a step
only when bpftrace has ended. `RunEnds` says that this is the one thing a run can
wait for, and that it ends once that is over. A serving loop polls its stop flag;
a sample of the sampler is finite; a handler's thread runs, its openssl commands end or
time out and its socket has a timeout; the page's timer fires. No fairness is
assumed for containers, tcpdump, bpftrace, clients, deletes, restarts, or when an analysis stops.
All fairness is weak. Where a step waits for a lock (`Serving`), the lock can be
taken again and again only by connections that came before the sockets were
closed, so finitely often.

## Proofs

TLAPS checks all of the following for any sets of analyses, address ranges,
pids, releases and ids, any numbers of workers, restarts, stages and events, and
questions, names and captured answers of any length. The assumptions are those named in the
modules: `SubnetAssumption` (the value for "no range" is no range),
`ContainersAssumption` and `MaxProbesAssumption` (the stages the code names, at
most three probes), `WorkersAssumption`, `UploadsAssumption`,
`RestartsAssumption`, `BackendsAssumption` (there is some backend, and "none" is
not one), `AskedAssumption` (what is asked for are requests), `PathsAssumption` (the
filters of FilesystemSignals are sets of its paths, and the root is in none),
`AnalysesAssumption`, `KindsAssumption`, `LimitAssumption`,
`NamesAssumption`, `ClientsAssumption`, `WindowAssumption`
(the window of a pair is a number of seconds), `PacketsAssumption` (the first
byte of a pointer is above 1, which is the length of the shortest label),
`KeptAssumption` (some release is kept),
`BytesAssumption` (bytes are numbers), `PidsAssumption` (the pids are finitely
many), `LettersAssumption` (the separator is no letter), `VersionsAssumption` (the versions are finitely many numbers, and "none"
is not one), and those that say that bounds are numbers.

| Module | Theorems |
|---|---|
| `Pipeline_proofs`, on Sinkhole | `SinkholeTyping`, `Rewriting`, `Refusal`, `CleanStop`, `CompleteChains` |
| `Pipeline_proofs` | `PipelineTyping`, `ImplementsSinkhole`, `BridgeNeedsFull`, `Containment`, `ReportFreesHost`, `HonestReport`, `ContainersReported` |
| `JobService_proofs` | `JobTyping`, `PublishedOnDisk`, `NothingOfDeleted`, `UnreadableMidWrite`, `LifecycleImplemented` |
| `JobService_proofs`, on Dashboard | `DashboardTyping`, `AnswerMisses` |
| `StraceCollector_proofs` | `StraceTyping`, `FinishedIsRead`, `ForeignIsConcurrent` |
| `Serving_proofs` | `ServingTyping`, `CompleteCaptured`, `ReadingsGrow` |
| `FilesystemSignals_proofs` | `FilesystemTyping`, `DropListed` |
| `SharedHost_proofs` | `SharedTyping`, `NoVerdict`, `ShortCache`, `TracerEnds` |
| `Correlation_proofs` | `CorrelationTyping`, `CausalPairs`, `ReadsPaired`, `SurvivorsReported`, `FirstIsNearest` |
| `Evidence_proofs` | `RepliesReadable`, `CaptureRight`, `CutHello`, `CutHelloRight`, `DepthsRight`, `ComparedWithPredecessor`, `DistanceIsEdits`, `NearestRight`, `VerdictSound` |

*Sinkhole.* None of the properties is inductive: that an active sinkhole
rewrites its network depends on what was installed on the way there and on
the rules of all others. `SinkholeInv` adds what is held at each step (`Held`),
that networks which exist have different ranges (`DistinctSubnets`), that from
the insertion of the rule to the call of `stop()` any other rule for the range
is beneath it (`Ranked`), what is gone as long as no removing command failed
(`Tidy`), and that a rule leads to a complete chain (`Complete`). The step that
matters is `InsertRule` of one analysis against `Ranked` of another: both would
need the same range at a time, which `DistinctSubnets` excludes.

*Pipeline.* The run asks for some requests (`Asked`); the theorems hold for any.
`PipelineInv` takes the sinkhole's invariant as it is, since every
step of the pipeline is a step of the sinkhole's specification or leaves its
variables alone (`SinkholeSteps`, from which `ImplementsSinkhole` follows).
It adds where the sinkhole can be at each place of `analyze_package`
(`InStep`), that the mode is decided once from the outcome of `start()` and
every container launched by it (`Decided`), what of the helpers can be left as the
finally clause goes on, and after one of its stops raised (`Stopped`), and whose
containers may be alive (`Tracked`). `ReportFreesHost` says what is gone at the
report and names all that can be left: a last sample; a bpftrace whose own
`pkill` failed; and, if a stop of the finally clause raised, what was to be
stopped after it.

*JobService.* `JobInv` says what is in `jobs` at each phase of the worker
(`Entry`), what is on disk (`OnDisk`: in particular, a report whose entry is
still there was not unlinked), what became of analyses deleted early
(`Deleted`), and that the queue holds each waiting submission once (`Queued`).
The refinement maps every step to a step of Lifecycle or a stutter: opening the
file is what makes the answer unreadable, writing it makes it final, popping
the entry or unlinking the file makes it vanish.

*Dashboard.* The property speaks of one place of the request, the reading of
`jobs`. `Covered` carries it there from the start of the loop: an analysis that
was neither deleted nor finished meanwhile is in flight, or its report was read,
or its report is there and yet to be looked at; and a report lies in a directory
(`HasDirectory`) whose name the request has (`Reading`). `DashInv` takes
JobService's invariant as it is.

*StraceCollector.* `ReadsTo` is the lemma on one step of a collect: it takes the
first lines of a log, for its own stage, and leaves it half read only at the
limit. Over it, `Attributed` says for which stages lines were got and that no
later collect takes a log with lines in an earlier one (`Past`), `Closed` that
the log of the running stage is not passed over and that of a stage that ended
in time is complete, and `ReadOut` that it is read or will be by the collect in
progress. `ForeignIsConcurrent` excludes the logs that were in the directory when
the collector was made, and no others: one made before a stage's mark may
still be read after it.

*Serving.* The lock is held from the cache miss to the load (`Locked`); hence
what the holder wrote is what it loads (`Certified`), and a connection has as
many captures as its place says (`Captured`). Captures are only appended to, so
every reading begins the next (`Reads`).

*FilesystemSignals.* The last snapshot is that of the disk, and of every open while
events were taken the trace has the event that the order of the filters gives it
(`Traced`): of a sensitive path, one with its text; of another opened from the root,
a write outside (`AfterOpenKeeps`). No later event takes one from it
(`TakenKeeps`, `TracedKept`).

*SharedHost.* `ListInv` says that a list once good is not taken away by a failed
fetch; `CacheInv` that a wheel in part has its writer, and a partial cache its
pip, unless one was cut short; `TracerInv` that a tracer runs only from its
start to the stop that ends it, unless that failed or the service died
(`spared`), and ends before it only by itself (`quit`) or by the stop of another
that it `met`.

*Correlation.* The signals are functions of the merged list, so the invariant
says what that list is like at any time. `CorrelationInv` has the running
stage's log, in the true order (`LogOrdered`), and no log between stages
(`Running`); what a place of the list can hold (`Placed`: a traced event is of a
stage that ended, and happened before all that the running log has); that later
places have later stamps, traced ones later stages, and two traced ones the
true order (`InOrder`); that a log lies in one piece with one stamp
(`InBlocks`); that what was sighted was sampled after its stage's end was noted
(`Sighted`); and that nothing is recorded more than twice (`Counted`, for the
types). `InOrder` alone is not inductive: the end of a stage appends a whole log
with one stamp, and only `LogOrdered` and `Placed` say that it comes after
all traced before. The first candidate of a pair is also the nearest
(`FirstIsNearest`), since stamps grow along the list; that it is of the read's own
stage when there is one follows from `InBlocks`, as nothing else can lie between.

*Evidence.* A behaviour is one call, so the invariant (`CallsAnswered`) only says
that a call's output is what the operator makes of an input enumerated. The
proofs are about the operators. They are recursive functions, and what one of
them computes at a number is proved by an induction over a *set* of numbers
(`Induction` upward, `Downward` along a message, both from `LeastExists`),
because the theorems of the library that take a predicate as a parameter cannot
be used here. Each recursive function is shown to exist first (`SumExists`,
`EndsExists`, `DecodesExists`, `ReadingExists`, `PassesExists`, `WalkExists`,
`Iterated`), which is what lets its equation be used.

- `RepliesReadable`: a message has one chain of labels, which ends at `NameEnd` if
  it ends (`NameEndIsEnd`). Of which queries are answered, the theorem is about all
  bytes. What the decoder reads in an answer, it says of names with no length at or
  above the mark of a pointer (`OnlyLabels`; 0xC0), since the sinkhole takes such
  a byte for a length and the decoder for a pointer. There the decoder follows the same labels in the reply,
  whose question is the query's (`DecodeFollows`); the record behind it has its
  bytes where the decoder looks (`ReplyBytes`, `RecordIsRead`); and a question that
  is not one of an address has no record to read (`BareReplyIsRead`).
- `CaptureRight`: the records of a message lie one behind the other
  (`MessageParts`, `RecordsPlaced`), in what a cut leaves of it too (`CutLies`). Of an
  owner, spelt out or a pointer, the decoder gets the name or runs off the end of
  the message, and in both cases knows where the record goes on (`OwnerIsRead`). So a
  record is taken if and only if the ten bytes behind its owner are there
  (`RecordIsTaken`), with the address it has or with fewer than four bytes of it
  (`AddressTaken`), which is no address of a connection. The induction is over the
  records that are left (`OneMoreRead`, `RecordsRead`): what is read from where record
  c + 1 begins are the addresses of the records behind c whose data is begun, and where
  reading stops nothing further on is begun (`DataFurther`).
- `CutHelloRight`: the bytes of a ClientHello are located list by list (`HelloBytes`,
  `ExtensionBytes`), and the walk over the extensions passes at most one before it
  comes to the name's (`CutHello`, which holds for a name of any bytes; the property
  speaks of the names the run enumerates).
- `DepthsRight`: `Ancestors` are the nodes above one, as the least set that the
  parents do not leave. What is known of the depths at any time follows the
  parents, and of two nodes in one circle at most one has depth 0 (`Followed`).
  A walk keeps this (`ResolveFollows`), because what it has seen leads to where it
  is (`OnTheWay`), it gives depth 0 where the parent was seen, and it ends at what
  is known already or at what it has seen, so one walk makes at most one
  such 0 (`Discovered`). When all is known, each circle has one 0: at most one by
  `Followed`, and one since its least depth can only be 0 (`CirclesHaveOneZero`).
  `ClimbFindsAncestors` shows that the property's own definition, going up as
  often as there are pids, finds the same ancestors.
- `ComparedWithPredecessor`: the predecessor is in the history kept, since all that
  is later than it is newer than it (`PreviousIsPredecessor`).
- `NearestRight`: the rows that `_levenshtein` fills make a table in which every cell
  follows from its three neighbours (`LevenshteinTable`). One direction: a cell of at
  most two gives as many edits of the prefixes (`NoNearer`, by induction over both
  lengths). The other: an edit of one name moves every cell of its table by at most one,
  where the columns behind the edit are compared one by one (`InsertionMoves`,
  `ReplacementMoves`, `EditMoves`), and the table of a name and itself ends in 0
  (`NoDistanceToSelf`). Together they are `DistanceIsEdits`. `Normalize` is worth the name
  without separators (`NormalizeKeeps`).
- `VerdictSound`: the score is a sum, and at least any two of its parts
  (`SumAbove`); a finding by itself reaches the severity below its own, two of one
  severity reach it.

Only model-checked: liveness under fairness (`RunEnds`, `AcceptedIsSettled`,
`StaleRowGoes`, `RecordsReturn`), which is out of the prover's reach. The type
invariants of Correlation, Dashboard, StraceCollector and FilesystemSignals are
proved and no run is spent on them. What the proofs of Evidence do not range over
are the sets of names, addresses and extensions its inputs are made of (`Names`,
`Addresses`, `Extensions`), which are definitions of the module.

## Disagreements between the code and what is said of it

Two have a run.

- `outcome_shown`. `list_analysis` reads reports first and `jobs` second; an
  analysis that ends in between is in neither part. If nothing else is in
  flight, the page clears its timer and never shows the outcome, though
  `index.html` line 195 tells the user to follow it there. What a list can miss
  is exactly this, or an analysis deleted meanwhile (`AnswerMissesOnlyChanged`); reading in the other order would
  only list an analysis twice.
- `exec_drop_flagged`. `signals.py` line 182 compares host paths with container
  paths, so a dropped file that was made executable is never in
  `exec_drop_chmod`; the regression test uses one path for both.

More are stated in the modules, under a heading that says so, and no run is
spent on them; adding the name to the `.cfg` of the module's run shows each.

- `AlwaysRewritten` (Pipeline): the README (line 93) says that every packet leaving
  the sinkhole's network is rewritten. The container of a stage that timed out
  can still be attached when `stop()` deletes the rule. While a stage is awaited
  the claim does hold (`StageContained`, proved).
- `PartialCostsOne` (SharedHost): the docstring of `ensure_build_backends_cached`
  (`package.py` lines 42-44) says that a partial cache costs one analysis. It
  costs every later one: any file in the directory is taken for all of them.
- `EveryDropIsListed` (FilesystemSignals): `signals.py` lines 158-161 say that the
  realtime writes add what a dropper deleted again. An open for writing of a path
  with `.ssh` or `/proc/cpuinfo` in it is another kind of event (`collectors.py`
  lines 139-142), a path like `/workspace/site_evil` is taken for ours (lines 74 and
  145), and an `openat` from another directory gives that directory's path.
  `DropIsListed` says what is listed nevertheless.
- `MalformedGivesNone` (Evidence): `sinkhole.py` lines 49-50 promise None for a
  malformed query. One cut within its class is answered, as the slice of line 66
  ends where the query does.
- `SuccessTracedAll` (SharedHost): a bpftrace that another analysis's stop ended
  is reported as "success" for the whole analysis (`collectors.py` lines 356-373).
- `MismatchIsFound` (Evidence): answers are read to check the name in a
  ClientHello (`pcap_tls.py` lines 140-141). An answer whose owner is a pointer
  to the question, the usual form, is filed under the empty name, so no mismatch
  is found.
- `ShortHelloGivesNone` (Evidence): `pcap_tls.py` line 80 says that a short
  ClientHello yields None. One cut within its name yields the part that is there.
- `ChainIsOrdered` (Evidence): the analyzer's chain is called a read "followed by"
  network activity (`analyzer.py` line 46), and is made of the first of each in
  whatever order they are.
- `NoneMeansNone` (Evidence): "no earlier published release found"
  (`static_scan.py` line 102) is said of the last twenty uploads only.
- `ChangedFileIsFound` (Evidence): the files of an sdist lie in a directory named
  for its version, so that between two sdists no file is ever "changed"
  (`static_scan.py` lines 115-120).
- `FailureIsReported` (Pipeline): the README (line 95) says that whatever fails in
  the sinkhole, its reason is in `collector_status.sinkhole` and the mode is
  restricted. A command that runs out of time raises through `start()`
  (`sinkhole.py` line 136), and the failed report has mode `sinkhole` and no
  collector status.
- `EntryOnlyInFlight` (JobService): `main.py` line 17 describes `jobs` as in-flight
  state until the report exists. Entries are removed by DELETE only.
- `OnlyOwnEvents` (StraceCollector): the README (line 83) calls the trace that of
  the same analysis. Logs of a container another analysis made meanwhile are
  taken too (`collectors.py` line 99).
- `RejectedNameIsRecorded` (Serving): `sinkhole.py` lines 91-92 say that a rejected
  name is still recorded, so nothing is lost. A client that checks the
  placeholder's certificate never sends the request that is recorded. (Needs a
  name in `Unsafe`.)
- `NotedIsNotInSnapshot` (FilesystemSignals): the rows added from the trace say
  "not present in the before/after snapshot" (`signals.py` line 163) of files that
  are in it under their host path.
- `CapturesJoinReads` (Correlation): `signals.py` lines 79-80 say that captures take
  part in every file-network correlation. Reads are stamped when their stage's
  log is read, after the captures of that stage.
- `TracedPairsShareStage` (Correlation): the docstring of `_time_near` says that
  traced events degrade to "same stage". A read is also paired with a connection
  of the next stage, if that one ends inside the window.
- `ResidualOutlived` (Correlation, a PROPERTY): what `signals.py` lines 268-270 and
  390 call residual may be the next stage's own processes.

## Not modelled

- The rest of `signals.py`, `static_scan.py` and `registry.py`: filters of one
  event, patterns over one file, fields copied from an answer; requests to PyPI;
  `dast`, scripts, images. None has state or order.
- The parsing of an HTTP request, of credential patterns, of strace, bpftrace and
  tcpdump output: text formats. What a line is worth is in StraceCollector.
- Texts of a traced call beyond the 512 characters kept, and paths with a space or
  a comma in them (FilesystemSignals).
- What a stage computes, the contents of events, requests and reports, wording.
- `select_python_image` and resource limits: arguments of a command.
- Ethernet, IP and TCP headers: `Payloads` keeps of a frame whether it is IPv4, of
  which protocol, and whether its headers are complete. Letter case in names.
- Modified and deleted rows of the first snapshot do not occur: it is taken of an
  empty directory (`package.py` line 213). `Modified` is there and stays empty.
- A rejected upload (`main.py` line 98) leaves its directory. It is in JobService
  (`samples`), but no doc or comment says that it should go, so no property does.

## Plan

Done, in this order: Sinkhole (the shared host state everything depends on),
Pipeline on top of it, JobService with its abstract Lifecycle, Dashboard on top of
that, then the collectors and signals (StraceCollector, Serving, Correlation,
FilesystemSignals), SharedHost, the computations on evidence (Packets,
ProcessTree, Reputation, Analyzer, Evidence), and the proofs, Correlation's and
those of Evidence last.

Left:

1. The reading of an HTTP request from pieces of a stream (`sinkhole.py` 322-350),
   as an operator next to Packets.
2. The pairs that `build_env_signals` makes of names of secrets, composed with
   Correlation.
