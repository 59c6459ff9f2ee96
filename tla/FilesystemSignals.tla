------------------------- MODULE FilesystemSignals -------------------------
(***************************************************************************)
(* What an analysis says about the files sandboxed code left or dropped     *)
(* (FilesystemCollector and GvisorStraceCollector of                        *)
(* backend/app/collectors.py, build_filesystem_signals of                   *)
(* backend/app/signals.py).                                                 *)
(*                                                                         *)
(* The workspace is one directory with two names: the host takes snapshots   *)
(* of /tmp/pypi-dast-x before and after the stages, the sandbox and its      *)
(* trace call it /workspace. The rows of the difference are completed with   *)
(* the writes of the trace, so that a file written and removed between the   *)
(* snapshots is not missed. One traced stage stands for all of them.        *)
(*                                                                         *)
(* The filters look for substrings, of a path or of the text of a call, so   *)
(* a file belongs to one when the text matches, whether or not the place is  *)
(* really ours: /workspace/site_evil is in TraceSkips and DiffSkips. The     *)
(* text of a call has the directory it is made from and the file, if the     *)
(* file is given by its absolute path; texts longer than the 512 characters  *)
(* the collector keeps, and paths with a space or a comma, are left out.     *)
(***************************************************************************)
EXTENDS Naturals, Sequences, FiniteSets, SequencesExt

CONSTANTS
    Files,      \* files of the workspace
    Dirs,       \* directories calls are made from,
    Root,       \* with the root, which the trace shows as "/"
    Own,        \* files that really are ours: those of site/ and built/, the
                \* instrumentation and its logs, what the host downloads
    HostFiles,  \* those the host itself writes before the stages
    TraceSkips, \* paths the trace's filter takes for ours
    DiffSkips,  \* files the difference's filter takes for ours
    Sensitive,  \* paths with .ssh, .aws, .netrc, /etc/passwd or /etc/shadow
    Evasive,    \* paths with /proc/cpuinfo and the like
    Limit,      \* events one collect takes
    MaxSteps    \* bound: what the sandboxed code does

ASSUME PathsAssumption ==
    /\ Own \cup HostFiles \cup DiffSkips \subseteq Files
    /\ TraceSkips \cup Sensitive \cup Evasive \subseteq Files \cup Dirs
    /\ Root \in Dirs \ (Files \cup TraceSkips \cup Sensitive \cup Evasive)
ASSUME BoundsAssumption == Limit \in Nat /\ MaxSteps \in Nat

VARIABLES
    phase,      \* "host": the host downloads; "stages"; "reported"; or "failed"
    disk,       \* "absent", or the mode of each file; "hidden" is one the host may
                \* not read or find, "shut" one it finds and may not look at
    before,     \* the snapshot taken first, of the files it could read
    after,      \* the snapshot taken last
    tracing,    \* the tracing runtime is there
    trace,      \* the events collect returns
    dropped,    \* history: files the sandboxed code put there or opened for writing
    opened,     \* history: those it opened by their absolute path while events
                \* were taken, with the directory it did so from
    steps

fsVars == <<phase, disk, before, after, tracing, trace, dropped, opened, steps>>

Readable == {"plain", "exec"}
Snapshots == UNION {[S -> Readable] : S \in SUBSET Files}
TraceEvents ==
    [type : {"write_outside_site", "write", "probe", "chmod"},
     path : SUBSET (Files \cup Dirs), exec : BOOLEAN]

FilesystemTypeOK ==
    /\ phase \in {"host", "stages", "reported", "failed"}
    /\ disk \in [Files -> {"absent", "hidden", "shut"} \cup Readable]
    /\ before \in Snapshots /\ after \in Snapshots
    /\ tracing \in BOOLEAN
    /\ trace \in Seq(TraceEvents) /\ Len(trace) <= Limit
    /\ dropped \subseteq Files /\ opened \subseteq dropped \X Dirs
    /\ steps \in 0..MaxSteps

---------------------------------------------------------------------------
(* The snapshots and the trace.                                             *)

\* FilesystemCollector.snapshot: a file that cannot be read is left out
Snapshot == [f \in {g \in Files : disk[g] \in Readable} |-> disk[f]]

\* is_file(), outside the try, raises for a file whose directory can be listed
\* and not searched
SnapshotRaises == \E f \in Files : disk[f] = "shut"

\* collect: until the limit
Taking == tracing /\ Len(trace) < Limit
Taken(e) == IF Taking THEN Append(trace, e) ELSE trace

Event(type, path, exec) == [type |-> type, path |-> path, exec |-> exec]

\* _EXECVE_PATH: the first path in the text of a call with an absolute path
FirstPath(f, from) == IF from = Root THEN f ELSE from

\* What the trace keeps of an open for writing whose text has these paths.
AfterOpen(f, from, paths) ==
    IF {f, from} \cap Sensitive # {} THEN Taken(Event("write", {f, from}, FALSE))
    ELSE IF paths \cap Evasive # {} THEN Taken(Event("probe", paths, FALSE))
    ELSE IF paths \subseteq {Root} \/ paths \cap TraceSkips # {} THEN trace
    ELSE Taken(Event("write_outside_site", {FirstPath(f, from)}, FALSE))

FilesystemInit ==
    /\ phase = "host"
    /\ disk = [f \in Files |-> "absent"]
    /\ before = Snapshot /\ after = <<>>
    /\ tracing \in BOOLEAN
    /\ trace = <<>> /\ dropped = {} /\ opened = {} /\ steps = 0

\* The download and the instrumentation write into the workspace, after the
\* first snapshot.
HostWrites(f) ==
    /\ phase = "host" /\ f \in HostFiles
    /\ disk[f] = "absent"
    /\ disk' = [disk EXCEPT ![f] = "plain"]
    /\ UNCHANGED <<phase, before, after, tracing, trace, dropped, opened, steps>>

BeginStages ==
    /\ phase = "host"
    /\ phase' = "stages"
    /\ UNCHANGED <<disk, before, after, tracing, trace, dropped, opened, steps>>

Sandboxed ==
    /\ phase = "stages" /\ steps < MaxSteps
    /\ steps' = steps + 1
    /\ UNCHANGED <<phase, before, after, tracing>>

\* A file is opened for writing by its absolute path, from a directory (open,
\* which has none, like openat from the root). The trace has the call when it
\* begins, though it fail.
Open(f, from) ==
    /\ Sandboxed
    /\ disk' = [disk EXCEPT ![f] = IF @ = "absent" THEN "plain" ELSE @]
    /\ trace' = AfterOpen(f, from, {f, from})
    /\ dropped' = dropped \cup {f}
    /\ opened' = IF Taking THEN opened \cup {<<f, from>>} ELSE opened

\* By a relative one: the text has the directory's path alone, and .ssh if
\* either has it.
OpenRelative(f, from) ==
    /\ Sandboxed
    /\ disk' = [disk EXCEPT ![f] = IF @ = "absent" THEN "plain" ELSE @]
    /\ trace' = AfterOpen(f, from, {from})
    /\ dropped' = dropped \cup {f}
    /\ UNCHANGED opened

\* A file appears by a call the trace's filter does not read (rename, link,
\* creat, openat2).
Appear(f) ==
    /\ Sandboxed
    /\ disk[f] = "absent"
    /\ disk' = [disk EXCEPT ![f] = "plain"]
    /\ dropped' = dropped \cup {f}
    /\ UNCHANGED <<trace, opened>>

Chmod(f, from, mode) ==
    /\ Sandboxed
    /\ disk[f] \notin {"absent", "shut"}
    /\ disk' = [disk EXCEPT ![f] = mode]
    /\ trace' = Taken(Event("chmod", {FirstPath(f, from)}, mode = "exec"))
    /\ UNCHANGED <<dropped, opened>>

\* The directory of a file loses its execute bits.
Shut(f, dir) ==
    /\ Sandboxed
    /\ disk[f] \notin {"absent", "shut"} /\ dir # Root
    /\ disk' = [disk EXCEPT ![f] = "shut"]
    /\ trace' = Taken(Event("chmod", {dir}, FALSE))
    /\ UNCHANGED <<dropped, opened>>

Unlink(f) ==
    /\ Sandboxed
    /\ disk[f] # "absent"
    /\ disk' = [disk EXCEPT ![f] = "absent"]
    /\ UNCHANGED <<trace, dropped, opened>>

Report ==
    /\ phase = "stages"
    /\ IF SnapshotRaises
       THEN phase' = "failed" /\ UNCHANGED after
       ELSE phase' = "reported" /\ after' = Snapshot
    /\ UNCHANGED <<disk, before, tracing, trace, dropped, opened, steps>>

FilesystemNext ==
    \/ BeginStages \/ Report
    \/ \E f \in Files :
        \/ HostWrites(f) \/ Appear(f) \/ Unlink(f)
        \/ \E from \in Dirs :
            \/ Open(f, from) \/ OpenRelative(f, from) \/ Shut(f, from)
            \/ \E mode \in Readable \cup {"hidden"} : Chmod(f, from, mode)

FilesystemSpec == FilesystemInit /\ [][FilesystemNext]_fsVars

---------------------------------------------------------------------------
(* The signals.                                                             *)

HostPath(f) == <<"/tmp/pypi-dast-x", f>>
BoxPath(f) == <<"/workspace", f>>

\* FilesystemCollector.diff
Created == DOMAIN after \ DOMAIN before
Modified == {f \in DOMAIN after \cap DOMAIN before : after[f] # before[f]}

\* The paths of the trace's events of one type.
PathsOf(type) == UNION {e.path : e \in {x \in ToSet(trace) : x.type = type}}

DiffRows == {HostPath(f) : f \in (Created \cup Modified) \ DiffSkips}
RealtimeRows == {BoxPath(p) : p \in PathsOf("write_outside_site")}

\* Mistake: only writes the snapshots confirm are kept.
ExtraConfirmed(rows, realtime) == realtime \cap rows

\* _merge_realtime_writes: the rows it adds, with the note that they were not
\* in the snapshot
Extra(rows, realtime) == realtime \ rows

OutsidePackageDir == DiffRows \cup Extra(DiffRows, RealtimeRows)

\* sensitive_path_access, whose rows have the whole text of the call
SensitivePathAccess == PathsOf("write")

\* exec_drop_chmod
ChmodEvents ==
    {BoxPath(p) : p \in UNION {e.path : e \in {x \in ToSet(trace) : x.type = "chmod" /\ x.exec}}}
ExecDropChmod == {f \in Created : after[f] = "exec" /\ HostPath(f) \in ChmodEvents}

---------------------------------------------------------------------------
(* What they tell.                                                          *)

\* The signals name the file the trace saw opened.
Told(f) == BoxPath(f) \in OutsidePackageDir \/ f \in SensitivePathAccess

\* An open the trace tells by the file's own path: of a sensitive path from
\* anywhere; of another from the root, if no filter takes it for ours and it
\* does not look like a probe.
OpenedInSight(f) ==
    \/ <<f, Root>> \in opened /\ f \notin TraceSkips \cup Evasive
    \/ \E d \in Dirs : <<f, d>> \in opened /\ {f, d} \cap Sensitive # {}

\* A dropped file that is there and readable in the end is in
\* outside_package_dir, whatever other files are unreadable, unless the
\* difference's filter takes its path for one of ours. One whose open the trace
\* has in its own name is in outside_package_dir or, if its path is a sensitive
\* one, in sensitive_path_access, whatever became of it.
DropIsListed ==
    phase = "reported" =>
        \A f \in dropped :
            /\ disk[f] \in Readable /\ f \notin DiffSkips => HostPath(f) \in OutsidePackageDir
            /\ OpenedInSight(f) => Told(f)

---------------------------------------------------------------------------
(* What the code and a test say.                                            *)

\* "A dropper that writes, chmod+x's, execs, and deletes itself ... only the
\* syscall-level realtime write is left as evidence. Adds those as extra rows":
\* every dropped file that is not ours and whose open was taken has a row in
\* outside_package_dir. A sensitive path has none, a lookalike of site/ has
\* none, and an open from another directory gives that directory's.
EveryDropIsListed ==
    phase = "reported" =>
        \A f \in dropped \ Own : (\E d \in Dirs : <<f, d>> \in opened)
            => {HostPath(f), BoxPath(f)} \cap OutsidePackageDir # {}

\* The note of a row the trace added: "not present in the before/after
\* snapshot, likely deleted before it".
NotedIsNotInSnapshot ==
    phase = "reported" =>
        \A f \in Files : BoxPath(f) \in Extra(DiffRows, RealtimeRows) => f \notin DOMAIN after

\* test_exec_drop_chmod_detects_octal_mode: a created file with an execute bit
\* that a traced chmod gave it is in exec_drop_chmod.
DroppedExecIsFlagged ==
    phase = "reported" =>
        \A f \in Created :
            after[f] = "exec" /\ Event("chmod", {f}, TRUE) \in ToSet(trace) => f \in ExecDropChmod
=============================================================================
