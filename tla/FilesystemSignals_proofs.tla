---------------------- MODULE FilesystemSignals_proofs ----------------------
(***************************************************************************)
(* Proofs about the file system signals, for any files, any directories,   *)
(* any filters, any limit of the trace and any number of steps.            *)
(***************************************************************************)
EXTENDS FilesystemSignals, TLAPS

\* The trace has the event of every open in sight: of a sensitive path, the one
\* that has its text; of another, the one of a write outside site/.
SensitiveTraced(f, d) ==
    {f, d} \cap Sensitive # {} => Event("write", {f, d}, FALSE) \in ToSet(trace)
RootTraced(f) ==
    f \notin TraceSkips \cup Evasive \cup Sensitive
        => Event("write_outside_site", {f}, FALSE) \in ToSet(trace)
Traced ==
    \A f \in Files : \A d \in Dirs :
        <<f, d>> \in opened => SensitiveTraced(f, d) /\ (d = Root => RootTraced(f))

\* The first snapshot is of an empty workspace, the last is still true, and the
\* trace has the events of the opens in sight.
FilesystemInv ==
    /\ FilesystemTypeOK
    /\ DOMAIN before = {}
    /\ Traced
    /\ phase = "reported" => after = Snapshot

-----------------------------------------------------------------------------
LEMMA TakenKeeps ==
  ASSUME trace \in Seq(TraceEvents), Len(trace) <= Limit, NEW e \in TraceEvents
  PROVE  /\ Taken(e) \in Seq(TraceEvents) /\ Len(Taken(e)) <= Limit
         /\ ToSet(trace) \subseteq ToSet(Taken(e))
         /\ Taking => e \in ToSet(Taken(e))
<1>1. CASE Taking
  <2>1. Taken(e) = Append(trace, e)
    BY <1>1 DEF Taken
  <2>2. /\ Append(trace, e) \in Seq(TraceEvents)
        /\ Len(Append(trace, e)) = Len(trace) + 1 /\ Len(trace) \in Nat
        /\ \A k \in 1..Len(trace) : Append(trace, e)[k] = trace[k]
        /\ Append(trace, e)[Len(trace) + 1] = e
    OBVIOUS
  <2>3. ToSet(trace) \cup {e} \subseteq ToSet(Append(trace, e))
    BY <2>2 DEF ToSet
  <2>4. Len(Append(trace, e)) <= Limit
    BY <1>1, <2>2, BoundsAssumption DEF Taking
  <2> QED
    BY <2>1, <2>2, <2>3, <2>4
<1>2. CASE ~Taking
  BY <1>2 DEF Taken
<1> QED
  BY <1>1, <1>2

\* What an open leaves of the trace, and what it adds for an absolute path.
LEMMA AfterOpenKeeps ==
  ASSUME trace \in Seq(TraceEvents), Len(trace) <= Limit,
         NEW f \in Files, NEW d \in Dirs, NEW paths \in SUBSET (Files \cup Dirs)
  PROVE  /\ AfterOpen(f, d, paths) \in Seq(TraceEvents) /\ Len(AfterOpen(f, d, paths)) <= Limit
         /\ ToSet(trace) \subseteq ToSet(AfterOpen(f, d, paths))
         /\ Taking /\ {f, d} \cap Sensitive # {} =>
                Event("write", {f, d}, FALSE) \in ToSet(AfterOpen(f, d, paths))
         /\ Taking /\ d = Root /\ paths = {f, d} /\ f \notin TraceSkips \cup Evasive \cup Sensitive =>
                Event("write_outside_site", {f}, FALSE) \in ToSet(AfterOpen(f, d, paths))
<1> DEFINE W == Event("write", {f, d}, FALSE)
           P == Event("probe", paths, FALSE)
           O == Event("write_outside_site", {FirstPath(f, d)}, FALSE)
           A == AfterOpen(f, d, paths)
<1>1. W \in TraceEvents /\ P \in TraceEvents /\ O \in TraceEvents
  BY DEF Event, TraceEvents, FirstPath
<1>2. CASE {f, d} \cap Sensitive # {}
  <2>1. A = Taken(W)
    BY <1>2 DEF AfterOpen
  <2>2. ~(d = Root /\ f \notin Sensitive)
    BY <1>2, PathsAssumption
  <2> QED
    BY <1>1, <2>1, <2>2, TakenKeeps
<1>3. CASE {f, d} \cap Sensitive = {}
  <2>1. A \in {trace, Taken(P), Taken(O)}
    BY <1>3 DEF AfterOpen
  <2>2. /\ A \in Seq(TraceEvents) /\ Len(A) <= Limit
        /\ ToSet(trace) \subseteq ToSet(A)
    BY <1>1, <2>1, TakenKeeps
  <2>3. ASSUME Taking, d = Root, paths = {f, d}, f \notin TraceSkips \cup Evasive \cup Sensitive
        PROVE  Event("write_outside_site", {f}, FALSE) \in ToSet(A)
    <3>1. paths \cap Evasive = {} /\ paths \cap TraceSkips = {} /\ ~(paths \subseteq {Root})
      BY <2>3, PathsAssumption
    <3>2. A = Taken(O)
      BY <1>3, <3>1 DEF AfterOpen
    <3>3. O = Event("write_outside_site", {f}, FALSE)
      BY <2>3 DEF FirstPath
    <3> QED
      BY <1>1, <2>3, <3>2, <3>3, TakenKeeps
  <2> QED
    BY <1>3, <2>2, <2>3
<1> QED
  BY <1>2, <1>3

LEMMA SnapshotIsOne == Snapshot \in Snapshots
<1> DEFINE S == {g \in Files : disk[g] \in Readable}
<1>1. Snapshot \in [S -> Readable] /\ S \in SUBSET Files
  BY DEF Snapshot
<1> QED
  BY <1>1 DEF Snapshots

\* Events are only added, so opens once traced remain so.
LEMMA TracedKept ==
  ASSUME Traced, ToSet(trace) \subseteq ToSet(trace'), opened' = opened
  PROVE  Traced'
BY DEF Traced, SensitiveTraced, RootTraced

LEMMA FilesystemStep == FilesystemInv /\ [FilesystemNext]_fsVars => FilesystemInv'
<1> SUFFICES ASSUME FilesystemInv, [FilesystemNext]_fsVars PROVE FilesystemInv'
  OBVIOUS
<1> USE BoundsAssumption DEF FilesystemInv, FilesystemTypeOK
<1>1. ASSUME NEW f \in Files, HostWrites(f)
      PROVE  FilesystemInv'
  BY <1>1, TracedKept DEF HostWrites, Snapshot, Readable
<1>2. CASE BeginStages
  BY <1>2, TracedKept DEF BeginStages
<1>3. ASSUME NEW f \in Files, NEW d \in Dirs, Open(f, d)
      PROVE  FilesystemInv'
  <2> DEFINE A == AfterOpen(f, d, {f, d})
  <2>1. trace' = A
    BY <1>3 DEF Open
  <2>2. /\ trace' \in Seq(TraceEvents) /\ Len(trace') <= Limit
        /\ ToSet(trace) \subseteq ToSet(trace')
        /\ Taking /\ {f, d} \cap Sensitive # {} => Event("write", {f, d}, FALSE) \in ToSet(trace')
        /\ Taking /\ d = Root /\ f \notin TraceSkips \cup Evasive \cup Sensitive =>
               Event("write_outside_site", {f}, FALSE) \in ToSet(trace')
    BY <2>1, AfterOpenKeeps
  <2>3. Traced'
    <3> SUFFICES ASSUME NEW g \in Files, NEW e \in Dirs, <<g, e>> \in opened'
                 PROVE  SensitiveTraced(g, e)' /\ (e = Root => RootTraced(g)')
      BY DEF Traced
    <3>1. CASE <<g, e>> \in opened
      BY <2>2, <3>1 DEF Traced, SensitiveTraced, RootTraced
    <3>2. CASE <<g, e>> \notin opened
      <4>1. Taking /\ g = f /\ e = d
        BY <1>3, <3>2 DEF Open
      <4> QED
        BY <2>2, <4>1 DEF SensitiveTraced, RootTraced
    <3> QED
      BY <3>1, <3>2
  <2>4. /\ disk' \in [Files -> {"absent", "hidden", "shut"} \cup Readable]
        /\ dropped' \subseteq Files /\ opened' \subseteq dropped' \X Dirs
    BY <1>3 DEF Open, Readable
  <2>5. /\ steps' \in 0..MaxSteps /\ phase' = "stages"
        /\ UNCHANGED <<before, after, tracing>>
    BY <1>3 DEF Open, Sandboxed
  <2> QED
    BY <2>2, <2>3, <2>4, <2>5
<1>4. ASSUME NEW f \in Files, NEW d \in Dirs, OpenRelative(f, d)
      PROVE  FilesystemInv'
  <2>1. trace' = AfterOpen(f, d, {d}) /\ {d} \in SUBSET (Files \cup Dirs)
    BY <1>4 DEF OpenRelative
  <2>2. /\ trace' \in Seq(TraceEvents) /\ Len(trace') <= Limit
        /\ ToSet(trace) \subseteq ToSet(trace')
    BY <2>1, AfterOpenKeeps
  <2>3. Traced'
    BY <1>4, <2>2, TracedKept DEF OpenRelative
  <2>4. /\ disk' \in [Files -> {"absent", "hidden", "shut"} \cup Readable]
        /\ dropped' \subseteq Files /\ opened' \subseteq dropped' \X Dirs
    BY <1>4 DEF OpenRelative, Readable
  <2>5. /\ steps' \in 0..MaxSteps /\ phase' = "stages"
        /\ UNCHANGED <<before, after, tracing>>
    BY <1>4 DEF OpenRelative, Sandboxed
  <2> QED
    BY <2>2, <2>3, <2>4, <2>5
<1>5. ASSUME NEW f \in Files, Appear(f)
      PROVE  FilesystemInv'
  <2>1. Traced'
    BY <1>5, TracedKept DEF Appear
  <2> QED
    BY <1>5, <2>1 DEF Appear, Sandboxed, Readable
<1>6. ASSUME NEW f \in Files, NEW d \in Dirs, NEW mode \in Readable \cup {"hidden"},
             Chmod(f, d, mode)
      PROVE  FilesystemInv'
  <2> DEFINE e == Event("chmod", {FirstPath(f, d)}, mode = "exec")
  <2>1. e \in TraceEvents
    BY DEF Event, TraceEvents, FirstPath
  <2>2. trace' = Taken(e)
    BY <1>6 DEF Chmod
  <2>3. trace' \in Seq(TraceEvents) /\ Len(trace') <= Limit /\ ToSet(trace) \subseteq ToSet(trace')
    BY <2>1, <2>2, TakenKeeps
  <2>4. Traced'
    BY <1>6, <2>3, TracedKept DEF Chmod
  <2> QED
    BY <1>6, <2>3, <2>4 DEF Chmod, Sandboxed
<1>7. ASSUME NEW f \in Files, NEW d \in Dirs, Shut(f, d)
      PROVE  FilesystemInv'
  <2> DEFINE e == Event("chmod", {d}, FALSE)
  <2>1. e \in TraceEvents
    BY DEF Event, TraceEvents
  <2>2. trace' = Taken(e)
    BY <1>7 DEF Shut
  <2>3. trace' \in Seq(TraceEvents) /\ Len(trace') <= Limit /\ ToSet(trace) \subseteq ToSet(trace')
    BY <2>1, <2>2, TakenKeeps
  <2>4. Traced'
    BY <1>7, <2>3, TracedKept DEF Shut
  <2>5. disk' \in [Files -> {"absent", "hidden", "shut"} \cup Readable]
    BY <1>7 DEF Shut
  <2>6. /\ steps' \in 0..MaxSteps /\ phase' = "stages"
        /\ UNCHANGED <<before, after, tracing, dropped, opened>>
    BY <1>7 DEF Shut, Sandboxed
  <2> QED
    BY <2>3, <2>4, <2>5, <2>6
<1>8. ASSUME NEW f \in Files, Unlink(f)
      PROVE  FilesystemInv'
  <2>1. Traced'
    BY <1>8, TracedKept DEF Unlink
  <2> QED
    BY <1>8, <2>1 DEF Unlink, Sandboxed
<1>9. CASE Report
  <2>1. Traced'
    BY <1>9, TracedKept DEF Report
  <2> QED
    BY <1>9, <2>1, SnapshotIsOne DEF Report, Snapshot
<1>10. CASE UNCHANGED fsVars
  <2>1. Traced'
    BY <1>10, TracedKept DEF fsVars
  <2> QED
    BY <1>10, <2>1 DEF fsVars, Snapshot
<1> QED
  BY <1>1, <1>2, <1>3, <1>4, <1>5, <1>6, <1>7, <1>8, <1>9, <1>10 DEF FilesystemNext

LEMMA FilesystemInvariant == FilesystemSpec => []FilesystemInv
<1>1. FilesystemInit => FilesystemInv
  <2> SUFFICES ASSUME FilesystemInit PROVE FilesystemInv
    OBVIOUS
  <2>1. before \in Snapshots /\ after \in Snapshots
    <3>1. <<>> \in [{} -> Readable]
      OBVIOUS
    <3> QED
      BY <3>1, SnapshotIsOne DEF FilesystemInit, Snapshots
  <2>2. Traced
    BY DEF FilesystemInit, Traced
  <2> QED
    BY <2>1, <2>2, BoundsAssumption
       DEF FilesystemInit, FilesystemInv, FilesystemTypeOK, Snapshot, Readable
<1> QED
  BY <1>1, FilesystemStep, PTL DEF FilesystemSpec

-----------------------------------------------------------------------------
\* Every variable of the workspace and of the trace keeps its type.
THEOREM FilesystemTyping == FilesystemSpec => []FilesystemTypeOK
<1>1. FilesystemInv => FilesystemTypeOK
  BY DEF FilesystemInv
<1> QED
  BY <1>1, FilesystemInvariant, PTL

\* A dropped file that can be read in the end has a row in outside_package_dir,
\* unless the difference's filter takes its path for one of ours; one whose open
\* the trace has in its own name has a row there or in sensitive_path_access.
THEOREM DropListed == FilesystemSpec => []DropIsListed
<1>1. ASSUME FilesystemInv PROVE DropIsListed
  <2> SUFFICES ASSUME phase = "reported", NEW f \in dropped
               PROVE  /\ disk[f] \in Readable /\ f \notin DiffSkips
                            => HostPath(f) \in OutsidePackageDir
                      /\ OpenedInSight(f) => Told(f)
    BY DEF DropIsListed
  <2>1. f \in Files /\ after = Snapshot
    BY <1>1 DEF FilesystemInv, FilesystemTypeOK
  <2>2. ASSUME disk[f] \in Readable, f \notin DiffSkips
        PROVE  HostPath(f) \in OutsidePackageDir
    <3>1. f \in Created
      BY <1>1, <2>1, <2>2 DEF Created, Snapshot, FilesystemInv, FilesystemTypeOK
    <3>2. HostPath(f) \in DiffRows
      BY <2>2, <3>1 DEF DiffRows
    <3> QED
      BY <3>2 DEF OutsidePackageDir
  <2>3. ASSUME NEW d \in Dirs, <<f, d>> \in opened, {f, d} \cap Sensitive # {}
        PROVE  Told(f)
    <3>1. Event("write", {f, d}, FALSE) \in ToSet(trace)
      BY <1>1, <2>1, <2>3 DEF FilesystemInv, Traced, SensitiveTraced
    <3>2. f \in PathsOf("write")
      BY <3>1 DEF PathsOf, Event
    <3> QED
      BY <3>2 DEF Told, SensitivePathAccess
  <2>4. ASSUME <<f, Root>> \in opened, f \notin TraceSkips \cup Evasive
        PROVE  Told(f)
    <3>1. CASE f \in Sensitive
      BY <2>3, <2>4, <3>1, PathsAssumption
    <3>2. CASE f \notin Sensitive
      <4>1. Event("write_outside_site", {f}, FALSE) \in ToSet(trace)
        BY <1>1, <2>1, <2>4, <3>2, PathsAssumption DEF FilesystemInv, Traced, RootTraced
      <4>2. f \in PathsOf("write_outside_site")
        BY <4>1 DEF PathsOf, Event
      <4>3. BoxPath(f) \in RealtimeRows
        BY <4>2 DEF RealtimeRows
      <4> QED
        BY <4>3 DEF Told, OutsidePackageDir, Extra
    <3> QED
      BY <3>1, <3>2
  <2> QED
    BY <2>2, <2>3, <2>4 DEF OpenedInSight
<1> QED
  BY <1>1, FilesystemInvariant, PTL
=============================================================================
