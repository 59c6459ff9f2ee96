-------------------------- MODULE StraceCollector --------------------------
(***************************************************************************)
(* GvisorStraceCollector (backend/app/collectors.py) as analyze_package     *)
(* uses it, for analyses that run at the same time.                         *)
(*                                                                         *)
(* The gVisor runtime writes one log per container into one directory that  *)
(* all analyses share, and goes on writing as long as the container lives,  *)
(* also after its docker client was killed for running out of time. Before  *)
(* each stage an analysis marks the logs that exist; after it, it reads      *)
(* those it has not marked and takes their events for the stage's.           *)
(***************************************************************************)
EXTENDS Naturals, Sequences, FiniteSets, Folds

CONSTANTS
    Analyses,    \* analyses that run with the tracing runtime
    Others,      \* other analyses, of which only a container matters here
    MaxStages,   \* sandboxed stages of an analysis
    MaxLines,    \* bound: lines of a log
    Kinds,       \* kinds of lines that occur
    Limit,       \* events one collect takes before it stops, 200 in the code
    MaxCleans    \* bound: times somebody empties the directory

\* Events a line makes: an exit line of fork or clone one, an entry line none,
\* one, or two (a connect to port 53).
Events == [fork |-> 1, silent |-> 0, one |-> 1, two |-> 2]

ASSUME AnalysesAssumption == Analyses \cap Others = {}
ASSUME KindsAssumption == Kinds \subseteq DOMAIN Events
ASSUME LimitAssumption == Limit \in Nat \ {0}
ASSUME StagesAssumption == MaxStages \in Nat /\ MaxCleans \in Nat

\* <<a, s>>: the log of a's s-th container
Logs == (Analyses \X (1..MaxStages)) \cup (Others \X {1})

VARIABLES
    at,         \* where the analysis is
    stage,      \* the stage it is in, or was in last
    starting,   \* containers docker was told to run and has not made yet
    live,       \* containers running
    log,        \* the lines of each log
    present,    \* logs in the directory
    seen,       \* GvisorStraceCollector.seen
    todo,       \* logs the collect in progress has still to read
    taken,      \* len(events) of the collect in progress
    got,        \* lines whose events were taken: <<log, line, stage>>
    overdue,    \* history: logs of containers whose client ran out of time
    removed,    \* history: logs that were removed
    cut,        \* history: stages whose collect stopped at the limit
    old,        \* history: the logs that existed when the collector was made
    cleans      \* times the directory was emptied

hostVars == <<starting, live, log, present, removed, cleans>>
collectVars == <<seen, todo, taken, got, cut>>
straceVars == <<at, stage, hostVars, collectVars, overdue, old>>

Active == {"marked", "running", "returned", "reading"}

StraceTypeOK ==
    /\ at \in [Analyses -> {"new", "between", "left"} \cup Active]
    /\ stage \in [Analyses -> 0..MaxStages]
    /\ \A a \in Analyses :
          (at[a] \in Active => stage[a] \in 1..MaxStages) /\ (at[a] = "new" => stage[a] = 0)
    /\ starting \subseteq Logs /\ live \subseteq Logs /\ present \subseteq Logs
    /\ removed \subseteq Logs /\ overdue \subseteq Logs /\ cut \subseteq Logs
    /\ log \in [Logs -> Seq(Kinds)]
    /\ seen \in [Analyses -> SUBSET Logs]
    /\ todo \in [Analyses -> SUBSET Logs]
    /\ old \in [Analyses -> SUBSET Logs]
    /\ got \in [Analyses -> SUBSET (Logs \X Nat \X Nat)]
    /\ DOMAIN taken = Analyses /\ cleans \in 0..MaxCleans

StraceInit ==
    /\ at = [a \in Analyses |-> "new"]
    /\ stage = [a \in Analyses |-> 0]
    /\ starting = Others \X {1} /\ live = {}    \* made some time or never
    /\ log = [f \in Logs |-> <<>>]
    /\ present = {}
    /\ seen = [a \in Analyses |-> {}]
    /\ todo = [a \in Analyses |-> {}]
    /\ taken = [a \in Analyses |-> 0]
    /\ got = [a \in Analyses |-> {}]
    /\ overdue = {} /\ removed = {} /\ cut = {}
    /\ old = [a \in Analyses |-> {}]
    /\ cleans = 0

To(a, p) == at' = [at EXCEPT ![a] = p]
Own(a) == <<a, stage[a]>>     \* the log of the stage the analysis is in

\* Mutant: only the logs of containers that have exited are marked.
MarkExited(a) == seen' = [seen EXCEPT ![a] = @ \cup (present \ live)]

\* Mutant: only the analysis's own logs are marked.
MarkOwn(a) == seen' = [seen EXCEPT ![a] = {f \in present : f[1] = a}]

\* mark(): whatever is in the directory now is not to be read later.
Mark(a) == seen' = [seen EXCEPT ![a] = present]

-----------------------------------------------------------------------------
(* The analysis *)

Construct(a) ==
    /\ at[a] = "new"
    /\ Mark(a)
    /\ old' = [old EXCEPT ![a] = present]
    /\ To(a, "between")
    /\ UNCHANGED <<stage, hostVars, todo, taken, got, cut, overdue>>

MarkBefore(a) ==
    /\ at[a] = "between" /\ stage[a] < MaxStages
    /\ Mark(a)
    /\ stage' = [stage EXCEPT ![a] = @ + 1]
    /\ To(a, "marked")
    /\ UNCHANGED <<hostVars, todo, taken, got, cut, overdue, old>>

RunStage(a) ==
    /\ at[a] = "marked"
    /\ starting' = starting \cup {Own(a)}
    /\ To(a, "running")
    /\ UNCHANGED <<stage, live, log, present, removed, cleans, collectVars, overdue, old>>

\* The docker client returns when its container is gone or was never made, or
\* is killed when its time is over.
StageReturns(a) ==
    /\ at[a] = "running"
    /\ \/ Own(a) \notin starting \cup live /\ UNCHANGED overdue
       \/ overdue' = overdue \cup {Own(a)}
    /\ To(a, "returned")
    /\ UNCHANGED <<stage, hostVars, collectVars, old>>

\* No runtime, or the job was deleted: the stage's logs are not collected.
StageRaises(a) ==
    /\ at[a] \in {"marked", "returned"}
    /\ To(a, "left")
    /\ UNCHANGED <<stage, hostVars, collectVars, overdue, old>>

BeginCollect(a) ==
    /\ at[a] = "returned"
    /\ todo' = [todo EXCEPT ![a] = present \ seen[a]]
    /\ taken' = [taken EXCEPT ![a] = 0]
    /\ To(a, "reading")
    /\ UNCHANGED <<stage, hostVars, seen, got, cut, overdue, old>>

\* Events of the first n lines of a log.
EventsUpTo(lines, n) == MapThenFoldSet(LAMBDA x, y : x + y, 0, LAMBDA k : Events[lines[k]],
                                       LAMBDA S : CHOOSE k \in S : TRUE, 1..n)

\* The line after which the limit ends the reading: the test is made after an
\* entry line, not after a fork line.
Reaches(lines, n, k) == lines[k] # "fork" /\ n + EventsUpTo(lines, k) >= Limit

\* A collect that has m events already takes the first n of the lines.
Takes(lines, m, n) ==
    /\ \A k \in 1..(n - 1) : ~Reaches(lines, m, k)
    /\ n = Len(lines) \/ (n > 0 /\ Reaches(lines, m, n))

\* One log is read as it is now, or skipped if it is gone. The logs come in the
\* order of their names, which say nothing here.
ReadLog(a, f) ==
    /\ at[a] = "reading" /\ f \in todo[a]
    /\ LET lines == IF f \in present THEN log[f] ELSE <<>>
       IN \E n \in 0..Len(lines) :
            LET sum == taken[a] + EventsUpTo(lines, n)
                full == f \in present /\ sum >= Limit
            IN  /\ Takes(lines, taken[a], n)
                /\ got' = [got EXCEPT ![a] = @ \cup {<<f, k, stage[a]>> : k \in 1..n}]
                /\ taken' = [taken EXCEPT ![a] = sum]
                /\ todo' = [todo EXCEPT ![a] = IF full THEN {} ELSE @ \ {f}]
                /\ cut' = IF full THEN cut \cup {Own(a)} ELSE cut
    /\ UNCHANGED <<at, stage, hostVars, seen, overdue, old>>

EndCollect(a) ==
    /\ at[a] = "reading" /\ todo[a] = {}
    /\ Mark(a)
    /\ To(a, "between")
    /\ UNCHANGED <<stage, hostVars, todo, taken, got, cut, overdue, old>>

-----------------------------------------------------------------------------
(* Docker, the containers, and whoever looks after the directory *)

\* The daemon makes the container and its log, perhaps after the client that
\* asked for it was killed, or fails to.
MakeContainer(f) ==
    /\ f \in starting
    /\ starting' = starting \ {f}
    /\ \/ live' = live \cup {f} /\ present' = present \cup {f}
       \/ UNCHANGED <<live, present>>
    /\ UNCHANGED <<at, stage, log, removed, cleans, collectVars, overdue, old>>

WriteLine(f, kind) ==
    /\ f \in live \cap present /\ Len(log[f]) < MaxLines
    /\ log' = [log EXCEPT ![f] = Append(@, kind)]
    /\ UNCHANGED <<at, stage, starting, live, present, removed, cleans, collectVars, overdue, old>>

ContainerExits(f) ==
    /\ f \in live
    /\ live' = live \ {f}
    /\ UNCHANGED <<at, stage, starting, log, present, removed, cleans, collectVars, overdue, old>>

\* The README tells the operator to empty the directory now and then.
CleanDirectory ==
    /\ cleans < MaxCleans /\ present # {}
    /\ cleans' = cleans + 1
    /\ present' = {}
    /\ removed' = removed \cup present
    /\ UNCHANGED <<at, stage, starting, live, log, collectVars, overdue, old>>

StraceNext ==
    \/ \E a \in Analyses :
          \/ Construct(a) \/ MarkBefore(a) \/ RunStage(a) \/ StageReturns(a) \/ StageRaises(a)
          \/ BeginCollect(a) \/ EndCollect(a)
          \/ \E f \in Logs : ReadLog(a, f)
    \/ \E f \in Logs :
          MakeContainer(f) \/ ContainerExits(f) \/ \E kind \in Kinds : WriteLine(f, kind)
    \/ CleanDirectory

StraceSpec == StraceInit /\ [][StraceNext]_straceVars

-----------------------------------------------------------------------------
(* Properties *)

\* The log of a stage whose client returned in time is read to its last line,
\* for this stage, unless the limit or the removal of logs got in the way: it was
\* made after the mark before the stage, and was complete by the collect. And no
\* line is read for two stages, however long its log grew since.
FinishedStageIsReadOnce ==
    \A a \in Analyses :
        /\ \A s \in 1..MaxStages :
            /\ s < stage[a] \/ (s = stage[a] /\ at[a] = "between")
            /\ <<a, s>> \notin overdue \cup removed \cup cut
            => \A k \in DOMAIN log[<<a, s>>] : <<<<a, s>>, k, s>> \in got[a]
        /\ \A x, y \in got[a] : x[1] = y[1] => x[3] = y[3]

\* Events an analysis takes from a log that is not its own come from a container
\* made while the analysis ran.
ForeignOnlyIfConcurrent ==
    \A a \in Analyses : \A x \in got[a] : x[1] \notin old[a]

(* What the documentation says *)

\* README: logs/ holds the outputs of the same analysis, gvisor-trace.json all of
\* its behaviour. No event is another analysis's.
OnlyOwnEvents == \A a \in Analyses : \A x \in got[a] : x[1][1] = a
=============================================================================
