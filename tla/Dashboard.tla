----------------------------- MODULE Dashboard -----------------------------
(***************************************************************************)
(* GET /api/analysis (list_analysis, backend/app/main.py) and the page that *)
(* polls it (frontend/index.html), next to everything JobService does.      *)
(*                                                                         *)
(* The endpoint reads the data directory first, one report after the other, *)
(* and jobs afterwards, so its answer is not the state of any one moment.   *)
(* The page shows the last answer and asks again every two seconds as long  *)
(* as that answer holds an analysis that is queued or running. One request  *)
(* of the page is in flight at a time.                                      *)
(***************************************************************************)
EXTENDS JobService

VARIABLES
    lister,    \* where the request is: "idle", "scan", "load" or "pending"
    todo,      \* directories still to be looked at
    loading,   \* the analysis whose report.json was found to exist
    saved,     \* analyses whose report was read
    steady,    \* history: in flight or reported when the request came, and
               \* neither deleted nor finished since
    shown,     \* what the page shows of an analysis: "nothing", "pending", "final"
    polling,   \* whether the page's timer is set
    due        \* whether the page is about to ask after a submission

listVars == <<lister, todo, loading, saved, steady>>
pageVars == <<shown, polling, due>>
dashboardVars == <<jobVars, listVars, pageVars>>

DashboardTypeOK ==
    /\ lister \in {"idle", "scan", "load", "pending"}
    /\ todo \subseteq Ids
    /\ loading \subseteq Ids
    /\ saved \subseteq Ids
    /\ steady \subseteq Ids
    /\ shown \in [Ids -> {"nothing", "pending", "final"}]
    /\ polling \in BOOLEAN
    /\ due \in BOOLEAN

DashboardInit ==
    /\ JobInit
    /\ lister = "idle"
    /\ todo = {} /\ loading = {} /\ saved = {} /\ steady = {}
    /\ shown = [i \in Ids |-> "nothing"]
    /\ polling = FALSE
    /\ due = FALSE

InFlight == {i \in Ids : jobs[i] \in {"queued", "running"}}

\* loadReports: the request arrives, and the names in the data directory are
\* read at once. The page asks on its timer, after a submission, or when its
\* user reloads it.
BeginList ==
    /\ lister = "idle"
    /\ lister' = "scan"
    /\ todo' = dir
    /\ steady' = InFlight \cup {i \in Ids : file[i] \in Final /\ deleting[i] = "no"}
    /\ due' = FALSE
    /\ UNCHANGED <<loading, saved, shown, polling, jobVars>>

Ask == (polling \/ due) /\ BeginList

\* An exception in the endpoint is a 500, over which the page keeps what it shows
\* and its timer.
FailList == lister' = "idle" /\ todo' = {} /\ loading' = {} /\ saved' = {}

\* Mutant: the report of an analysis that has an entry is not read.
LookIntoUnentered(i) ==
    /\ lister = "scan" /\ i \in todo
    /\ todo' = todo \ {i}
    /\ IF file[i] = "none" \/ jobs[i] # "none"
       THEN UNCHANGED <<lister, loading>>
       ELSE lister' = "load" /\ loading' = {i}
    /\ UNCHANGED <<saved, steady, pageVars, jobVars>>

\* Does the next directory hold a report.json?
LookInto(i) ==
    /\ lister = "scan" /\ i \in todo
    /\ todo' = todo \ {i}
    /\ IF file[i] = "none"
       THEN UNCHANGED <<lister, loading>>
       ELSE lister' = "load" /\ loading' = {i}
    /\ UNCHANGED <<saved, steady, pageVars, jobVars>>

\* load_report, by then: gone makes the answer hold a None, which raises one
\* line later; a partial one is no JSON.
LoadReport(i) ==
    /\ lister = "load" /\ i \in loading
    /\ \/ /\ file[i] \in Final
          /\ saved' = saved \cup {i}
          /\ loading' = {}
          /\ lister' = "scan"
          /\ UNCHANGED todo
       \/ file[i] \notin Final /\ FailList
    /\ UNCHANGED <<steady, pageVars, jobVars>>

EndScan ==
    /\ lister = "scan" /\ todo = {}
    /\ lister' = "pending"
    /\ UNCHANGED <<todo, loading, saved, steady, pageVars, jobVars>>

Pending == InFlight \ saved

\* Mutant: the timer is set only for two pending analyses and more.
AnswerPollsForTwo ==
    /\ lister = "pending"
    /\ shown' = [i \in Ids |-> IF i \in saved THEN "final"
                               ELSE IF i \in Pending THEN "pending" ELSE "nothing"]
    /\ polling' = (Cardinality(Pending) > 1)
    /\ FailList
    /\ UNCHANGED <<steady, due, jobVars>>

\* The entries of jobs are read, the answer goes out, and the page shows it and
\* sets or clears its timer.
AnswerList ==
    /\ lister = "pending"
    /\ shown' = [i \in Ids |-> IF i \in saved THEN "final"
                               ELSE IF i \in Pending THEN "pending" ELSE "nothing"]
    /\ polling' = (Pending # {})
    /\ FailList
    /\ UNCHANGED <<steady, due, jobVars>>

ListStep == (\E i \in Ids : LookInto(i) \/ LoadReport(i)) \/ EndScan \/ AnswerList

Entered == {i \in Ids : jobs[i] # "none"}

\* Next to a step of the service: a submission makes the page ask, a restart
\* ends the request. An entry that comes or goes while the endpoint iterates
\* over jobs may make it raise.
Follow ==
    /\ due' = (due \/ \E i \in Ids : SubmitAnalysis(i))
    /\ steady' = {i \in steady : deleting'[i] = "no" /\ (jobs'[i] \in Final => jobs[i] \in Final)}
    /\ \/ restarts' = restarts /\ UNCHANGED <<lister, todo, loading, saved>>
       \/ restarts' # restarts /\ FailList
       \/ lister = "pending" /\ Entered' # Entered /\ FailList
    /\ UNCHANGED <<shown, polling>>

ServiceStep == JobNext /\ Follow

DashboardNext == ServiceStep \/ BeginList \/ ListStep

DashboardSpec == DashboardInit /\ [][DashboardNext]_dashboardVars

\* Workers and requests go on, and the page's timer fires.
FairDashboardSpec ==
    /\ DashboardSpec
    /\ WF_dashboardVars(TakeWork /\ Follow)
    /\ \A i \in Ids :
          /\ WF_dashboardVars(SubmitAnalysis(i) /\ Follow)
          /\ WF_dashboardVars(WorkerStep(i) /\ Follow)
          /\ WF_dashboardVars(DeleteStep(i) /\ Follow)
    /\ WF_dashboardVars(Ask)
    /\ WF_dashboardVars(ListStep)

-----------------------------------------------------------------------------
(* Properties *)

\* An answer leaves out no analysis but one that was deleted or finished while
\* it was put together: the directory is read before jobs, so that a report
\* written in between has its entry still in flight when jobs is read.
AnswerMissesOnlyChanged == lister = "pending" => steady \subseteq saved \cup InFlight

\* A row does not go on saying that an analysis runs when its report is there:
\* a timer is set as long as such a row is shown, and a request that fails
\* clears neither. An unreadable report, of any analysis, makes them all fail.
StaleRowGoes ==
    \A i \in Ids : shown[i] = "pending" /\ file[i] \in Final
        ~> shown[i] # "pending" \/ \E j \in Ids : file[j] = "partial"

(* What the source says *)

\* index.html after a submission: the progress is to be seen in the list below.
\* An analysis the list shows in flight is in the end shown with its report,
\* unless it is deleted or its run or the list raises.
OutcomeIsShown ==
    \A i \in Ids : shown[i] = "pending"
        ~> \/ shown[i] = "final" \/ jobs[i] = "none" \/ phase[i] = "raised"
           \/ \E j \in Ids : file[j] = "partial"
=============================================================================
