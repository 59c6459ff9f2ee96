----------------------------- MODULE JobService -----------------------------
(***************************************************************************)
(* The service of backend/app/main.py: analyses are accepted into the jobs  *)
(* dictionary, run by a pool of worker threads, and leave a report on disk  *)
(* (storage.py), while any client may delete any of them at any point.      *)
(*                                                                         *)
(* Endpoints and workers are threads of one process that share jobs and the *)
(* data directory without a lock. A step is what one of them does between   *)
(* two points where another can get in: one dictionary operation, or one    *)
(* file operation. What analyze_package does is cut down to what it does to  *)
(* jobs and to the data directory; the module Pipeline has the rest.        *)
(***************************************************************************)
EXTENDS Naturals, Sequences, FiniteSets

CONSTANTS
    Ids,          \* analysis ids
    Uploads,      \* those of analyses of an uploaded file
    MaxWorkers,   \* threads of the executor, 2 in the code
    MaxRestarts   \* bound: restarts of the service

ASSUME WorkersAssumption == MaxWorkers \in Nat \ {0}
ASSUME UploadsAssumption == Uploads \subseteq Ids
ASSUME RestartsAssumption == MaxRestarts \in Nat

VARIABLES
    jobs,       \* status of the entry in jobs, or "none"
    samples,    \* an upload's file below samples_dir
    queue,      \* the executor's work queue
    phase,      \* how far the analysis is
    outcome,    \* the status in its report, once it is made
    dir,        \* analyses that have a directory below data_dir
    file,       \* its report.json: "none", "partial", or the status in it
    deleting,   \* where a DELETE of the analysis is
    restarts,   \* restarts so far
    cancelled,  \* history: deleted before a worker began them
    interrupted \* history: deleted while stages remained

jobVars == <<jobs, samples, queue, phase, outcome, dir, file, deleting, restarts,
             cancelled, interrupted>>
history == <<restarts, cancelled, interrupted>>

Final == {"completed", "failed"}
Waiting == {"entered", "queued", "begin"}
Working == {"analysing", "finishing", "bundle", "logs", "save", "open", "writing", "publish"}
Over == {"done", "raised", "gone"}
Phases == {"new", "uploading", "refused"} \cup Waiting \cup Working \cup Over

JobTypeOK ==
    /\ jobs \in [Ids -> {"none", "queued", "running"} \cup Final]
    /\ samples \in [Ids -> {"none", "dir", "partial", "whole"}]
    /\ queue \in Seq(Ids)
    /\ phase \in [Ids -> Phases]
    /\ outcome \in [Ids -> {"none"} \cup Final]
    /\ dir \subseteq Ids
    /\ file \in [Ids -> {"none", "partial"} \cup Final]
    /\ deleting \in [Ids -> {"no", "pop", "unlink", "rmdir"}]
    /\ restarts \in 0..MaxRestarts
    /\ cancelled \subseteq Ids
    /\ interrupted \subseteq Ids

JobInit ==
    /\ jobs = [i \in Ids |-> "none"]
    /\ samples = [i \in Ids |-> "none"]
    /\ queue = <<>>
    /\ phase = [i \in Ids |-> "new"]
    /\ outcome = [i \in Ids |-> "none"]
    /\ dir = {}
    /\ file = [i \in Ids |-> "none"]
    /\ deleting = [i \in Ids |-> "no"]
    /\ restarts = 0
    /\ cancelled = {}
    /\ interrupted = {}

At(i, p) == phase[i] = p
To(i, p) == phase' = [phase EXCEPT ![i] = p]

-----------------------------------------------------------------------------
(* Accepting *)

EnterJob(i) == jobs' = [jobs EXCEPT ![i] = "queued"]

\* POST /api/analysis.
CreateAnalysis(i) ==
    /\ At(i, "new") /\ i \notin Uploads
    /\ EnterJob(i)
    /\ To(i, "entered")
    /\ UNCHANGED <<samples, queue, outcome, dir, file, deleting, history>>

\* POST /api/analysis/upload makes the directory, then takes the file in
\* chunks, awaiting each.
BeginUpload(i) ==
    /\ At(i, "new") /\ i \in Uploads
    /\ samples' = [samples EXCEPT ![i] = "dir"]
    /\ To(i, "uploading")
    /\ UNCHANGED <<jobs, queue, outcome, dir, file, deleting, history>>

\* A chunk is written; one chunk too many removes the file, not the directory.
ReceiveChunk(i) ==
    /\ At(i, "uploading")
    /\ samples[i] # "whole"
    /\ \/ samples' = [samples EXCEPT ![i] = "partial"] /\ UNCHANGED phase
       \/ samples' = [samples EXCEPT ![i] = "whole"] /\ UNCHANGED phase
       \/ samples' = [samples EXCEPT ![i] = "dir"] /\ To(i, "refused")
    /\ UNCHANGED <<jobs, queue, outcome, dir, file, deleting, history>>

AcceptUpload(i) ==
    /\ At(i, "uploading")
    /\ samples[i] = "whole"
    /\ EnterJob(i)
    /\ To(i, "entered")
    /\ UNCHANGED <<samples, queue, outcome, dir, file, deleting, history>>

\* executor.submit, a step after the entry: it may be gone already.
SubmitAnalysis(i) ==
    /\ At(i, "entered")
    /\ queue' = Append(queue, i)
    /\ To(i, "queued")
    /\ UNCHANGED <<jobs, samples, outcome, dir, file, deleting, history>>

-----------------------------------------------------------------------------
(* A worker *)

\* Mutant: an exception costs the executor its thread.
BusyOrDead == {i \in Ids : phase[i] \in Working \cup {"begin", "raised"}}

Busy == {i \in Ids : phase[i] \in Working \cup {"begin"}}

\* A free thread of the executor takes the oldest submission.
TakeWork ==
    /\ queue # <<>>
    /\ Cardinality(Busy) < MaxWorkers
    /\ To(Head(queue), "begin")
    /\ queue' = Tail(queue)
    /\ UNCHANGED <<jobs, samples, outcome, dir, file, deleting, history>>

\* Mutant: a missing entry is not noticed.
BeginRunUnchecked(i) ==
    /\ At(i, "begin")
    /\ jobs' = [jobs EXCEPT ![i] = IF @ = "none" THEN @ ELSE "running"]
    /\ To(i, "analysing")
    /\ UNCHANGED <<samples, queue, outcome, dir, file, deleting, history>>

\* jobs[analysis_id].update raises when the entry is gone, and the future that
\* holds the exception is never read.
BeginRun(i) ==
    /\ At(i, "begin")
    /\ IF jobs[i] = "none"
       THEN To(i, "raised") /\ UNCHANGED jobs
       ELSE To(i, "analysing") /\ jobs' = [jobs EXCEPT ![i] = "running"]
    /\ UNCHANGED <<samples, queue, outcome, dir, file, deleting, history>>

\* analyze_package made a report with this status.
MadeReport(i, s) ==
    /\ outcome' = [outcome EXCEPT ![i] = s]
    /\ To(i, "bundle")

\* Mutant: a status its readers do not know.
RunStageUnknownStatus(i) ==
    /\ At(i, "analysing")
    /\ \/ jobs[i] # "none" /\ To(i, "finishing") /\ UNCHANGED outcome
       \/ MadeReport(i, "error")
    /\ UNCHANGED <<jobs, samples, queue, dir, file, deleting, history>>

\* A stage ends and on_stage looks the entry up; the one after which no other
\* stage comes leads on. Without the entry, or when the stages fail otherwise,
\* the report is a failed one.
RunStage(i) ==
    /\ At(i, "analysing")
    /\ \/ jobs[i] # "none" /\ To(i, "finishing") /\ UNCHANGED outcome
       \/ MadeReport(i, "failed")
    /\ UNCHANGED <<jobs, samples, queue, dir, file, deleting, history>>

\* The work after the last stage, which looks no entry up.
MakeReport(i) ==
    /\ At(i, "finishing")
    /\ \E s \in Final : MadeReport(i, s)
    /\ UNCHANGED <<jobs, samples, queue, dir, file, deleting, history>>

\* Mutant: the worker marks the entry of a run that raised as failed.
RunRaisesMarked(i) ==
    /\ phase[i] \in {"analysing", "bundle", "logs", "save", "open", "writing"}
    /\ To(i, "raised")
    /\ jobs' = [jobs EXCEPT ![i] = IF @ = "none" THEN @ ELSE "failed"]
    /\ UNCHANGED <<samples, queue, outcome, dir, file, deleting, history>>

\* An exception outside analyze_package's try block, or in the functions that
\* write its results: the worker is free, the entry stays as it is.
RunRaises(i) ==
    /\ phase[i] \in {"analysing", "bundle", "logs", "save", "open", "writing"}
    /\ To(i, "raised")
    /\ UNCHANGED <<jobs, samples, queue, outcome, dir, file, deleting, history>>

\* write_log_bundle makes the directory, then writes file after file into it;
\* save_report makes the directory if it is gone, then opens report.json.
MakeDirectory(i, p, q) ==
    /\ At(i, p)
    /\ dir' = dir \cup {i}
    /\ To(i, q)
    /\ UNCHANGED <<jobs, samples, queue, outcome, file, deleting, history>>

MakeLogDirectory(i) == MakeDirectory(i, "bundle", "logs")
MakeReportDirectory(i) == MakeDirectory(i, "save", "open")

WriteLogs(i) ==
    /\ At(i, "logs")
    /\ To(i, IF i \in dir THEN "save" ELSE "raised")
    /\ UNCHANGED <<jobs, samples, queue, outcome, dir, file, deleting, history>>

OpenReport(i) ==
    /\ At(i, "open")
    /\ IF i \in dir
       THEN file' = [file EXCEPT ![i] = "partial"] /\ To(i, "writing")
       ELSE To(i, "raised") /\ UNCHANGED file
    /\ UNCHANGED <<jobs, samples, queue, outcome, dir, deleting, history>>

\* The rest of report.json is written, to no avail when it was unlinked.
WriteReport(i) ==
    /\ At(i, "writing")
    /\ file' = IF file[i] = "partial" THEN [file EXCEPT ![i] = outcome[i]] ELSE file
    /\ To(i, "publish")
    /\ UNCHANGED <<jobs, samples, queue, outcome, dir, deleting, history>>

\* Mutant: the update makes the entry anew if it is gone.
PublishAnew(i) ==
    /\ At(i, "publish")
    /\ To(i, "done")
    /\ jobs' = [jobs EXCEPT ![i] = outcome[i]]
    /\ UNCHANGED <<samples, queue, outcome, dir, file, deleting, history>>

\* The worker's last update of jobs, which raises without the entry.
PublishStatus(i) ==
    /\ At(i, "publish")
    /\ IF jobs[i] = "none"
       THEN To(i, "raised") /\ UNCHANGED jobs
       ELSE To(i, "done") /\ jobs' = [jobs EXCEPT ![i] = outcome[i]]
    /\ UNCHANGED <<samples, queue, outcome, dir, file, deleting, history>>

\* The run of either kind of analysis, one step after the other.
WorkerStep(i) ==
    \/ BeginRun(i) \/ RunStage(i) \/ MakeReport(i) \/ RunRaises(i) \/ MakeLogDirectory(i)
    \/ WriteLogs(i) \/ MakeReportDirectory(i) \/ OpenReport(i) \/ WriteReport(i)
    \/ PublishStatus(i)

-----------------------------------------------------------------------------
(* DELETE /api/analysis/{id} *)

\* The test: an entry or a readable report. Otherwise the request ends in a
\* 404, or a 500 over a partial report, and changes nothing.
BeginDelete(i) ==
    /\ deleting[i] = "no"
    /\ jobs[i] # "none" \/ file[i] \in Final
    /\ deleting' = [deleting EXCEPT ![i] = "pop"]
    /\ UNCHANGED <<jobs, samples, queue, phase, outcome, dir, file, history>>

PopJob(i) ==
    /\ deleting[i] = "pop"
    /\ jobs' = [jobs EXCEPT ![i] = "none"]
    /\ deleting' = [deleting EXCEPT ![i] = "unlink"]
    /\ cancelled' = IF phase[i] \in Waiting THEN cancelled \cup {i} ELSE cancelled
    /\ interrupted' = IF At(i, "analysing") THEN interrupted \cup {i} ELSE interrupted
    /\ UNCHANGED <<samples, queue, phase, outcome, dir, file, restarts>>

\* shutil.rmtree takes the files it found, then the directory, which stays if
\* something was written to it meanwhile; no error of it is reported.
UnlinkFiles(i) ==
    /\ deleting[i] = "unlink"
    /\ file' = [file EXCEPT ![i] = "none"]
    /\ deleting' = [deleting EXCEPT ![i] = "rmdir"]
    /\ UNCHANGED <<jobs, samples, queue, phase, outcome, dir, history>>

RemoveDirectory(i) ==
    /\ deleting[i] = "rmdir"
    /\ \/ dir' = dir
       \/ file[i] = "none" /\ dir' = dir \ {i}
    /\ deleting' = [deleting EXCEPT ![i] = "no"]
    /\ UNCHANGED <<jobs, samples, queue, phase, outcome, file, history>>

DeleteStep(i) == PopJob(i) \/ UnlinkFiles(i) \/ RemoveDirectory(i)

-----------------------------------------------------------------------------
\* The service dies and comes up again: what was in memory is gone, what is on
\* disk stays as it was.
Restart ==
    /\ restarts < MaxRestarts
    /\ restarts' = restarts + 1
    /\ jobs' = [i \in Ids |-> "none"]
    /\ queue' = <<>>
    /\ phase' = [i \in Ids |-> IF phase[i] \in Waiting \cup Working THEN "gone"
                               ELSE IF phase[i] = "uploading" THEN "refused" ELSE phase[i]]
    /\ deleting' = [i \in Ids |-> "no"]
    /\ UNCHANGED <<samples, outcome, dir, file, cancelled, interrupted>>

JobNext ==
    \/ \E i \in Ids :
          \/ CreateAnalysis(i) \/ BeginUpload(i) \/ ReceiveChunk(i) \/ AcceptUpload(i)
          \/ SubmitAnalysis(i) \/ WorkerStep(i) \/ BeginDelete(i) \/ DeleteStep(i)
    \/ TakeWork
    \/ Restart

JobSpec == JobInit /\ [][JobNext]_jobVars

\* A request that was begun and a worker's run go on: every call in them has a
\* timeout. Clients and restarts are under no obligation.
FairJobs ==
    /\ WF_jobVars(TakeWork)
    /\ \A i \in Ids :
          /\ WF_jobVars(SubmitAnalysis(i))
          /\ WF_jobVars(WorkerStep(i))
          /\ WF_jobVars(DeleteStep(i))

FairJobSpec == JobSpec /\ FairJobs

-----------------------------------------------------------------------------
(* Properties *)

\* What GET /api/analysis/{id} answers: the report if there is one, else the
\* entry in jobs, else 404.
Visible(i) ==
    IF file[i] = "partial" THEN "unreadable"
    ELSE IF file[i] # "none" THEN file[i]
    ELSE IF jobs[i] # "none" THEN jobs[i] ELSE "unknown"

RunOf(i) ==
    IF phase[i] \in Waiting \cup Working THEN "pending"
    ELSE IF phase[i] \in Over THEN "over" ELSE "new"

\* The service implements the life cycle its clients rely on.
Life == INSTANCE Lifecycle WITH
            visible <- [i \in Ids |-> Visible(i)],
            run <- [i \in Ids |-> RunOf(i)]

ImplementsLifecycle == Life!LifecycleSpec

\* A final status in jobs is that of the report on disk: the worker writes the
\* report before it updates the entry, a delete takes the entry before the file.
PublishedIsOnDisk == \A i \in Ids : jobs[i] \in Final => file[i] = jobs[i]

\* A deleted analysis trips over its missing entry. One deleted before a worker
\* got to it leaves nothing in the data directory; one deleted while stages
\* remained never has a completed report, though it may have a failed one,
\* written after the delete.
DeletedNeverCompletes ==
    /\ \A i \in cancelled : file[i] = "none" /\ i \notin dir
    /\ \A i \in interrupted : file[i] # "completed"

\* A report is unreadable only while its worker writes it, or for good if the
\* worker raised or the service died at that point.
UnreadableOnlyMidWrite ==
    \A i \in Ids : file[i] = "partial" => phase[i] \in {"writing", "raised", "gone"}

\* An accepted analysis is not left behind in the queue: its entry gets a final
\* status or is deleted, or its run raised.
AcceptedIsSettled ==
    \A i \in Ids : jobs[i] = "queued" ~>
        jobs[i] \in Final \cup {"none"} \/ phase[i] = "raised"

(* What the source says *)

\* main.py on jobs: in-flight job state, until report.json exists on disk.
EntryOnlyInFlight ==
    \A i \in Ids : file[i] \in Final /\ phase[i] = "done" => jobs[i] = "none"
=============================================================================
