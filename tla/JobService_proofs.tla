-------------------------- MODULE JobService_proofs --------------------------
(***************************************************************************)
(* Proofs about the service, for any number of analyses, uploads, workers  *)
(* and restarts: its invariants, that it implements Lifecycle, and what an *)
(* answer to the list request of Dashboard may leave out.                  *)
(***************************************************************************)
EXTENDS Dashboard, TLAPS

Unbegun == {"new", "uploading", "refused"} \cup Waiting

\* What is in jobs at each phase.
Entry(i) ==
    /\ phase[i] \in {"new", "uploading", "refused", "gone"} => jobs[i] = "none"
    /\ phase[i] \in {"new", "uploading", "refused"} => deleting[i] = "no"
    /\ phase[i] \in Waiting => jobs[i] \in {"queued", "none"}
    /\ phase[i] \in Working \cup {"raised"} => jobs[i] \in {"running", "none"}
    /\ phase[i] = "done" => jobs[i] \in {outcome[i], "none"}
    /\ deleting[i] \in {"unlink", "rmdir"} => jobs[i] = "none"

\* What is on disk. A file that was opened and whose entry is still in jobs has
\* not been unlinked.
OnDisk(i) ==
    /\ phase[i] \in Unbegun \cup {"analysing", "finishing", "bundle"} => i \notin dir
    /\ phase[i] \in Unbegun \cup {"analysing", "finishing", "bundle", "logs", "save", "open"}
          => file[i] = "none"
    /\ phase[i] \in {"bundle", "logs", "save", "open", "writing", "publish", "done"}
          => outcome[i] \in Final
    /\ phase[i] \in Unbegun \cup {"analysing", "finishing"} => outcome[i] = "none"
    /\ file[i] = "partial" => phase[i] \in {"writing", "raised", "gone"}
    /\ file[i] = "partial" => outcome[i] \in Final
    /\ file[i] \in Final => file[i] = outcome[i]
    /\ phase[i] = "writing" /\ jobs[i] # "none" => file[i] = "partial"
    /\ phase[i] = "writing" => file[i] \in {"partial", "none"}
    /\ phase[i] \in {"publish", "done"} /\ jobs[i] # "none" => file[i] = outcome[i]

\* What became of the analyses that were deleted early.
Deleted(i) ==
    /\ i \in cancelled =>
          /\ jobs[i] = "none" /\ file[i] = "none" /\ i \notin dir
          /\ phase[i] \in Waiting \cup {"raised", "gone"}
    /\ i \in interrupted =>
          /\ jobs[i] = "none" /\ outcome[i] # "completed"
          /\ phase[i] \notin Unbegun \cup {"finishing"}

\* The executor's queue holds the submissions no worker has taken, once each.
Queued ==
    /\ \A k \in 1..Len(queue) : phase[queue[k]] = "queued"
    /\ \A k, l \in 1..Len(queue) : queue[k] = queue[l] => k = l

JobInv ==
    /\ JobTypeOK
    /\ Queued
    /\ \A i \in Ids : Entry(i) /\ OnDisk(i) /\ Deleted(i)

-----------------------------------------------------------------------------
LEMMA JobInvInit == JobInit => JobInv
<1> SUFFICES ASSUME JobInit PROVE JobInv
  OBVIOUS
<1>1. JobTypeOK
  BY RestartsAssumption DEF JobInit, JobTypeOK, Phases
<1>2. Queued
  BY DEF JobInit, Queued
<1>3. \A i \in Ids : Entry(i) /\ OnDisk(i) /\ Deleted(i)
  BY DEF JobInit, Entry, OnDisk, Deleted, Waiting, Working, Unbegun, Final
<1> QED
  BY <1>1, <1>2, <1>3 DEF JobInv

LEMMA JobTypingStep == JobTypeOK /\ [JobNext]_jobVars => JobTypeOK'
<1> SUFFICES ASSUME JobTypeOK, [JobNext]_jobVars PROVE JobTypeOK'
  OBVIOUS
<1> USE RestartsAssumption DEF JobTypeOK, At, To, history, Phases, Waiting, Working, Over, Final
<1>1. ASSUME NEW j \in Ids, CreateAnalysis(j)
      PROVE JobTypeOK'
  BY <1>1 DEF CreateAnalysis, EnterJob
<1>2. ASSUME NEW j \in Ids, BeginUpload(j)
      PROVE JobTypeOK'
  BY <1>2 DEF BeginUpload
<1>3. ASSUME NEW j \in Ids, ReceiveChunk(j)
      PROVE JobTypeOK'
  BY <1>3 DEF ReceiveChunk
<1>4. ASSUME NEW j \in Ids, AcceptUpload(j)
      PROVE JobTypeOK'
  BY <1>4 DEF AcceptUpload, EnterJob
<1>5. ASSUME NEW j \in Ids, SubmitAnalysis(j)
      PROVE JobTypeOK'
  BY <1>5 DEF SubmitAnalysis
<1>6. ASSUME NEW j \in Ids, BeginRun(j)
      PROVE JobTypeOK'
  BY <1>6 DEF BeginRun
<1>7. ASSUME NEW j \in Ids, RunStage(j)
      PROVE JobTypeOK'
  BY <1>7 DEF RunStage, MadeReport
<1>8. ASSUME NEW j \in Ids, MakeReport(j)
      PROVE JobTypeOK'
  BY <1>8 DEF MakeReport, MadeReport
<1>9. ASSUME NEW j \in Ids, RunRaises(j)
      PROVE JobTypeOK'
  BY <1>9 DEF RunRaises
<1>10. ASSUME NEW j \in Ids, MakeLogDirectory(j)
       PROVE JobTypeOK'
  BY <1>10 DEF MakeLogDirectory, MakeDirectory
<1>11. ASSUME NEW j \in Ids, WriteLogs(j)
       PROVE JobTypeOK'
  BY <1>11 DEF WriteLogs
<1>12. ASSUME NEW j \in Ids, MakeReportDirectory(j)
       PROVE JobTypeOK'
  BY <1>12 DEF MakeReportDirectory, MakeDirectory
<1>13. ASSUME NEW j \in Ids, OpenReport(j)
       PROVE JobTypeOK'
  BY <1>13 DEF OpenReport
<1>14. ASSUME NEW j \in Ids, WriteReport(j)
       PROVE JobTypeOK'
  BY <1>14 DEF WriteReport
<1>15. ASSUME NEW j \in Ids, PublishStatus(j)
       PROVE JobTypeOK'
  BY <1>15 DEF PublishStatus
<1>16. ASSUME NEW j \in Ids, BeginDelete(j)
       PROVE JobTypeOK'
  BY <1>16 DEF BeginDelete
<1>17. ASSUME NEW j \in Ids, PopJob(j)
       PROVE JobTypeOK'
  BY <1>17 DEF PopJob
<1>18. ASSUME NEW j \in Ids, UnlinkFiles(j)
       PROVE JobTypeOK'
  BY <1>18 DEF UnlinkFiles
<1>19. ASSUME NEW j \in Ids, RemoveDirectory(j)
       PROVE JobTypeOK'
  BY <1>19 DEF RemoveDirectory
<1>20. CASE TakeWork
  BY <1>20 DEF TakeWork
<1>21. CASE Restart
  BY <1>21 DEF Restart
<1>22. CASE UNCHANGED jobVars
  BY <1>22 DEF jobVars
<1> QED
  BY <1>1, <1>2, <1>3, <1>4, <1>5, <1>6, <1>7, <1>8, <1>9, <1>10, <1>11,
     <1>12, <1>13, <1>14, <1>15, <1>16, <1>17, <1>18, <1>19, <1>20, <1>21,
     <1>22
     DEF JobNext, WorkerStep, DeleteStep

\* The head of the queue is a submission, and no longer queued once taken.
LEMMA QueuedStep == JobTypeOK /\ Queued /\ [JobNext]_jobVars => Queued'
<1> SUFFICES ASSUME JobTypeOK, Queued, [JobNext]_jobVars PROVE Queued'
  OBVIOUS
<1> USE DEF JobTypeOK, Queued, At, To, history
<1>1. ASSUME NEW j \in Ids, CreateAnalysis(j)
      PROVE Queued'
  BY <1>1 DEF CreateAnalysis, EnterJob
<1>2. ASSUME NEW j \in Ids, BeginUpload(j)
      PROVE Queued'
  BY <1>2 DEF BeginUpload
<1>3. ASSUME NEW j \in Ids, ReceiveChunk(j)
      PROVE Queued'
  BY <1>3 DEF ReceiveChunk
<1>4. ASSUME NEW j \in Ids, AcceptUpload(j)
      PROVE Queued'
  BY <1>4 DEF AcceptUpload, EnterJob
<1>5. ASSUME NEW j \in Ids, SubmitAnalysis(j)
      PROVE Queued'
  BY <1>5 DEF SubmitAnalysis
<1>6. ASSUME NEW j \in Ids, BeginRun(j)
      PROVE Queued'
  BY <1>6 DEF BeginRun
<1>7. ASSUME NEW j \in Ids, RunStage(j)
      PROVE Queued'
  BY <1>7 DEF RunStage, MadeReport
<1>8. ASSUME NEW j \in Ids, MakeReport(j)
      PROVE Queued'
  BY <1>8 DEF MakeReport, MadeReport
<1>9. ASSUME NEW j \in Ids, RunRaises(j)
      PROVE Queued'
  BY <1>9 DEF RunRaises
<1>10. ASSUME NEW j \in Ids, MakeLogDirectory(j)
       PROVE Queued'
  BY <1>10 DEF MakeLogDirectory, MakeDirectory
<1>11. ASSUME NEW j \in Ids, WriteLogs(j)
       PROVE Queued'
  BY <1>11 DEF WriteLogs
<1>12. ASSUME NEW j \in Ids, MakeReportDirectory(j)
       PROVE Queued'
  BY <1>12 DEF MakeReportDirectory, MakeDirectory
<1>13. ASSUME NEW j \in Ids, OpenReport(j)
       PROVE Queued'
  BY <1>13 DEF OpenReport
<1>14. ASSUME NEW j \in Ids, WriteReport(j)
       PROVE Queued'
  BY <1>14 DEF WriteReport
<1>15. ASSUME NEW j \in Ids, PublishStatus(j)
       PROVE Queued'
  BY <1>15 DEF PublishStatus
<1>16. ASSUME NEW j \in Ids, BeginDelete(j)
       PROVE Queued'
  BY <1>16 DEF BeginDelete
<1>17. ASSUME NEW j \in Ids, PopJob(j)
       PROVE Queued'
  BY <1>17 DEF PopJob
<1>18. ASSUME NEW j \in Ids, UnlinkFiles(j)
       PROVE Queued'
  BY <1>18 DEF UnlinkFiles
<1>19. ASSUME NEW j \in Ids, RemoveDirectory(j)
       PROVE Queued'
  BY <1>19 DEF RemoveDirectory
<1>20. CASE TakeWork
  BY <1>20 DEF TakeWork
<1>21. CASE Restart
  BY <1>21 DEF Restart
<1>22. CASE UNCHANGED jobVars
  BY <1>22 DEF jobVars
<1> QED
  BY <1>1, <1>2, <1>3, <1>4, <1>5, <1>6, <1>7, <1>8, <1>9, <1>10, <1>11,
     <1>12, <1>13, <1>14, <1>15, <1>16, <1>17, <1>18, <1>19, <1>20, <1>21,
     <1>22
     DEF JobNext, WorkerStep, DeleteStep

LEMMA HeadIsQueued ==
  ASSUME JobTypeOK, Queued, queue # <<>>
  PROVE  Head(queue) \in Ids /\ phase[Head(queue)] = "queued"
BY DEF JobTypeOK, Queued

LEMMA EntryStep == JobInv /\ [JobNext]_jobVars => \A i \in Ids : Entry(i)'
<1> SUFFICES ASSUME JobInv, [JobNext]_jobVars, NEW i \in Ids PROVE Entry(i)'
  OBVIOUS
<1>0. JobTypeOK /\ Queued /\ Entry(i) /\ OnDisk(i)
  BY DEF JobInv
<1> USE <1>0 DEF JobTypeOK, At, To, history, Entry, OnDisk, Unbegun, Waiting, Working, Over, Final
<1>1. ASSUME NEW j \in Ids, CreateAnalysis(j)
      PROVE Entry(i)'
  BY <1>1 DEF CreateAnalysis, EnterJob
<1>2. ASSUME NEW j \in Ids, BeginUpload(j)
      PROVE Entry(i)'
  BY <1>2 DEF BeginUpload
<1>3. ASSUME NEW j \in Ids, ReceiveChunk(j)
      PROVE Entry(i)'
  BY <1>3 DEF ReceiveChunk
<1>4. ASSUME NEW j \in Ids, AcceptUpload(j)
      PROVE Entry(i)'
  BY <1>4 DEF AcceptUpload, EnterJob
<1>5. ASSUME NEW j \in Ids, SubmitAnalysis(j)
      PROVE Entry(i)'
  BY <1>5 DEF SubmitAnalysis
<1>6. ASSUME NEW j \in Ids, BeginRun(j)
      PROVE Entry(i)'
  BY <1>6 DEF BeginRun
<1>7. ASSUME NEW j \in Ids, RunStage(j)
      PROVE Entry(i)'
  BY <1>7 DEF RunStage, MadeReport
<1>8. ASSUME NEW j \in Ids, MakeReport(j)
      PROVE Entry(i)'
  BY <1>8 DEF MakeReport, MadeReport
<1>9. ASSUME NEW j \in Ids, RunRaises(j)
      PROVE Entry(i)'
  BY <1>9 DEF RunRaises
<1>10. ASSUME NEW j \in Ids, MakeLogDirectory(j)
       PROVE Entry(i)'
  BY <1>10 DEF MakeLogDirectory, MakeDirectory
<1>11. ASSUME NEW j \in Ids, WriteLogs(j)
       PROVE Entry(i)'
  BY <1>11 DEF WriteLogs
<1>12. ASSUME NEW j \in Ids, MakeReportDirectory(j)
       PROVE Entry(i)'
  BY <1>12 DEF MakeReportDirectory, MakeDirectory
<1>13. ASSUME NEW j \in Ids, OpenReport(j)
       PROVE Entry(i)'
  BY <1>13 DEF OpenReport
<1>14. ASSUME NEW j \in Ids, WriteReport(j)
       PROVE Entry(i)'
  BY <1>14 DEF WriteReport
<1>15. ASSUME NEW j \in Ids, PublishStatus(j)
       PROVE Entry(i)'
  BY <1>15 DEF PublishStatus
<1>16. ASSUME NEW j \in Ids, BeginDelete(j)
       PROVE Entry(i)'
  BY <1>16 DEF BeginDelete
<1>17. ASSUME NEW j \in Ids, PopJob(j)
       PROVE Entry(i)'
  BY <1>17 DEF PopJob
<1>18. ASSUME NEW j \in Ids, UnlinkFiles(j)
       PROVE Entry(i)'
  BY <1>18 DEF UnlinkFiles
<1>19. ASSUME NEW j \in Ids, RemoveDirectory(j)
       PROVE Entry(i)'
  BY <1>19 DEF RemoveDirectory
<1>20. CASE TakeWork
  BY <1>20, HeadIsQueued DEF TakeWork
<1>21. CASE Restart
  BY <1>21 DEF Restart
<1>22. CASE UNCHANGED jobVars
  BY <1>22 DEF jobVars
<1> QED
  BY <1>1, <1>2, <1>3, <1>4, <1>5, <1>6, <1>7, <1>8, <1>9, <1>10, <1>11,
     <1>12, <1>13, <1>14, <1>15, <1>16, <1>17, <1>18, <1>19, <1>20, <1>21,
     <1>22
     DEF JobNext, WorkerStep, DeleteStep

LEMMA OnDiskStep == JobInv /\ [JobNext]_jobVars => \A i \in Ids : OnDisk(i)'
<1> SUFFICES ASSUME JobInv, [JobNext]_jobVars, NEW i \in Ids PROVE OnDisk(i)'
  OBVIOUS
<1>0. JobTypeOK /\ Queued /\ Entry(i) /\ OnDisk(i)
  BY DEF JobInv
<1> USE <1>0 DEF JobTypeOK, At, To, history, Entry, OnDisk, Unbegun, Waiting, Working, Over, Final
<1>1. ASSUME NEW j \in Ids, CreateAnalysis(j)
      PROVE OnDisk(i)'
  BY <1>1 DEF CreateAnalysis, EnterJob
<1>2. ASSUME NEW j \in Ids, BeginUpload(j)
      PROVE OnDisk(i)'
  BY <1>2 DEF BeginUpload
<1>3. ASSUME NEW j \in Ids, ReceiveChunk(j)
      PROVE OnDisk(i)'
  BY <1>3 DEF ReceiveChunk
<1>4. ASSUME NEW j \in Ids, AcceptUpload(j)
      PROVE OnDisk(i)'
  BY <1>4 DEF AcceptUpload, EnterJob
<1>5. ASSUME NEW j \in Ids, SubmitAnalysis(j)
      PROVE OnDisk(i)'
  BY <1>5 DEF SubmitAnalysis
<1>6. ASSUME NEW j \in Ids, BeginRun(j)
      PROVE OnDisk(i)'
  BY <1>6 DEF BeginRun
<1>7. ASSUME NEW j \in Ids, RunStage(j)
      PROVE OnDisk(i)'
  BY <1>7 DEF RunStage, MadeReport
<1>8. ASSUME NEW j \in Ids, MakeReport(j)
      PROVE OnDisk(i)'
  BY <1>8 DEF MakeReport, MadeReport
<1>9. ASSUME NEW j \in Ids, RunRaises(j)
      PROVE OnDisk(i)'
  BY <1>9 DEF RunRaises
<1>10. ASSUME NEW j \in Ids, MakeLogDirectory(j)
       PROVE OnDisk(i)'
  BY <1>10 DEF MakeLogDirectory, MakeDirectory
<1>11. ASSUME NEW j \in Ids, WriteLogs(j)
       PROVE OnDisk(i)'
  BY <1>11 DEF WriteLogs
<1>12. ASSUME NEW j \in Ids, MakeReportDirectory(j)
       PROVE OnDisk(i)'
  BY <1>12 DEF MakeReportDirectory, MakeDirectory
<1>13. ASSUME NEW j \in Ids, OpenReport(j)
       PROVE OnDisk(i)'
  BY <1>13 DEF OpenReport
<1>14. ASSUME NEW j \in Ids, WriteReport(j)
       PROVE OnDisk(i)'
  BY <1>14 DEF WriteReport
<1>15. ASSUME NEW j \in Ids, PublishStatus(j)
       PROVE OnDisk(i)'
  BY <1>15 DEF PublishStatus
<1>16. ASSUME NEW j \in Ids, BeginDelete(j)
       PROVE OnDisk(i)'
  BY <1>16 DEF BeginDelete
<1>17. ASSUME NEW j \in Ids, PopJob(j)
       PROVE OnDisk(i)'
  BY <1>17 DEF PopJob
<1>18. ASSUME NEW j \in Ids, UnlinkFiles(j)
       PROVE OnDisk(i)'
  BY <1>18 DEF UnlinkFiles
<1>19. ASSUME NEW j \in Ids, RemoveDirectory(j)
       PROVE OnDisk(i)'
  BY <1>19 DEF RemoveDirectory
<1>20. CASE TakeWork
  BY <1>20, HeadIsQueued DEF TakeWork
<1>21. CASE Restart
  BY <1>21 DEF Restart
<1>22. CASE UNCHANGED jobVars
  BY <1>22 DEF jobVars
<1> QED
  BY <1>1, <1>2, <1>3, <1>4, <1>5, <1>6, <1>7, <1>8, <1>9, <1>10, <1>11,
     <1>12, <1>13, <1>14, <1>15, <1>16, <1>17, <1>18, <1>19, <1>20, <1>21,
     <1>22
     DEF JobNext, WorkerStep, DeleteStep

LEMMA DeletedStep == JobInv /\ [JobNext]_jobVars => \A i \in Ids : Deleted(i)'
<1> SUFFICES ASSUME JobInv, [JobNext]_jobVars, NEW i \in Ids PROVE Deleted(i)'
  OBVIOUS
<1>0. JobTypeOK /\ Queued /\ Entry(i) /\ OnDisk(i) /\ Deleted(i)
  BY DEF JobInv
<1> USE <1>0 DEF JobTypeOK, At, To, history, Entry, OnDisk, Deleted, Unbegun, Waiting, Working, Over, Final
<1>1. ASSUME NEW j \in Ids, CreateAnalysis(j)
      PROVE Deleted(i)'
  BY <1>1 DEF CreateAnalysis, EnterJob
<1>2. ASSUME NEW j \in Ids, BeginUpload(j)
      PROVE Deleted(i)'
  BY <1>2 DEF BeginUpload
<1>3. ASSUME NEW j \in Ids, ReceiveChunk(j)
      PROVE Deleted(i)'
  BY <1>3 DEF ReceiveChunk
<1>4. ASSUME NEW j \in Ids, AcceptUpload(j)
      PROVE Deleted(i)'
  BY <1>4 DEF AcceptUpload, EnterJob
<1>5. ASSUME NEW j \in Ids, SubmitAnalysis(j)
      PROVE Deleted(i)'
  BY <1>5 DEF SubmitAnalysis
<1>6. ASSUME NEW j \in Ids, BeginRun(j)
      PROVE Deleted(i)'
  BY <1>6 DEF BeginRun
<1>7. ASSUME NEW j \in Ids, RunStage(j)
      PROVE Deleted(i)'
  BY <1>7 DEF RunStage, MadeReport
<1>8. ASSUME NEW j \in Ids, MakeReport(j)
      PROVE Deleted(i)'
  BY <1>8 DEF MakeReport, MadeReport
<1>9. ASSUME NEW j \in Ids, RunRaises(j)
      PROVE Deleted(i)'
  BY <1>9 DEF RunRaises
<1>10. ASSUME NEW j \in Ids, MakeLogDirectory(j)
       PROVE Deleted(i)'
  BY <1>10 DEF MakeLogDirectory, MakeDirectory
<1>11. ASSUME NEW j \in Ids, WriteLogs(j)
       PROVE Deleted(i)'
  BY <1>11 DEF WriteLogs
<1>12. ASSUME NEW j \in Ids, MakeReportDirectory(j)
       PROVE Deleted(i)'
  BY <1>12 DEF MakeReportDirectory, MakeDirectory
<1>13. ASSUME NEW j \in Ids, OpenReport(j)
       PROVE Deleted(i)'
  BY <1>13 DEF OpenReport
<1>14. ASSUME NEW j \in Ids, WriteReport(j)
       PROVE Deleted(i)'
  BY <1>14 DEF WriteReport
<1>15. ASSUME NEW j \in Ids, PublishStatus(j)
       PROVE Deleted(i)'
  BY <1>15 DEF PublishStatus
<1>16. ASSUME NEW j \in Ids, BeginDelete(j)
       PROVE Deleted(i)'
  BY <1>16 DEF BeginDelete
<1>17. ASSUME NEW j \in Ids, PopJob(j)
       PROVE Deleted(i)'
  BY <1>17 DEF PopJob
<1>18. ASSUME NEW j \in Ids, UnlinkFiles(j)
       PROVE Deleted(i)'
  BY <1>18 DEF UnlinkFiles
<1>19. ASSUME NEW j \in Ids, RemoveDirectory(j)
       PROVE Deleted(i)'
  BY <1>19 DEF RemoveDirectory
<1>20. CASE TakeWork
  BY <1>20, HeadIsQueued DEF TakeWork
<1>21. CASE Restart
  BY <1>21 DEF Restart
<1>22. CASE UNCHANGED jobVars
  BY <1>22 DEF jobVars
<1> QED
  BY <1>1, <1>2, <1>3, <1>4, <1>5, <1>6, <1>7, <1>8, <1>9, <1>10, <1>11,
     <1>12, <1>13, <1>14, <1>15, <1>16, <1>17, <1>18, <1>19, <1>20, <1>21,
     <1>22
     DEF JobNext, WorkerStep, DeleteStep

LEMMA JobInvariant == JobSpec => []JobInv
<1>1. JobInit => JobInv
  BY JobInvInit
<1>2. JobInv /\ [JobNext]_jobVars => JobInv'
  <2> SUFFICES ASSUME JobInv, [JobNext]_jobVars PROVE JobInv'
    OBVIOUS
  <2>1. JobTypeOK' /\ Queued'
    BY JobTypingStep, QueuedStep DEF JobInv
  <2>2. \A i \in Ids : Entry(i)' /\ OnDisk(i)' /\ Deleted(i)'
    BY EntryStep, OnDiskStep, DeletedStep
  <2> QED
    BY <2>1, <2>2 DEF JobInv
<1> QED
  BY <1>1, <1>2, PTL DEF JobSpec

-----------------------------------------------------------------------------
(* The theorems *)

\* Every variable of the service keeps its type.
THEOREM JobTyping == JobSpec => []JobTypeOK
<1>1. JobInv => JobTypeOK
  BY DEF JobInv
<1> QED
  BY <1>1, JobInvariant, PTL

\* A final status in jobs is the status of the report on disk.
THEOREM PublishedOnDisk == JobSpec => []PublishedIsOnDisk
<1>1. JobInv => PublishedIsOnDisk
  BY DEF JobInv, JobTypeOK, Entry, OnDisk, PublishedIsOnDisk, Phases, Waiting, Working, Over, Final
<1> QED
  BY <1>1, JobInvariant, PTL

\* An analysis deleted before it began leaves nothing on disk, one deleted
\* while stages remained has no completed report.
THEOREM NothingOfDeleted == JobSpec => []DeletedNeverCompletes
<1>1. JobInv => DeletedNeverCompletes
  BY DEF JobInv, JobTypeOK, OnDisk, Deleted, DeletedNeverCompletes, Final
<1> QED
  BY <1>1, JobInvariant, PTL

\* A report is unreadable only while it is written or after its writer died.
THEOREM UnreadableMidWrite == JobSpec => []UnreadableOnlyMidWrite
<1>1. JobInv => UnreadableOnlyMidWrite
  BY DEF JobInv, OnDisk, UnreadableOnlyMidWrite
<1> QED
  BY <1>1, JobInvariant, PTL
-----------------------------------------------------------------------------
(* The service implements the life cycle *)

\* A step that concerns one analysis only.
Touches(j) ==
    /\ jobs' = [jobs EXCEPT ![j] = jobs'[j]]
    /\ file' = [file EXCEPT ![j] = file'[j]]
    /\ phase' = [phase EXCEPT ![j] = phase'[j]]

\* How it may change the analysis's answer and its run.
Moves(v, r, w, s) ==
    \/ w = v /\ s = r
    \/ v = "unknown" /\ r = "new" /\ w = "queued" /\ s = "pending"
    \/ r = "pending" /\ s = r /\ v = "queued" /\ w = "running"
    \/ r = "pending" /\ s = r /\ v \in {"running", "unknown"} /\ w = "unreadable"
    \/ r = "pending" /\ s = r /\ v = "unreadable" /\ w \in Final
    \/ r = "pending" /\ s = "over" /\ w = v
    \/ w = "unknown" /\ s = r

LEMMA MoveIsStep ==
  ASSUME JobTypeOK, NEW j \in Ids, Touches(j),
         Moves(Visible(j), RunOf(j), Visible(j)', RunOf(j)')
  PROVE  [Life!LifecycleNext]_Life!lifecycleVars
<1> DEFINE vis == [i \in Ids |-> Visible(i)]
           run == [i \in Ids |-> RunOf(i)]
<1>1. \A i \in Ids \ {j} : Visible(i)' = Visible(i) /\ RunOf(i)' = RunOf(i)
  BY DEF Touches, JobTypeOK, Visible, RunOf
<1>2. vis' = [vis EXCEPT ![j] = Visible(j)'] /\ run' = [run EXCEPT ![j] = RunOf(j)']
  BY <1>1
<1>3. vis[j] = Visible(j) /\ run[j] = RunOf(j)
  OBVIOUS
<1>4. CASE UNCHANGED <<Visible(j), RunOf(j)>>
  <2>1. vis' = vis /\ run' = run
    BY <1>1, <1>4
  <2> QED
    BY <2>1 DEF Life!lifecycleVars
<1>5. CASE Visible(j) = "unknown" /\ RunOf(j) = "new" /\ Visible(j)' = "queued" /\ RunOf(j)' = "pending"
  <2>1. Life!Accept(j)
    BY <1>2, <1>3, <1>5 DEF Life!Accept, Life!Show
  <2> QED
    BY <2>1 DEF Life!LifecycleNext
<1>6. CASE /\ RunOf(j) = "pending" /\ RunOf(j)' = RunOf(j)
           /\ \/ Visible(j) = "queued" /\ Visible(j)' = "running"
              \/ Visible(j) \in {"running", "unknown"} /\ Visible(j)' = "unreadable"
              \/ Visible(j) = "unreadable" /\ Visible(j)' \in Final
  <2>1. run' = run
    BY <1>1, <1>6
  <2>2. Life!Advance(j)
    BY <1>2, <1>3, <1>6, <2>1 DEF Life!Advance, Life!Show, Life!Final, Final
  <2> QED
    BY <2>2 DEF Life!LifecycleNext
<1>7. CASE RunOf(j) = "pending" /\ RunOf(j)' = "over" /\ Visible(j)' = Visible(j)
  <2>1. vis' = vis
    BY <1>1, <1>7
  <2>2. Life!Finish(j)
    BY <1>2, <1>3, <1>7, <2>1 DEF Life!Finish
  <2> QED
    BY <2>2 DEF Life!LifecycleNext
<1>8. CASE Visible(j)' = "unknown" /\ RunOf(j)' = RunOf(j)
  <2>1. run' = run
    BY <1>1, <1>8
  <2>2. Life!Vanish(j)
    BY <1>2, <1>8, <2>1 DEF Life!Vanish, Life!Show
  <2> QED
    BY <2>2 DEF Life!LifecycleNext
<1> QED
  BY <1>4, <1>5, <1>6, <1>7, <1>8 DEF Moves

LEMMA RestartIsReset ==
  ASSUME JobTypeOK, PublishedIsOnDisk, Restart
  PROVE  Life!LifecycleNext
<1>1. \A i \in Ids : Visible(i)' = IF Visible(i) \in Final \cup {"unreadable"} THEN Visible(i)
                                   ELSE "unknown"
  BY DEF Restart, JobTypeOK, PublishedIsOnDisk, Visible, Final
<1>2. \A i \in Ids : RunOf(i)' = IF RunOf(i) = "pending" THEN "over" ELSE RunOf(i)
  BY DEF Restart, JobTypeOK, RunOf, Waiting, Working, Over
<1>3. Life!Reset
  BY <1>1, <1>2 DEF Life!Reset, Life!Final, Final
<1> QED
  BY <1>3 DEF Life!LifecycleNext

LEMMA JobInvPublished == JobInv => PublishedIsOnDisk
  BY DEF JobInv, JobTypeOK, Entry, OnDisk, PublishedIsOnDisk, Phases, Waiting, Working, Over, Final

LEMMA LifecycleStep ==
  JobInv /\ [JobNext]_jobVars => [Life!LifecycleNext]_Life!lifecycleVars
<1> SUFFICES ASSUME JobInv, [JobNext]_jobVars
             PROVE [Life!LifecycleNext]_Life!lifecycleVars
  OBVIOUS
<1>0. JobTypeOK /\ Queued /\ \A i \in Ids : Entry(i) /\ OnDisk(i)
  BY DEF JobInv
<1> DEFINE Allowed(j) == Touches(j) /\ Moves(Visible(j), RunOf(j), Visible(j)', RunOf(j)')
<1>a. ASSUME NEW j \in Ids, Allowed(j)
      PROVE [Life!LifecycleNext]_Life!lifecycleVars
  BY <1>0, <1>a, MoveIsStep
<1> USE DEF Touches, Moves, Visible, RunOf, Entry, OnDisk, JobTypeOK, At, To, history,
            Unbegun, Waiting, Working, Over, Final
<1>1. ASSUME NEW j \in Ids, CreateAnalysis(j)
      PROVE Allowed(j)
  BY <1>0, <1>1 DEF CreateAnalysis, EnterJob
<1>2. ASSUME NEW j \in Ids, BeginUpload(j)
      PROVE Allowed(j)
  BY <1>0, <1>2 DEF BeginUpload
<1>3. ASSUME NEW j \in Ids, ReceiveChunk(j)
      PROVE Allowed(j)
  BY <1>0, <1>3 DEF ReceiveChunk
<1>4. ASSUME NEW j \in Ids, AcceptUpload(j)
      PROVE Allowed(j)
  BY <1>0, <1>4 DEF AcceptUpload, EnterJob
<1>5. ASSUME NEW j \in Ids, SubmitAnalysis(j)
      PROVE Allowed(j)
  BY <1>0, <1>5 DEF SubmitAnalysis
<1>6. ASSUME NEW j \in Ids, BeginRun(j)
      PROVE Allowed(j)
  BY <1>0, <1>6 DEF BeginRun
<1>7. ASSUME NEW j \in Ids, RunStage(j)
      PROVE Allowed(j)
  BY <1>0, <1>7 DEF RunStage, MadeReport
<1>8. ASSUME NEW j \in Ids, MakeReport(j)
      PROVE Allowed(j)
  BY <1>0, <1>8 DEF MakeReport, MadeReport
<1>9. ASSUME NEW j \in Ids, RunRaises(j)
      PROVE Allowed(j)
  BY <1>0, <1>9 DEF RunRaises
<1>10. ASSUME NEW j \in Ids, MakeLogDirectory(j)
       PROVE Allowed(j)
  BY <1>0, <1>10 DEF MakeLogDirectory, MakeDirectory
<1>11. ASSUME NEW j \in Ids, WriteLogs(j)
       PROVE Allowed(j)
  BY <1>0, <1>11 DEF WriteLogs
<1>12. ASSUME NEW j \in Ids, MakeReportDirectory(j)
       PROVE Allowed(j)
  BY <1>0, <1>12 DEF MakeReportDirectory, MakeDirectory
<1>13. ASSUME NEW j \in Ids, OpenReport(j)
       PROVE Allowed(j)
  BY <1>0, <1>13 DEF OpenReport
<1>14. ASSUME NEW j \in Ids, WriteReport(j)
       PROVE Allowed(j)
  BY <1>0, <1>14 DEF WriteReport
<1>15. ASSUME NEW j \in Ids, PublishStatus(j)
       PROVE Allowed(j)
  BY <1>0, <1>15 DEF PublishStatus
<1>16. ASSUME NEW j \in Ids, BeginDelete(j)
       PROVE Allowed(j)
  BY <1>0, <1>16 DEF BeginDelete
<1>17. ASSUME NEW j \in Ids, PopJob(j)
       PROVE Allowed(j)
  BY <1>0, <1>17 DEF PopJob
<1>18. ASSUME NEW j \in Ids, UnlinkFiles(j)
       PROVE Allowed(j)
  BY <1>0, <1>18 DEF UnlinkFiles
<1>19. ASSUME NEW j \in Ids, RemoveDirectory(j)
       PROVE Allowed(j)
  BY <1>0, <1>19 DEF RemoveDirectory
<1>20. CASE TakeWork
  <2>1. PICK j \in Ids : j = Head(queue) /\ phase[j] = "queued"
    BY <1>0, <1>20, HeadIsQueued DEF TakeWork
  <2>2. /\ phase' = [phase EXCEPT ![j] = "begin"]
        /\ UNCHANGED <<jobs, file>>
    BY <1>20, <2>1 DEF TakeWork
  <2>3. Allowed(j)
    BY <1>0, <2>1, <2>2
  <2> QED
    BY <1>a, <2>3
<1>21. CASE UNCHANGED jobVars
  BY <1>21 DEF jobVars, Visible, RunOf, Life!lifecycleVars
<1> HIDE DEF Allowed, Touches, Moves, Visible, RunOf, Entry, OnDisk, JobTypeOK, At, To, history
<1>p. PublishedIsOnDisk
  BY JobInvPublished
<1> QED
  BY <1>a, <1>p, RestartIsReset, <1>0, <1>1, <1>2, <1>3, <1>4, <1>5,
     <1>6, <1>7, <1>8, <1>9, <1>10, <1>11, <1>12, <1>13, <1>14, <1>15,
     <1>16, <1>17, <1>18, <1>19, <1>20, <1>21
     DEF JobNext, WorkerStep, DeleteStep

\* A client polling one analysis sees no other sequence of answers than those of
\* Lifecycle: in particular a final answer changes no more but by vanishing, and
\* one whose run is over does not come back.
THEOREM LifecycleImplemented == JobSpec => ImplementsLifecycle
<1>1. JobInit => Life!LifecycleInit
  BY DEF JobInit, Life!LifecycleInit, Visible, RunOf, Waiting, Working, Over
<1>2. JobInv /\ [JobNext]_jobVars => [Life!LifecycleNext]_Life!lifecycleVars
  BY LifecycleStep
<1> QED
  BY <1>1, <1>2, JobInvariant, PTL DEF JobSpec, ImplementsLifecycle, Life!LifecycleSpec

-----------------------------------------------------------------------------
(* The list request *)

\* A report lies in a directory.
HasDirectory == \A i \in Ids : file[i] # "none" => i \in dir

\* Where the request has the names it still needs.
Reading ==
    /\ lister \in {"idle", "scan"} => loading = {}
    /\ lister = "load" => \E i \in Ids : loading = {i}
    /\ lister = "pending" => todo = {} /\ loading = {}

\* An analysis that was there all the time is still in flight, or its report was
\* read or is yet to be.
Covered(i) ==
    \/ jobs[i] \in {"queued", "running"}
    \/ deleting[i] = "no" /\ file[i] \in Final /\ i \in saved \cup todo \cup loading

DashInv ==
    /\ DashboardTypeOK
    /\ JobInv
    /\ HasDirectory
    /\ Reading
    /\ lister # "idle" => \A i \in steady : Covered(i)

-----------------------------------------------------------------------------
LEMMA HasDirectoryStep ==
  JobTypeOK /\ HasDirectory /\ [JobNext]_jobVars => HasDirectory'
<1> SUFFICES ASSUME JobTypeOK, HasDirectory, [JobNext]_jobVars PROVE HasDirectory'
  OBVIOUS
<1> USE DEF JobTypeOK, HasDirectory, At, To, history, Final
<1>1. ASSUME NEW j \in Ids, CreateAnalysis(j)
      PROVE HasDirectory'
  BY <1>1 DEF CreateAnalysis, EnterJob
<1>2. ASSUME NEW j \in Ids, BeginUpload(j)
      PROVE HasDirectory'
  BY <1>2 DEF BeginUpload
<1>3. ASSUME NEW j \in Ids, ReceiveChunk(j)
      PROVE HasDirectory'
  BY <1>3 DEF ReceiveChunk
<1>4. ASSUME NEW j \in Ids, AcceptUpload(j)
      PROVE HasDirectory'
  BY <1>4 DEF AcceptUpload, EnterJob
<1>5. ASSUME NEW j \in Ids, SubmitAnalysis(j)
      PROVE HasDirectory'
  BY <1>5 DEF SubmitAnalysis
<1>6. ASSUME NEW j \in Ids, BeginRun(j)
      PROVE HasDirectory'
  BY <1>6 DEF BeginRun
<1>7. ASSUME NEW j \in Ids, RunStage(j)
      PROVE HasDirectory'
  BY <1>7 DEF RunStage, MadeReport
<1>8. ASSUME NEW j \in Ids, MakeReport(j)
      PROVE HasDirectory'
  BY <1>8 DEF MakeReport, MadeReport
<1>9. ASSUME NEW j \in Ids, RunRaises(j)
      PROVE HasDirectory'
  BY <1>9 DEF RunRaises
<1>10. ASSUME NEW j \in Ids, MakeLogDirectory(j)
       PROVE HasDirectory'
  BY <1>10 DEF MakeLogDirectory, MakeDirectory
<1>11. ASSUME NEW j \in Ids, WriteLogs(j)
       PROVE HasDirectory'
  BY <1>11 DEF WriteLogs
<1>12. ASSUME NEW j \in Ids, MakeReportDirectory(j)
       PROVE HasDirectory'
  BY <1>12 DEF MakeReportDirectory, MakeDirectory
<1>13. ASSUME NEW j \in Ids, OpenReport(j)
       PROVE HasDirectory'
  BY <1>13 DEF OpenReport
<1>14. ASSUME NEW j \in Ids, WriteReport(j)
       PROVE HasDirectory'
  BY <1>14 DEF WriteReport
<1>15. ASSUME NEW j \in Ids, PublishStatus(j)
       PROVE HasDirectory'
  BY <1>15 DEF PublishStatus
<1>16. ASSUME NEW j \in Ids, BeginDelete(j)
       PROVE HasDirectory'
  BY <1>16 DEF BeginDelete
<1>17. ASSUME NEW j \in Ids, PopJob(j)
       PROVE HasDirectory'
  BY <1>17 DEF PopJob
<1>18. ASSUME NEW j \in Ids, UnlinkFiles(j)
       PROVE HasDirectory'
  BY <1>18 DEF UnlinkFiles
<1>19. ASSUME NEW j \in Ids, RemoveDirectory(j)
       PROVE HasDirectory'
  BY <1>19 DEF RemoveDirectory
<1>20. CASE TakeWork
  BY <1>20 DEF TakeWork
<1>21. CASE Restart
  BY <1>21 DEF Restart
<1>22. CASE UNCHANGED jobVars
  BY <1>22 DEF jobVars
<1> QED
  BY <1>1, <1>2, <1>3, <1>4, <1>5, <1>6, <1>7, <1>8, <1>9, <1>10, <1>11,
     <1>12, <1>13, <1>14, <1>15, <1>16, <1>17, <1>18, <1>19, <1>20, <1>21,
     <1>22
     DEF JobNext, WorkerStep, DeleteStep

\* A step of the service that neither deletes nor finishes an analysis leaves it
\* in flight, and its report as it is.
LEMMA ServiceKeeps ==
  ASSUME JobInv, JobNext, NEW i \in Ids,
         restarts' = restarts, deleting'[i] = "no", jobs'[i] \in Final => jobs[i] \in Final
  PROVE  /\ jobs[i] \in {"queued", "running"} => jobs'[i] \in {"queued", "running"}
         /\ file[i] \in Final /\ deleting[i] = "no" => file'[i] \in Final
<1> DEFINE Kept == /\ jobs[i] \in {"queued", "running"} => jobs'[i] \in {"queued", "running"}
                   /\ file[i] \in Final /\ deleting[i] = "no" => file'[i] \in Final
<1>0. JobTypeOK /\ OnDisk(i)
  BY DEF JobInv
<1> USE <1>0 DEF JobTypeOK, OnDisk, At, To, history, Final
<1>1. ASSUME NEW j \in Ids, CreateAnalysis(j)
      PROVE Kept
  BY <1>1 DEF CreateAnalysis, EnterJob
<1>2. ASSUME NEW j \in Ids, BeginUpload(j)
      PROVE Kept
  BY <1>2 DEF BeginUpload
<1>3. ASSUME NEW j \in Ids, ReceiveChunk(j)
      PROVE Kept
  BY <1>3 DEF ReceiveChunk
<1>4. ASSUME NEW j \in Ids, AcceptUpload(j)
      PROVE Kept
  BY <1>4 DEF AcceptUpload, EnterJob
<1>5. ASSUME NEW j \in Ids, SubmitAnalysis(j)
      PROVE Kept
  BY <1>5 DEF SubmitAnalysis
<1>6. ASSUME NEW j \in Ids, BeginRun(j)
      PROVE Kept
  BY <1>6 DEF BeginRun
<1>7. ASSUME NEW j \in Ids, RunStage(j)
      PROVE Kept
  BY <1>7 DEF RunStage, MadeReport
<1>8. ASSUME NEW j \in Ids, MakeReport(j)
      PROVE Kept
  BY <1>8 DEF MakeReport, MadeReport
<1>9. ASSUME NEW j \in Ids, RunRaises(j)
      PROVE Kept
  BY <1>9 DEF RunRaises
<1>10. ASSUME NEW j \in Ids, MakeLogDirectory(j)
       PROVE Kept
  BY <1>10 DEF MakeLogDirectory, MakeDirectory
<1>11. ASSUME NEW j \in Ids, WriteLogs(j)
       PROVE Kept
  BY <1>11 DEF WriteLogs
<1>12. ASSUME NEW j \in Ids, MakeReportDirectory(j)
       PROVE Kept
  BY <1>12 DEF MakeReportDirectory, MakeDirectory
<1>13. ASSUME NEW j \in Ids, OpenReport(j)
       PROVE Kept
  BY <1>13 DEF OpenReport
<1>14. ASSUME NEW j \in Ids, WriteReport(j)
       PROVE Kept
  BY <1>14 DEF WriteReport
<1>15. ASSUME NEW j \in Ids, PublishStatus(j)
       PROVE Kept
  BY <1>15 DEF PublishStatus
<1>16. ASSUME NEW j \in Ids, BeginDelete(j)
       PROVE Kept
  BY <1>16 DEF BeginDelete
<1>17. ASSUME NEW j \in Ids, PopJob(j)
       PROVE Kept
  BY <1>17 DEF PopJob
<1>18. ASSUME NEW j \in Ids, UnlinkFiles(j)
       PROVE Kept
  BY <1>18 DEF UnlinkFiles
<1>19. ASSUME NEW j \in Ids, RemoveDirectory(j)
       PROVE Kept
  BY <1>19 DEF RemoveDirectory
<1>20. CASE TakeWork
  BY <1>20 DEF TakeWork
<1>21. CASE Restart
  BY <1>21 DEF Restart
<1> QED
  BY <1>1, <1>2, <1>3, <1>4, <1>5, <1>6, <1>7, <1>8, <1>9, <1>10, <1>11,
     <1>12, <1>13, <1>14, <1>15, <1>16, <1>17, <1>18, <1>19, <1>20, <1>21
     DEF JobNext, WorkerStep, DeleteStep

LEMMA DashTypingStep ==
  DashboardTypeOK /\ JobTypeOK /\ [DashboardNext]_dashboardVars => DashboardTypeOK'
<1> SUFFICES ASSUME DashboardTypeOK, JobTypeOK, [DashboardNext]_dashboardVars
             PROVE  DashboardTypeOK'
  OBVIOUS
<1> USE DEF DashboardTypeOK, JobTypeOK, listVars, pageVars, FailList
<1>1. CASE ServiceStep
  BY <1>1 DEF ServiceStep, Follow
<1>2. CASE BeginList
  BY <1>2 DEF BeginList, InFlight
<1>3. ASSUME NEW i \in Ids, LookInto(i)
      PROVE  DashboardTypeOK'
  BY <1>3 DEF LookInto
<1>4. ASSUME NEW i \in Ids, LoadReport(i)
      PROVE  DashboardTypeOK'
  BY <1>4 DEF LoadReport
<1>5. CASE EndScan
  BY <1>5 DEF EndScan
<1>6. CASE AnswerList
  BY <1>6 DEF AnswerList
<1>7. CASE UNCHANGED dashboardVars
  BY <1>7 DEF dashboardVars
<1> QED
  BY <1>1, <1>2, <1>3, <1>4, <1>5, <1>6, <1>7 DEF DashboardNext, ListStep

\* A step of the request or the page is no step of the service.
LEMMA ServiceSteps == [DashboardNext]_dashboardVars => [JobNext]_jobVars
  BY DEF DashboardNext, ServiceStep, BeginList, ListStep, LookInto, LoadReport, EndScan,
         AnswerList, dashboardVars

LEMMA ReadingStep ==
  DashInv /\ [DashboardNext]_dashboardVars => Reading'
<1> SUFFICES ASSUME DashInv, [DashboardNext]_dashboardVars PROVE Reading'
  OBVIOUS
<1>0. DashboardTypeOK /\ Reading
  BY DEF DashInv
<1> USE <1>0 DEF DashboardTypeOK, Reading, listVars, pageVars, FailList
<1>1. CASE ServiceStep
  BY <1>1 DEF ServiceStep, Follow
<1>2. CASE BeginList
  BY <1>2 DEF BeginList
<1>3. ASSUME NEW i \in Ids, LookInto(i)
      PROVE  Reading'
  BY <1>3 DEF LookInto
<1>4. ASSUME NEW i \in Ids, LoadReport(i)
      PROVE  Reading'
  BY <1>4 DEF LoadReport
<1>5. CASE EndScan
  BY <1>5 DEF EndScan
<1>6. CASE AnswerList
  BY <1>6 DEF AnswerList
<1>7. CASE UNCHANGED dashboardVars
  BY <1>7 DEF dashboardVars
<1> QED
  BY <1>1, <1>2, <1>3, <1>4, <1>5, <1>6, <1>7 DEF DashboardNext, ListStep

LEMMA CoveredStep ==
  DashInv /\ [DashboardNext]_dashboardVars =>
    (lister' # "idle" => \A i \in steady' : Covered(i)')
<1> SUFFICES ASSUME DashInv, [DashboardNext]_dashboardVars, lister' # "idle",
                    NEW i \in steady'
             PROVE  Covered(i)'
  OBVIOUS
<1>0. /\ DashboardTypeOK /\ Reading /\ HasDirectory /\ JobTypeOK /\ JobInv
      /\ lister # "idle" => \A k \in steady : Covered(k)
  BY DEF DashInv, JobInv
<1> USE DEF DashboardTypeOK, listVars, pageVars, FailList
<1>1. CASE ServiceStep
  <2>1. /\ JobNext /\ restarts' = restarts /\ UNCHANGED <<lister, todo, loading, saved>>
        /\ i \in steady /\ deleting'[i] = "no" /\ (jobs'[i] \in Final => jobs[i] \in Final)
    BY <1>1 DEF ServiceStep, Follow
  <2>2. i \in Ids /\ Covered(i)
    BY <1>0, <2>1
  <2>3. /\ jobs[i] \in {"queued", "running"} => jobs'[i] \in {"queued", "running"}
        /\ file[i] \in Final /\ deleting[i] = "no" => file'[i] \in Final
    BY <1>0, <2>1, <2>2, ServiceKeeps
  <2> QED
    BY <2>1, <2>2, <2>3 DEF Covered
<1>2. CASE BeginList
  <2>1. i \in Ids /\ (jobs[i] \in {"queued", "running"} \/ (file[i] \in Final /\ deleting[i] = "no"))
    BY <1>2 DEF BeginList, InFlight
  <2>2. file[i] \in Final => i \in todo'
    BY <1>0, <1>2, <2>1 DEF BeginList, HasDirectory, Final
  <2> QED
    BY <1>2, <2>1, <2>2 DEF BeginList, Covered, jobVars
<1>3. ASSUME NEW j \in Ids, LookInto(j)
      PROVE  Covered(i)'
  <2>1. i \in steady /\ Covered(i) /\ loading = {} /\ saved' = saved
        /\ UNCHANGED <<jobs, file, deleting>>
    BY <1>0, <1>3 DEF LookInto, Reading, jobVars
  <2>2. file[i] \in Final => i \in saved' \cup todo' \cup loading' \/ i \notin saved \cup todo \cup loading
    BY <1>3, <2>1 DEF LookInto, Final
  <2> QED
    BY <2>1, <2>2 DEF Covered
<1>4. ASSUME NEW j \in Ids, LoadReport(j)
      PROVE  Covered(i)'
  BY <1>0, <1>4 DEF LoadReport, Covered, Reading, jobVars
<1>5. CASE EndScan
  BY <1>0, <1>5 DEF EndScan, Covered, jobVars
<1>6. CASE AnswerList
  BY <1>6 DEF AnswerList
<1>7. CASE UNCHANGED dashboardVars
  BY <1>0, <1>7 DEF dashboardVars, Covered, jobVars
<1> QED
  BY <1>1, <1>2, <1>3, <1>4, <1>5, <1>6, <1>7 DEF DashboardNext, ListStep

LEMMA DashInvariant == DashboardSpec => []DashInv
<1>1. DashboardInit => DashInv
  <2> SUFFICES ASSUME DashboardInit PROVE DashInv
    OBVIOUS
  <2>1. JobInv
    BY JobInvInit DEF DashboardInit
  <2> QED
    BY <2>1 DEF DashboardInit, JobInit, DashInv, DashboardTypeOK, HasDirectory, Reading
<1>2. DashInv /\ [DashboardNext]_dashboardVars => DashInv'
  <2> SUFFICES ASSUME DashInv, [DashboardNext]_dashboardVars PROVE DashInv'
    OBVIOUS
  <2>1. JobInv /\ JobTypeOK /\ HasDirectory /\ DashboardTypeOK
    BY DEF DashInv, JobInv
  <2>2. JobInv'
    <3>1. JobTypeOK' /\ Queued'
      BY <2>1, ServiceSteps, JobTypingStep, QueuedStep DEF JobInv
    <3>2. \A i \in Ids : Entry(i)' /\ OnDisk(i)' /\ Deleted(i)'
      BY <2>1, ServiceSteps, EntryStep, OnDiskStep, DeletedStep
    <3> QED
      BY <3>1, <3>2 DEF JobInv
  <2>3. HasDirectory' /\ DashboardTypeOK'
    BY <2>1, ServiceSteps, HasDirectoryStep, DashTypingStep
  <2>4. Reading' /\ (lister' # "idle" => \A i \in steady' : Covered(i)')
    BY ReadingStep, CoveredStep
  <2> QED
    BY <2>2, <2>3, <2>4 DEF DashInv
<1> QED
  BY <1>1, <1>2, PTL DEF DashboardSpec

-----------------------------------------------------------------------------
(* The theorems about the list request *)

\* Every variable of the request and of the page keeps its type.
THEOREM DashboardTyping == DashboardSpec => []DashboardTypeOK
<1>1. DashInv => DashboardTypeOK
  BY DEF DashInv
<1> QED
  BY <1>1, DashInvariant, PTL

\* list_analysis leaves out no analysis that was there when it was asked, but for
\* one deleted or finished while the answer was put together.
THEOREM AnswerMisses == DashboardSpec => []AnswerMissesOnlyChanged
<1>1. DashInv => AnswerMissesOnlyChanged
  BY DEF DashInv, DashboardTypeOK, Reading, Covered, AnswerMissesOnlyChanged, InFlight
<1> QED
  BY <1>1, DashInvariant, PTL
=============================================================================
