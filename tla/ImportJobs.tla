----------------------------- MODULE ImportJobs -----------------------------
(***************************************************************************)
(* The import jobs of one power station: who may start, resume and cancel  *)
(* one, and what becomes of the uploaded file                              *)
(* (services/data_import_service.py, repositories/data_import.py).         *)
(*                                                                         *)
(* Job j is created by one upload request, req[j].  The request locks the  *)
(* station's row (SELECT ... FOR UPDATE) from its first statement to the   *)
(* commit that inserts the job, which is what makes the check for a        *)
(* running job and the insert one unit.  Resume and cancel lock the job's  *)
(* row only.  Runs are those of ImportRun, reduced to what they write into *)
(* job.status.                                                             *)
(***************************************************************************)
EXTENDS Integers, FiniteSets

CONSTANTS
  Jobs,         \* jobs, one per upload request
  NoJob,        \* the station's row is not locked
  MaxResumes,   \* bound: accepted resumes per job
  ImportTypes,  \* the import types that uploads name
  Faults        \* what may be lost: "request", "run"

ASSUME ImportJobsAssumption ==
  /\ NoJob \notin Jobs
  /\ MaxResumes \in Nat
  /\ Faults \subseteq {"request", "run"}

VARIABLES
  isActive,   \* station.is_active
  lock,       \* the upload request that holds the station's row
  req,        \* where the upload request of the job stands
  upload,     \* the job's upload directory
  status,     \* job.status; "absent" before the insert is committed
  resumes,    \* accepted resumes of the job
  resuming,   \* accepted resumes whose task is not published yet
  failing,    \* accepted resumes that failed to publish it and have not said so
  queued,     \* runs in the broker
  running,    \* runs in a worker
  revived     \* history: jobs that left a final status again

flight  == <<resuming, failing, queued, running>>
vars    == <<isActive, lock, req, upload, status, resumes, flight, revived>>

ActiveStatus == {"pending", "processing"}
FinalStatus  == {"completed", "failed", "cancelled"}
(* The statements between the lock and the commit of an upload request.    *)
Holding == {"locked", "saving", "saved"}
(* The import types that have a task.                                      *)
TaskMap == {"trading_data", "station_output", "storage_operation"}

(* Slip: pending jobs are overlooked.                                      *)
HasStartedJob == \E j \in Jobs : status[j] = "processing"

(* has_processing_job                                                      *)
HasProcessingJob == \E j \in Jobs : status[j] \in ActiveStatus

-----------------------------------------------------------------------------
Init ==
  /\ isActive = TRUE
  /\ lock = NoJob
  /\ req = [j \in Jobs |-> "idle"]
  /\ upload = [j \in Jobs |-> "none"]
  /\ status = [j \in Jobs |-> "absent"]
  /\ resumes = [j \in Jobs |-> 0]
  /\ resuming = [j \in Jobs |-> 0]
  /\ failing = [j \in Jobs |-> 0]
  /\ queued = [j \in Jobs |-> 0]
  /\ running = [j \in Jobs |-> 0]
  /\ revived = {}

-----------------------------------------------------------------------------
(* create_import_job.                                                      *)

Step(j, from, to) == req[j] = from /\ req' = [req EXCEPT ![j] = to]

(* The request arrives and asks for the station's row.                     *)
Arrive(j) ==
  /\ Step(j, "idle", "waiting")
  /\ UNCHANGED <<isActive, lock, upload, status, resumes, flight, revived>>

LockStation(j) ==
  /\ lock = NoJob
  /\ Step(j, "waiting", "locked")
  /\ lock' = j
  /\ UNCHANGED <<isActive, upload, status, resumes, flight, revived>>

(* Slip: the refused request keeps its transaction open.                   *)
RefuseHoldingLock(j) ==
  /\ ~isActive \/ HasProcessingJob
  /\ Step(j, "locked", "refused")
  /\ UNCHANGED <<isActive, lock, upload, status, resumes, flight, revived>>

(* 404 or 409: the exception rolls the transaction back.                   *)
Refuse(j) ==
  /\ ~isActive \/ HasProcessingJob
  /\ Step(j, "locked", "refused")
  /\ lock' = NoJob
  /\ UNCHANGED <<isActive, upload, status, resumes, flight, revived>>

(* Both checks passed: the upload directory is made and the file opened.   *)
Accept(j) ==
  /\ isActive /\ ~HasProcessingJob
  /\ Step(j, "locked", "saving")
  /\ upload' = [upload EXCEPT ![j] = "partial"]
  /\ UNCHANGED <<isActive, lock, status, resumes, flight, revived>>

SaveFile(j) ==
  /\ Step(j, "saving", "saved")
  /\ upload' = [upload EXCEPT ![j] = "full"]
  /\ UNCHANGED <<isActive, lock, status, resumes, flight, revived>>

(* Slip: the orphaned file is not removed.                                 *)
UndoWithoutCleanup(j) ==
  /\ \E from \in {"saving", "saved"} : Step(j, from, "refused")
  /\ lock' = NoJob
  /\ UNCHANGED <<isActive, upload, status, resumes, flight, revived>>

(* FILE_TOO_LARGE, or the insert or its commit raised: the request removes *)
(* what it has written, then its transaction is rolled back.               *)
Undo(j) ==
  /\ \E from \in {"saving", "saved"} : Step(j, from, "refused")
  /\ upload' = [upload EXCEPT ![j] = "none"]
  /\ lock' = NoJob
  /\ UNCHANGED <<isActive, status, resumes, flight, revived>>

(* Any other error while the file is written (a full disk, a client that   *)
(* goes away) is not caught: what was written stays.                       *)
WriteError(j) ==
  /\ Step(j, "saving", "broken")
  /\ lock' = NoJob
  /\ UNCHANGED <<isActive, upload, status, resumes, flight, revived>>

(* The job is inserted and committed, which releases the station.          *)
CommitJob(j) ==
  /\ Step(j, "saved", "dispatch")
  /\ status' = [status EXCEPT ![j] = "pending"]
  /\ lock' = NoJob
  /\ UNCHANGED <<isActive, upload, resumes, flight, revived>>

Dispatch(j) ==
  /\ ImportTypes \cap TaskMap # {}
  /\ Step(j, "dispatch", "done")
  /\ queued' = [queued EXCEPT ![j] = @ + 1]
  /\ UNCHANGED <<isActive, lock, upload, status, resumes, resuming, failing,
                 running, revived>>

(* The upload names a type that the API and the table accept and that has  *)
(* no task (market_data): the request fails after its commit.              *)
LackTask(j) ==
  /\ ImportTypes \ TaskMap # {}
  /\ Step(j, "dispatch", "broken")
  /\ UNCHANGED <<isActive, lock, upload, status, resumes, flight, revived>>

(* apply_async raised; the message may be in the broker nevertheless.      *)
DispatchFail(j) ==
  /\ ImportTypes \cap TaskMap # {}
  /\ Step(j, "dispatch", "failing")
  /\ \E n \in {0, 1} : queued' = [queued EXCEPT ![j] = @ + n]
  /\ UNCHANGED <<isActive, lock, upload, status, resumes, resuming, failing,
                 running, revived>>

RecordFailure(j) ==
  /\ Step(j, "failing", "done")
  /\ status' = [status EXCEPT ![j] = "failed"]
  /\ UNCHANGED <<isActive, lock, upload, resumes, flight, revived>>

(* The API process dies in the request: its locks go, its files stay.      *)
RequestLost(j) ==
  /\ "request" \in Faults
  /\ \E from \in {"waiting", "dispatch", "failing"} \cup Holding : Step(j, from, "broken")
  /\ lock' = IF lock = j THEN NoJob ELSE lock
  /\ UNCHANGED <<isActive, upload, status, resumes, flight, revived>>

-----------------------------------------------------------------------------
(* cancel_import_job and resume_import_job, under the job's row lock.      *)

Cancel(j) ==
  /\ status[j] = "processing"
  /\ status' = [status EXCEPT ![j] = "cancelled"]
  /\ UNCHANGED <<isActive, lock, req, upload, resumes, flight, revived>>

Resume(j) ==
  /\ status[j] \in {"failed", "cancelled"}
  /\ resumes[j] < MaxResumes
  /\ resumes' = [resumes EXCEPT ![j] = @ + 1]
  /\ status' = [status EXCEPT ![j] = "processing"]
  /\ resuming' = [resuming EXCEPT ![j] = @ + 1]
  /\ revived' = revived \cup {j}
  /\ UNCHANGED <<isActive, lock, req, upload, failing, queued, running>>

(* The resume publishes its task, fails to (though the message may be      *)
(* there), or is lost.                                                     *)
PublishResume(j) ==
  /\ resuming[j] > 0
  /\ resuming' = [resuming EXCEPT ![j] = @ - 1]
  /\ \/ /\ queued' = [queued EXCEPT ![j] = @ + 1]
        /\ UNCHANGED failing
     \/ /\ \E n \in {0, 1} : queued' = [queued EXCEPT ![j] = @ + n]
        /\ failing' = [failing EXCEPT ![j] = @ + 1]
     \/ /\ "request" \in Faults
        /\ UNCHANGED <<failing, queued>>
  /\ UNCHANGED <<isActive, lock, req, upload, status, resumes, running, revived>>

ResumeFails(j) ==
  /\ failing[j] > 0
  /\ failing' = [failing EXCEPT ![j] = @ - 1]
  /\ \/ status' = [status EXCEPT ![j] = "failed"]
     \/ "request" \in Faults /\ UNCHANGED status
  /\ UNCHANGED <<isActive, lock, req, upload, resumes, resuming, queued,
                 running, revived>>

-----------------------------------------------------------------------------
(* Runs, as far as they write job.status.                                  *)

(* _init_import                                                            *)
StartRun(j) ==
  /\ queued[j] > 0
  /\ queued' = [queued EXCEPT ![j] = @ - 1]
  /\ running' = [running EXCEPT ![j] = @ + 1]
  /\ status' = [status EXCEPT ![j] = "processing"]
  /\ revived' = IF status[j] \in FinalStatus THEN revived \cup {j} ELSE revived
  /\ UNCHANGED <<isActive, lock, req, upload, resumes, resuming, failing>>

(* finalize, or the except branch of _run_import_task                      *)
EndRun(j) ==
  /\ running[j] > 0
  /\ running' = [running EXCEPT ![j] = @ - 1]
  /\ \E s \in {"completed", "failed"} : status' = [status EXCEPT ![j] = s]
  /\ UNCHANGED <<isActive, lock, req, upload, resumes, resuming, failing,
                 queued, revived>>

(* A run is revoked, or its message or its worker is lost.                 *)
LoseRun(j) ==
  /\ "run" \in Faults
  /\ \/ /\ queued[j] > 0
        /\ queued' = [queued EXCEPT ![j] = @ - 1]
        /\ UNCHANGED running
     \/ /\ running[j] > 0
        /\ running' = [running EXCEPT ![j] = @ - 1]
        /\ UNCHANGED queued
  /\ UNCHANGED <<isActive, lock, req, upload, status, resumes, resuming, failing,
                 revived>>

(* update_station and delete_station write the station's row and wait for  *)
(* its lock.                                                               *)
SwitchStation ==
  /\ lock = NoJob
  /\ isActive' = ~isActive
  /\ UNCHANGED <<lock, req, upload, status, resumes, flight, revived>>

-----------------------------------------------------------------------------
(* What a request does once it has arrived.                                *)
Proceed(j) ==
  \/ LockStation(j) \/ Refuse(j) \/ Accept(j) \/ SaveFile(j) \/ Undo(j)
  \/ WriteError(j) \/ CommitJob(j) \/ LackTask(j) \/ Dispatch(j) \/ DispatchFail(j)
  \/ RecordFailure(j)

RunStep(j) == PublishResume(j) \/ ResumeFails(j) \/ StartRun(j) \/ EndRun(j)

Next ==
  \/ SwitchStation
  \/ \E j \in Jobs : \/ Arrive(j) \/ Proceed(j) \/ RequestLost(j)
                     \/ Cancel(j) \/ Resume(j) \/ RunStep(j) \/ LoseRun(j)

Spec == Init /\ [][Next]_vars

(* Requests and runs keep going, and the queue of a row lock is first come, *)
(* first served.                                                           *)
Fairness == \A j \in Jobs : SF_vars(Proceed(j)) /\ WF_vars(RunStep(j))

FairSpec == Spec /\ Fairness

-----------------------------------------------------------------------------
(* Properties.                                                             *)

(* Every variable stays in the set the code and the schema give it.        *)
TypeOK ==
  /\ isActive \in BOOLEAN
  /\ lock \in Jobs \cup {NoJob}
  /\ req \in [Jobs -> {"idle", "waiting", "dispatch", "failing", "done", "refused", "broken"}
                        \cup Holding]
  /\ upload \in [Jobs -> {"none", "partial", "full"}]
  /\ status \in [Jobs -> {"absent"} \cup ActiveStatus \cup FinalStatus]
  /\ resumes \in [Jobs -> Nat]
  /\ resuming \in [Jobs -> Nat]
  /\ failing \in [Jobs -> Nat]
  /\ queued \in [Jobs -> Nat]
  /\ running \in [Jobs -> Nat]
  /\ revived \in SUBSET Jobs

(* Uploads exclude each other: of two jobs of the station that are pending *)
(* or processing, one has come back from a final status.  However requests *)
(* interleave with each other and with runs, cancels and resumes, creating *)
(* jobs alone never makes two of them active.                              *)
UploadsExclude ==
  \A j, k \in Jobs :
    /\ j # k
    /\ status[j] \in ActiveStatus
    /\ status[k] \in ActiveStatus
    => j \in revived \/ k \in revived

(* Files and jobs match: a job that can run has its whole file, and a      *)
(* directory without a job belongs to a request that is still at work or   *)
(* that broke; a refused request leaves neither.                           *)
FilesMatchJobs ==
  \A j \in Jobs :
    /\ status[j] # "absent" => upload[j] = "full"
    /\ status[j] = "absent" /\ upload[j] # "none" => req[j] \in Holding \cup {"broken"}

(* A request that has arrived is answered: the station's lock is always    *)
(* released, whichever way its holder ends.                                *)
RequestsEnd ==
  \A j \in Jobs : (req[j] = "waiting") ~> (req[j] \in {"done", "refused", "broken"})

(* "Please wait until it has finished" (data_import_service.py:95): the    *)
(* job that makes the station refuse an upload ends sooner or later.  One  *)
(* whose request broke between commit and dispatch stays pending, and can  *)
(* be neither cancelled nor resumed.                                       *)
PendingJobsEnd == \A j \in Jobs : (status[j] = "pending") ~> (status[j] # "pending")
=============================================================================
