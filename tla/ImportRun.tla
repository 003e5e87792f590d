------------------------------ MODULE ImportRun ------------------------------
(***************************************************************************)
(* One import job, from the commit that creates it to its last execution:  *)
(* the endpoints that dispatch, cancel and resume it                       *)
(* (services/data_import_service.py) and the Celery executions that read   *)
(* its file in batches (tasks/import_tasks.py).                            *)
(*                                                                         *)
(* Every dispatch is a run r.  Run 1 belongs to the request that created   *)
(* the job, run r > 1 to the r-1st accepted resume.  Between the commit of *)
(* the request and the end of the run lie the publication of the task, the *)
(* write of its task id, its delivery, and one transaction per batch; a    *)
(* run, its request and its message can each be lost on the way.           *)
(*                                                                         *)
(* A data row is either valid, and then is the unique key it writes        *)
(* (station or device, trading_date, period), or Rejected by the row       *)
(* checks.  The tasks of the three import types share ImportContext and    *)
(* differ in the row checks and in the two places that look at ImportType. *)
(***************************************************************************)
EXTENDS Integers, FiniteSets

CONSTANTS
  NumRows,     \* data rows of the file
  Keys,        \* unique keys of the record table
  Rejected,    \* a row that fails a check
  BatchSize,   \* BATCH_SIZE
  MaxRuns,     \* bound: one create and MaxRuns - 1 resumes
  ImportType,  \* job.import_type, which selects the task
  Faults       \* what may be lost: "request", "run"

ASSUME ImportRunAssumption ==
  /\ NumRows \in Nat
  /\ BatchSize \in Nat \ {0}
  /\ MaxRuns \in Nat \ {0}
  /\ Rejected \notin Keys
  /\ IsFiniteSet(Keys)
  /\ ImportType \in {"trading_data", "station_output", "storage_operation"}
  /\ Faults \subseteq {"request", "run"}

Row == 1..NumRows
Run == 1..MaxRuns

VARIABLES
  file,        \* the uploaded file, row by row
  stored,      \* keys present in the record table
  mine,        \* the stored keys whose import_job_id is this job
  anomalies,   \* how many anomalies of this job name each row; row 0 holds
               \* the batch-level ones ("duplicate", "missing")
  status,      \* job.status
  count,       \* job.last_processed_row, processed_, success_, failed_records
  total,       \* job.total_records
  taskId,      \* job.celery_task_id, 0 for NULL
  revoked,     \* runs whose task id has been revoked
  api,         \* where the request that dispatches the run stands
  pc,          \* where the run stands
  from,        \* the run's resume_from_row
  row,         \* ImportContext.row_number
  recs,        \* rows in ImportContext.batch_records
  rejs,        \* rows in ImportContext.batch_anomalies
  ctr,         \* ImportContext.processed_, success_, failed_records
  seen,        \* the counters as the run's ORM session last loaded them
  overlapped   \* history: a resume was accepted while a run was still alive

table == <<file, stored, mine, anomalies>>
job   == <<status, count, total, taskId>>
local == <<from, row, recs, rejs, ctr, seen>>
vars  == <<table, job, revoked, api, pc, local, overlapped>>

NoBatch   == [processed |-> 0, success |-> 0, failed |-> 0]
NoCount   == [last |-> 0, processed |-> 0, success |-> 0, failed |-> 0]
(* After a commit the session's copy is expired: no column compares equal. *)
Expired   == [last |-> -1, processed |-> -1, success |-> -1, failed |-> -1]

Waiting == {"queued"}
Running == {"open", "rows", "final"}
(* A run that may still touch the database, or whose message may arrive.   *)
Live(r) == api[r] = "dispatch" \/ pc[r] \in Waiting \cup Running

Persisted(i) == IF file[i] = Rejected THEN anomalies[i] > 0 ELSE file[i] \in stored

-----------------------------------------------------------------------------
Init ==
  /\ file \in [Row -> Keys \cup {Rejected}]
  /\ stored \in SUBSET Keys
  /\ mine = {}
  /\ anomalies = [i \in 0..NumRows |-> 0]
  /\ status = "pending"
  /\ count = NoCount
  /\ total = 0
  /\ taskId = 0
  /\ revoked = {}
  /\ api = [r \in Run |-> IF r = 1 THEN "dispatch" ELSE "none"]
  /\ pc = [r \in Run |-> "none"]
  /\ from = [r \in Run |-> 0]
  /\ row = [r \in Run |-> 0]
  /\ recs = [r \in Run |-> {}]
  /\ rejs = [r \in Run |-> {}]
  /\ ctr = [r \in Run |-> NoBatch]
  /\ seen = [r \in Run |-> Expired]
  /\ overlapped = FALSE

-----------------------------------------------------------------------------
(* The request side.                                                       *)

(* apply_async succeeds: the message is in the broker.                     *)
Dispatch(r) ==
  /\ api[r] = "dispatch"
  /\ api' = [api EXCEPT ![r] = "record"]
  /\ pc' = [pc EXCEPT ![r] = "queued"]
  /\ UNCHANGED <<table, job, revoked, local, overlapped>>

(* apply_async raises.  The message may have reached the broker all the    *)
(* same (the connection broke before the reply).                           *)
DispatchFail(r) ==
  /\ api[r] = "dispatch"
  /\ api' = [api EXCEPT ![r] = "failing"]
  /\ \E p \in {"done", "queued"} : pc' = [pc EXCEPT ![r] = p]
  /\ UNCHANGED <<table, job, revoked, local, overlapped>>

(* The commit of the failed publication, whatever the run wrote meanwhile. *)
RecordFailure(r) ==
  /\ api[r] = "failing"
  /\ api' = [api EXCEPT ![r] = "done"]
  /\ status' = "failed"
  /\ UNCHANGED <<table, count, total, taskId, revoked, pc, local, overlapped>>

(* The second commit of the request stores the id of the published task.   *)
RecordTaskId(r) ==
  /\ api[r] = "record"
  /\ api' = [api EXCEPT ![r] = "done"]
  /\ taskId' = r
  /\ UNCHANGED <<table, status, count, total, revoked, pc, local, overlapped>>

(* The API process dies between its commits.                               *)
RequestLost(r) ==
  /\ "request" \in Faults
  /\ api[r] \in {"dispatch", "record", "failing"}
  /\ api' = [api EXCEPT ![r] = "done"]
  /\ pc' = [pc EXCEPT ![r] = IF api[r] = "dispatch" THEN "done" ELSE @]
  /\ UNCHANGED <<table, job, revoked, local, overlapped>>

(* cancel_import_job: the row is locked, so that check, revoke and status  *)
(* write are one step for everyone else who writes the row.                *)
Cancel ==
  /\ status = "processing"
  /\ status' = "cancelled"
  /\ revoked' = IF taskId = 0 THEN revoked ELSE revoked \cup {taskId}
  /\ UNCHANGED <<table, count, total, taskId, api, pc, local, overlapped>>

(* Slip: the resume forgets resume_from_row.                               *)
ResumeFromStart(r) ==
  /\ status \in {"failed", "cancelled"}
  /\ api[r] = "none"
  /\ \A q \in Run : q < r => api[q] # "none"
  /\ status' = "processing"
  /\ api' = [api EXCEPT ![r] = "dispatch"]
  /\ overlapped' = (overlapped \/ \E q \in Run : Live(q))
  /\ UNCHANGED <<table, count, total, taskId, revoked, pc, local>>

(* resume_import_job up to its first commit.                               *)
Resume(r) ==
  /\ status \in {"failed", "cancelled"}
  /\ api[r] = "none"
  /\ \A q \in Run : q < r => api[q] # "none"
  /\ status' = "processing"
  /\ from' = [from EXCEPT ![r] = count.last]
  /\ api' = [api EXCEPT ![r] = "dispatch"]
  /\ overlapped' = (overlapped \/ \E q \in Run : Live(q))
  /\ UNCHANGED <<table, count, total, taskId, revoked, pc,
                 row, recs, rejs, ctr, seen>>

-----------------------------------------------------------------------------
(* The execution side.                                                     *)

(* _init_import.                                                           *)
InitImport(r) ==
  /\ pc[r] = "queued"
  /\ pc' = [pc EXCEPT ![r] = "open"]
  /\ status' = "processing"
  /\ taskId' = r
  /\ UNCHANGED <<table, count, total, revoked, api, local, overlapped>>

(* Slip: a resumed run counts from zero.                                   *)
OpenContextAtZero(r) ==
  /\ pc[r] = "open"
  /\ pc' = [pc EXCEPT ![r] = "rows"]
  /\ row' = [row EXCEPT ![r] = from[r]]
  /\ ctr' = [ctr EXCEPT ![r] = NoBatch]
  /\ seen' = [seen EXCEPT ![r] = count]
  /\ UNCHANGED <<table, job, revoked, api, from, recs, rejs, overlapped>>

(* The file is opened, its header mapped and the ImportContext built; the  *)
(* rows up to resume_from_row are skipped.                                 *)
OpenContext(r) ==
  /\ pc[r] = "open"
  /\ pc' = [pc EXCEPT ![r] = "rows"]
  /\ row' = [row EXCEPT ![r] = from[r]]
  /\ ctr' = [ctr EXCEPT ![r] =
               IF from[r] > 0
               THEN [processed |-> count.processed, success |-> count.success,
                     failed |-> count.failed]
               ELSE NoBatch]
  /\ seen' = [seen EXCEPT ![r] = count]
  /\ UNCHANGED <<table, job, revoked, api, from, recs, rejs, overlapped>>

ShouldFlush(r) ==
  \/ Cardinality(recs[r]) >= BatchSize
  \/ Cardinality(rejs[r]) >= BatchSize

Bump(c, processed, success, failed) ==
  [processed |-> c.processed + processed, success |-> c.success + success,
   failed    |-> c.failed + failed]

(* Slip: the flush after the last row is forgotten.                        *)
ReadLastRowUnflushed(r) ==
  LET i == row[r] + 1 IN
  /\ pc[r] = "rows" /\ row[r] < NumRows /\ ~ShouldFlush(r)
  /\ file[i] # Rejected
  /\ row' = [row EXCEPT ![r] = i]
  /\ recs' = [recs EXCEPT ![r] = @ \cup {i}]
  /\ ctr' = [ctr EXCEPT ![r] = Bump(@, 1, 0, 0)]
  /\ pc' = [pc EXCEPT ![r] = IF i = NumRows THEN "final" ELSE @]
  /\ UNCHANGED <<table, job, revoked, api, from, rejs, seen, overlapped>>

(* One turn of the row loop.  A valid row reads job.station_id, which      *)
(* reloads an expired job row; a storage row carries its device instead.   *)
ReadValidRow(r) ==
  LET i == row[r] + 1 IN
  /\ pc[r] = "rows" /\ row[r] < NumRows /\ ~ShouldFlush(r)
  /\ file[i] # Rejected
  /\ row' = [row EXCEPT ![r] = i]
  /\ recs' = [recs EXCEPT ![r] = @ \cup {i}]
  /\ ctr' = [ctr EXCEPT ![r] = Bump(@, 1, 0, 0)]
  /\ seen' = [seen EXCEPT ![r] = IF @ = Expired /\ ImportType # "storage_operation"
                                 THEN count ELSE @]
  /\ UNCHANGED <<table, job, revoked, api, pc, from, rejs, overlapped>>

(* ImportContext.add_anomaly.                                              *)
ReadRejectedRow(r) ==
  LET i == row[r] + 1 IN
  /\ pc[r] = "rows" /\ row[r] < NumRows /\ ~ShouldFlush(r)
  /\ file[i] = Rejected
  /\ row' = [row EXCEPT ![r] = i]
  /\ rejs' = [rejs EXCEPT ![r] = @ \cup {i}]
  /\ ctr' = [ctr EXCEPT ![r] = Bump(@, 1, 0, 1)]
  /\ UNCHANGED <<table, job, revoked, api, pc, from, recs, seen, overlapped>>

(* Slip: the slice that is inserted leaves out the row read last.          *)
InsertedShort(r) == {file[i] : i \in recs[r] \ {row[r]}} \ stored

(* INSERT ... ON CONFLICT DO NOTHING: the keys that were not there yet.    *)
Inserted(r) == {file[i] : i \in recs[r]} \ stored

Skipped(r)  == Cardinality(recs[r]) - Cardinality(Inserted(r))

(* The ORM writes a column when it differs from the value it last loaded.  *)
Column(old, known, new) == IF known = new THEN old ELSE new
Save(r, new) ==
  [last      |-> Column(count.last, seen[r].last, new.last),
   processed |-> Column(count.processed, seen[r].processed, new.processed),
   success   |-> Column(count.success, seen[r].success, new.success),
   failed    |-> Column(count.failed, seen[r].failed, new.failed)]

(* The values the run has for the job's counters.                          *)
Progress(r, c) ==
  [last |-> row[r], processed |-> c.processed, success |-> c.success,
   failed |-> c.failed]

(* Slip: anomalies are written only beside records.                        *)
FlushBatchNested(r) ==
  LET c == Bump(ctr[r], 0, Cardinality(Inserted(r)), Skipped(r)) IN
  /\ pc[r] = "rows"
  /\ ShouldFlush(r) \/ row[r] = NumRows
  /\ pc' = [pc EXCEPT ![r] = IF ShouldFlush(r) THEN "rows" ELSE "final"]
  /\ stored' = stored \cup Inserted(r)
  /\ mine' = mine \cup Inserted(r)
  /\ anomalies' = [i \in 0..NumRows |->
                     anomalies[i] + IF recs[r] # {} /\ i \in rejs[r] THEN 1 ELSE 0]
  /\ ctr' = [ctr EXCEPT ![r] = c]
  /\ count' = Save(r, Progress(r, c))
  /\ recs' = [recs EXCEPT ![r] = {}]
  /\ rejs' = [rejs EXCEPT ![r] = {}]
  /\ seen' = [seen EXCEPT ![r] = Expired]
  /\ UNCHANGED <<file, status, total, taskId, revoked, api, from, row, overlapped>>

(* ImportContext.flush_batch, one transaction.  A full batch sends the run *)
(* back to the loop; the flush after the last row leads to finalize.       *)
FlushBatch(r) ==
  LET c == Bump(ctr[r], 0, Cardinality(Inserted(r)), Skipped(r)) IN
  /\ pc[r] = "rows"
  /\ ShouldFlush(r) \/ row[r] = NumRows
  /\ pc' = [pc EXCEPT ![r] = IF ShouldFlush(r) THEN "rows" ELSE "final"]
  /\ stored' = stored \cup Inserted(r)
  /\ mine' = mine \cup Inserted(r)
  /\ anomalies' = [i \in 0..NumRows |->
                     anomalies[i] + IF i \in rejs[r] \/ (i = 0 /\ Skipped(r) > 0)
                                    THEN 1 ELSE 0]
  /\ ctr' = [ctr EXCEPT ![r] = c]
  /\ count' = Save(r, Progress(r, c))
  /\ recs' = [recs EXCEPT ![r] = {}]
  /\ rejs' = [rejs EXCEPT ![r] = {}]
  /\ seen' = [seen EXCEPT ![r] = Expired]
  /\ UNCHANGED <<file, status, total, taskId, revoked, api, from, row, overlapped>>

(* _check_period_completeness looks at the days of the valid rows of this  *)
(* run, which a storage run does not collect, and may add anomalies.       *)
MissingPeriods(r) ==
  IF ImportType # "storage_operation" /\ \E i \in from[r]+1..NumRows : file[i] # Rejected
  THEN {0, 1} ELSE {0}

(* The check and finalize, one transaction.                                *)
Finalize(r) ==
  /\ pc[r] = "final"
  /\ pc' = [pc EXCEPT ![r] = "done"]
  /\ \E missing \in MissingPeriods(r) :
       anomalies' = [anomalies EXCEPT ![0] = @ + missing]
  /\ status' = "completed"
  /\ total' = NumRows
  /\ count' = Progress(r, ctr[r])
  /\ UNCHANGED <<file, stored, mine, taskId, revoked, api, local, overlapped>>

(* Slip: the exception is logged and the job left as it is.                *)
RunFailedSilently(r) ==
  /\ pc[r] \in Running
  /\ pc' = [pc EXCEPT ![r] = "done"]
  /\ UNCHANGED <<table, job, revoked, api, local, overlapped>>

(* An exception anywhere in the run: rollback, then the job is failed.     *)
RunFailed(r) ==
  /\ pc[r] \in Running
  /\ pc' = [pc EXCEPT ![r] = "done"]
  /\ status' = "failed"
  /\ UNCHANGED <<table, count, total, taskId, revoked, api, local, overlapped>>

(* The revocation reaches the worker: a waiting message is dropped, a      *)
(* running child is terminated and its open transaction is rolled back.    *)
Terminate(r) ==
  /\ r \in revoked
  /\ pc[r] \in Waiting \cup Running
  /\ pc' = [pc EXCEPT ![r] = "done"]
  /\ UNCHANGED <<table, job, revoked, api, local, overlapped>>

(* The broker loses the message, or the worker process dies.               *)
RunLost(r) ==
  /\ "run" \in Faults
  /\ pc[r] \in Waiting \cup Running
  /\ pc' = [pc EXCEPT ![r] = "done"]
  /\ UNCHANGED <<table, job, revoked, api, local, overlapped>>

-----------------------------------------------------------------------------
RequestStep(r) ==
  Dispatch(r) \/ DispatchFail(r) \/ RecordFailure(r) \/ RecordTaskId(r)

RunStep(r) ==
  \/ InitImport(r) \/ OpenContext(r) \/ ReadValidRow(r) \/ ReadRejectedRow(r)
  \/ FlushBatch(r) \/ Finalize(r) \/ RunFailed(r)

Next ==
  \/ Cancel
  \/ \E r \in Run :
       \/ RequestStep(r) \/ RequestLost(r) \/ Resume(r)
       \/ RunStep(r) \/ Terminate(r) \/ RunLost(r)

Spec == Init /\ [][Next]_vars

(* Requests and workers keep going; users, losses and revocations owe      *)
(* nothing.                                                                *)
Fairness == \A r \in Run : WF_vars(RequestStep(r)) /\ WF_vars(RunStep(r))

FairSpec == Spec /\ Fairness
-----------------------------------------------------------------------------
(* Properties.                                                             *)

ValidRow == {i \in Row : file[i] # Rejected}
Tally == [processed : Nat, success : Nat, failed : Nat]
Counters == [last : 0..NumRows, processed : Nat, success : Nat, failed : Nat]

(* Every variable stays in the set the code and the schema give it.        *)
TypeOK ==
  /\ file \in [Row -> Keys \cup {Rejected}]
  /\ stored \in SUBSET Keys
  /\ mine \in SUBSET stored
  /\ anomalies \in [0..NumRows -> Nat]
  /\ status \in {"pending", "processing", "completed", "failed", "cancelled"}
  /\ count \in Counters
  /\ total \in {0, NumRows}
  /\ taskId \in Run \cup {0}
  /\ revoked \in SUBSET Run
  /\ api \in [Run -> {"none", "dispatch", "record", "failing", "done"}]
  /\ pc \in [Run -> {"none", "queued", "open", "rows", "final", "done"}]
  /\ from \in [Run -> 0..NumRows]
  /\ row \in [Run -> 0..NumRows]
  /\ recs \in [Run -> SUBSET ValidRow]
  /\ rejs \in [Run -> SUBSET (Row \ ValidRow)]
  /\ ctr \in [Run -> Tally]
  /\ seen \in [Run -> Counters \cup {Expired}]
  /\ overlapped \in BOOLEAN

(* Processed data is never lost: whatever failed, was cancelled, killed,   *)
(* resumed or ran twice at once, no row at or before last_processed_row,   *)
(* the row the next resume starts after, is missing from the database.     *)
NothingLost == \A i \in Row : i <= count.last => Persisted(i)

(* A job reported as completed has every row of its file in the database,  *)
(* even when two of its runs were alive together.                          *)
CompletedMeansAll == status = "completed" => \A i \in Row : Persisted(i)

(* As long as no resume overtook a live run, the job's counters are exact  *)
(* after any number of failures and resumes: success counts the records    *)
(* that carry the job's id, every row up to the mark is counted once, and  *)
(* every rejected row has exactly one anomaly.                             *)
CountedOnce ==
  ~overlapped =>
    /\ count.success = Cardinality(mine)
    /\ count.processed = count.last
    /\ count.success + count.failed = count.last
    /\ \A i \in Row : file[i] = Rejected =>
         anomalies[i] = IF i <= count.last THEN 1 ELSE 0

(* As long as no resume overtook a live run, the mark never moves back, so *)
(* a resume never repeats work that was already committed.                 *)
MarkNeverFallsBack == [][~overlapped' => count'.last >= count.last]_vars

(* The job keeps the promise of ImportLedger: a run settles rows batch by  *)
(* batch and only reports completion once they all are.                    *)
Ledger == INSTANCE ImportLedger WITH
  settled   <- {i \in Row : Persisted(i)},
  mark      <- count.last,
  completed <- status = "completed"

KeepsLedger == Ledger!Spec

(* Unless a request or a run is lost, a job does not stay pending or       *)
(* processing: someone finishes, fails or cancels it, so that the station  *)
(* can be imported into again.  The one exception is the run that a cancel *)
(* caught between the broker and its first write: it takes the cancelled   *)
(* job back to processing and is then terminated.                          *)
Active == status \in {"pending", "processing"}

JobSettles ==
  Active ~> (~Active \/ (revoked # {} /\ \A r \in Run : ~Live(r)))
=============================================================================
