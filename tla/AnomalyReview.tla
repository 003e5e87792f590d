---------------------------- MODULE AnomalyReview ----------------------------
(***************************************************************************)
(* The review of one import job's anomalies while the job may still run:   *)
(* correct, confirm, bulk delete and bulk confirm                          *)
(* (services/data_import_service.py, repositories/data_import.py) against  *)
(* the worker that adds anomalies and rewrites the job's counters          *)
(* (tasks/import_tasks.py).                                                *)
(*                                                                         *)
(* Each review t is one database transaction under READ COMMITTED: it sees *)
(* what others have committed, its own writes stay private until it ends,  *)
(* and a row it has locked or updated is locked until then.  A statement   *)
(* that meets a locked row waits, then looks at the row again.             *)
(***************************************************************************)
EXTENDS Integers, FiniteSets

CONSTANTS
  Anomalies,    \* anomalies the job can come to have
  Reviews,      \* review requests
  MaxRows,      \* bound: rows of the job's file
  MaxSkipped    \* bound: records one batch skips as duplicates

ASSUME AnomalyReviewAssumption ==
  /\ IsFiniteSet(Anomalies)
  /\ MaxRows \in Nat
  /\ MaxSkipped \in Nat

VARIABLES
  status,     \* status of each anomaly; "absent" before the worker adds it
  kind,       \* "row" (format_error, out_of_range), "duplicate", "missing"
  job,        \* job.total_records, success_records, failed_records
  stored,     \* trading records that came out of this job
  worker,     \* where the import run stands
  ctr,        \* ImportContext.processed_, success_, failed_records
  seen,       \* the counters as the worker's session last loaded them
  pc,         \* where each review stands
  verdict,    \* the status a review gives
  target,     \* the anomalies a review was asked about
  todo,       \* rows its bulk UPDATE has not come to yet
  held,       \* rows the review has locked; once done, those it decided
  snap,       \* the counters as a correction loaded them
  audited,    \* how many decisions the audit log accounts for
  raced       \* history: a correction loaded counters that someone else was
              \* about to write as well

run    == <<worker, ctr, seen>>
review == <<pc, verdict, target, todo, held, snap>>
vars   == <<status, kind, job, stored, run, review, audited, raced>>

Decided  == {"corrected", "confirmed_normal", "deleted"}
NoTally  == [success |-> 0, failed |-> 0]
Expired  == [success |-> -1, failed |-> -1]
(* Transactions that hold their locks. *)
Open     == {"locked", "counting", "updating"}

Absent == {a \in Anomalies : status[a] = "absent"}
Free(t, a) == \A u \in Reviews \ {t} : pc[u] \in Open => a \notin held[u]
Corrected == {a \in Anomalies : status[a] = "corrected"}
Tally(c)  == [success |-> c.success, failed |-> c.failed]

-----------------------------------------------------------------------------
Init ==
  /\ status = [a \in Anomalies |-> "absent"]
  /\ kind = [a \in Anomalies |-> "row"]
  /\ job = [total |-> 0, success |-> 0, failed |-> 0]
  /\ stored = 0
  /\ worker = "rows"
  /\ ctr = [processed |-> 0, success |-> 0, failed |-> 0]
  /\ seen = NoTally
  /\ pc = [t \in Reviews |-> "idle"]
  /\ verdict = [t \in Reviews |-> "none"]
  /\ target = [t \in Reviews |-> {}]
  /\ todo = [t \in Reviews |-> {}]
  /\ held = [t \in Reviews |-> {}]
  /\ snap = [t \in Reviews |-> NoTally]
  /\ audited = 0
  /\ raced = FALSE

-----------------------------------------------------------------------------
(* The import run.                                                         *)

(* The ORM writes a column when it differs from the value it last loaded.  *)
Column(old, known, new) == IF known = new THEN old ELSE new
Write(known, new) ==
  [job EXCEPT !.success = Column(@, known.success, new.success),
              !.failed  = Column(@, known.failed, new.failed)]

(* A valid row reads job.station_id, which reloads an expired job row.     *)
Reload ==
  /\ worker = "rows"
  /\ seen = Expired
  /\ seen' = Tally(job)
  /\ UNCHANGED <<status, kind, job, stored, worker, ctr, review, audited, raced>>

(* flush_batch: new records, one anomaly per rejected row and at most one  *)
(* for all the duplicates of the batch, and the worker's own counters.     *)
Flush ==
  /\ worker = "rows"
  /\ \E rejected \in SUBSET Absent, inserted \in 0..1, skipped \in 0..MaxSkipped :
     \E dup \in SUBSET (Absent \ rejected) :
       /\ Cardinality(dup) = IF skipped > 0 THEN 1 ELSE 0
       /\ status' = [a \in Anomalies |->
                       IF a \in rejected \cup dup THEN "pending" ELSE status[a]]
       /\ kind' = [a \in Anomalies |-> IF a \in dup THEN "duplicate" ELSE kind[a]]
       /\ stored' = stored + inserted
       /\ ctr' = [processed |-> ctr.processed + Cardinality(rejected) + inserted + skipped,
                  success   |-> ctr.success + inserted,
                  failed    |-> ctr.failed + Cardinality(rejected) + skipped]
  /\ ctr.processed < ctr'.processed /\ ctr'.processed <= MaxRows
  /\ job' = Write(seen, Tally(ctr'))
  /\ seen' = Expired
  /\ UNCHANGED <<worker, review, audited, raced>>

(* _check_period_completeness and finalize: anomalies for incomplete days, *)
(* which no counter counts, the total and the worker's counters.           *)
Finalize ==
  /\ worker = "rows"
  /\ worker' = "done"
  /\ \E incomplete \in SUBSET Absent :
       /\ incomplete # {} =>
            ctr.success > 0 \/ \E a \in Anomalies : kind[a] = "duplicate"
       /\ status' = [a \in Anomalies |->
                       IF a \in incomplete THEN "pending" ELSE status[a]]
       /\ kind' = [a \in Anomalies |-> IF a \in incomplete THEN "missing" ELSE kind[a]]
  /\ job' = [total |-> ctr.processed, success |-> ctr.success, failed |-> ctr.failed]
  /\ UNCHANGED <<stored, ctr, seen, review, audited, raced>>

(* The run fails, is cancelled or dies: what it committed stays.           *)
Stop ==
  /\ worker = "rows"
  /\ worker' = "done"
  /\ UNCHANGED <<status, kind, job, stored, ctr, seen, review, audited, raced>>

-----------------------------------------------------------------------------
(* correct_anomaly.                                                        *)

(* Slip: the anomaly's status is not checked.                              *)
CorrectUnchecked(t) ==
  /\ pc[t] = "idle"
  /\ \E a \in Anomalies \ Absent :
       /\ Free(t, a)
       /\ target' = [target EXCEPT ![t] = {a}]
       /\ held' = [held EXCEPT ![t] = {a}]
       /\ pc' = [pc EXCEPT ![t] = "locked"]
  /\ verdict' = [verdict EXCEPT ![t] = "corrected"]
  /\ UNCHANGED <<status, kind, job, stored, run, todo, snap, audited, raced>>

(* The anomaly is locked; one that is not pending is refused (409).        *)
Correct(t) ==
  /\ pc[t] = "idle"
  /\ \E a \in Anomalies \ Absent :
       /\ Free(t, a)
       /\ target' = [target EXCEPT ![t] = {a}]
       /\ held' = [held EXCEPT ![t] = IF status[a] = "pending" THEN {a} ELSE {}]
       /\ pc' = [pc EXCEPT ![t] = IF status[a] = "pending" THEN "locked" ELSE "refused"]
  /\ verdict' = [verdict EXCEPT ![t] = "corrected"]
  /\ UNCHANGED <<status, kind, job, stored, run, todo, snap, audited, raced>>

(* The job is loaded without a lock.                                       *)
LoadJob(t) ==
  /\ pc[t] = "locked"
  /\ pc' = [pc EXCEPT ![t] = "counting"]
  /\ snap' = [snap EXCEPT ![t] = Tally(job)]
  /\ raced' = (raced \/ worker = "rows" \/ \E u \in Reviews : pc[u] = "counting")
  /\ UNCHANGED <<status, kind, job, stored, run, verdict, target, todo, held, audited>>

(* Slip: failed is not taken down.                                         *)
CommitStillFailed(t) ==
  /\ pc[t] = "counting"
  /\ pc' = [pc EXCEPT ![t] = "done"]
  /\ job' = Write(snap[t], [snap[t] EXCEPT !.success = @ + 1])
  /\ status' = [a \in Anomalies |-> IF a \in held[t] THEN "corrected" ELSE status[a]]
  /\ audited' = audited + 1
  /\ UNCHANGED <<kind, stored, run, verdict, target, todo, held, snap, raced>>

(* Slip: the correction of a duplicate writes a record, too.               *)
CommitAnyRecord(t) ==
  /\ pc[t] = "counting"
  /\ pc' = [pc EXCEPT ![t] = "done"]
  /\ job' = Write(snap[t], [success |-> snap[t].success + 1, failed |-> snap[t].failed])
  /\ status' = [a \in Anomalies |-> IF a \in held[t] THEN "corrected" ELSE status[a]]
  /\ \E added \in {0, 1} : stored' = stored + added
  /\ audited' = audited + 1
  /\ UNCHANGED <<kind, run, verdict, target, todo, held, snap, raced>>

(* The counters are computed from the loaded values, the record is written *)
(* when the correction is a whole row and no duplicate (an upsert, new or  *)
(* not), the anomaly gets its status, and the transaction commits.         *)
CommitCorrection(t) ==
  LET new == [success |-> snap[t].success + 1,
              failed  |-> IF snap[t].failed > 0 THEN snap[t].failed - 1 ELSE 0]
  IN
  /\ pc[t] = "counting"
  /\ pc' = [pc EXCEPT ![t] = "done"]
  /\ job' = Write(snap[t], new)
  /\ status' = [a \in Anomalies |-> IF a \in held[t] THEN "corrected" ELSE status[a]]
  /\ \E added \in IF \E a \in held[t] : kind[a] = "duplicate" THEN {0} ELSE {0, 1} :
       stored' = stored + added
  /\ audited' = audited + 1
  /\ UNCHANGED <<kind, run, verdict, target, todo, held, snap, raced>>

(* confirm_anomaly_normal: lock, check, write and commit, with nothing     *)
(* read in between that another transaction may change.                    *)
Confirm(t) ==
  /\ pc[t] = "idle"
  /\ \E a \in Anomalies \ Absent :
       LET pending == status[a] = "pending" IN
       /\ Free(t, a)
       /\ target' = [target EXCEPT ![t] = {a}]
       /\ held' = [held EXCEPT ![t] = IF pending THEN {a} ELSE {}]
       /\ pc' = [pc EXCEPT ![t] = IF pending THEN "done" ELSE "refused"]
       /\ status' = [status EXCEPT ![a] = IF pending THEN "confirmed_normal" ELSE @]
       /\ audited' = IF pending THEN audited + 1 ELSE audited
  /\ verdict' = [verdict EXCEPT ![t] = "confirmed_normal"]
  /\ UNCHANGED <<kind, job, stored, run, todo, snap, raced>>

-----------------------------------------------------------------------------
(* bulk_delete_anomalies, bulk_confirm_normal.                             *)

(* _validate_bulk_pending reads without a lock and refuses the whole       *)
(* request when one anomaly is not pending.                                *)
Validate(t) ==
  /\ pc[t] = "idle"
  /\ \E v \in {"deleted", "confirmed_normal"} : verdict' = [verdict EXCEPT ![t] = v]
  /\ \E chosen \in SUBSET (Anomalies \ Absent) :
       /\ chosen # {}
       /\ target' = [target EXCEPT ![t] = chosen]
       /\ IF \A a \in chosen : status[a] = "pending"
          THEN /\ todo' = [todo EXCEPT ![t] = chosen]
               /\ pc' = [pc EXCEPT ![t] = "updating"]
          ELSE /\ UNCHANGED todo
               /\ pc' = [pc EXCEPT ![t] = "refused"]
  /\ UNCHANGED <<status, kind, job, stored, run, held, snap, audited, raced>>

(* Slip: the UPDATE has lost its condition on the status.                  *)
UpdateAnyRow(t) ==
  /\ pc[t] = "updating"
  /\ \E a \in todo[t] :
       /\ Free(t, a)
       /\ todo' = [todo EXCEPT ![t] = @ \ {a}]
       /\ held' = [held EXCEPT ![t] = @ \cup {a}]
  /\ UNCHANGED <<status, kind, job, stored, run, pc, verdict, target, snap, audited, raced>>

(* bulk_update_status comes to one of its rows, in whatever order the plan *)
(* visits them; WHERE status = 'pending' is judged on the row as it is     *)
(* once it is free.                                                        *)
UpdateRow(t) ==
  /\ pc[t] = "updating"
  /\ \E a \in todo[t] :
       /\ Free(t, a)
       /\ todo' = [todo EXCEPT ![t] = @ \ {a}]
       /\ held' = [held EXCEPT ![t] = IF status[a] = "pending" THEN @ \cup {a} ELSE @]
  /\ UNCHANGED <<status, kind, job, stored, run, pc, verdict, target, snap, audited, raced>>

(* Slips: the audit row counts the rows asked for; a partial update waits. *)
CommitBulkAsAsked(t) ==
  /\ pc[t] = "updating"
  /\ todo[t] = {}
  /\ pc' = [pc EXCEPT ![t] = "done"]
  /\ status' = [a \in Anomalies |-> IF a \in held[t] THEN verdict[t] ELSE status[a]]
  /\ audited' = audited + Cardinality(target[t])
  /\ UNCHANGED <<kind, job, stored, run, verdict, target, todo, held, snap, raced>>

CommitBulkWhole(t) ==
  /\ held[t] = target[t]
  /\ CommitBulkAsAsked(t)

(* The audit row carries the number of rows updated; then the commit.      *)
CommitBulk(t) ==
  /\ pc[t] = "updating"
  /\ todo[t] = {}
  /\ pc' = [pc EXCEPT ![t] = "done"]
  /\ status' = [a \in Anomalies |-> IF a \in held[t] THEN verdict[t] ELSE status[a]]
  /\ audited' = audited + Cardinality(held[t])
  /\ UNCHANGED <<kind, job, stored, run, verdict, target, todo, held, snap, raced>>

-----------------------------------------------------------------------------
(* The transaction is rolled back and its locks are released.              *)
GiveUp(t) ==
  /\ pc' = [pc EXCEPT ![t] = "refused"]
  /\ held' = [held EXCEPT ![t] = {}]
  /\ todo' = [todo EXCEPT ![t] = {}]
  /\ UNCHANGED <<status, kind, job, stored, run, verdict, target, snap, audited, raced>>

(* A review fails: the corrected value is invalid, a connection is lost.   *)
Abort(t) == pc[t] \in Open /\ GiveUp(t)

(* Bulk updates that wait for each other: the database cancels one.        *)
Waits(t, S) ==
  /\ pc[t] = "updating" /\ todo[t] # {}
  /\ \A a \in todo[t] : \E u \in S \ {t} : a \in held[u] /\ pc[u] \in Open

Deadlocked(t) == \E S \in SUBSET Reviews : t \in S /\ \A u \in S : Waits(u, S)

BreakDeadlock(t) == Deadlocked(t) /\ GiveUp(t)

-----------------------------------------------------------------------------
Work == Reload \/ Flush \/ Finalize \/ Stop

(* What the server does for a review on its own.                           *)
Proceed(t) ==
  \/ LoadJob(t) \/ CommitCorrection(t) \/ UpdateRow(t) \/ CommitBulk(t)
  \/ BreakDeadlock(t)

Next ==
  \/ Work
  \/ \E t \in Reviews :
       Correct(t) \/ Confirm(t) \/ Validate(t) \/ Proceed(t) \/ Abort(t)

Spec == Init /\ [][Next]_vars

(* The server and the database's deadlock detector keep going.             *)
Fairness == \A t \in Reviews : WF_vars(Proceed(t))

FairSpec == Spec /\ Fairness

-----------------------------------------------------------------------------
(* Properties.                                                             *)

(* Every variable stays in the set the code and the schema give it.        *)
TypeOK ==
  /\ status \in [Anomalies -> {"absent", "pending"} \cup Decided]
  /\ kind \in [Anomalies -> {"row", "duplicate", "missing"}]
  /\ job \in [total : Nat, success : Nat, failed : Nat]
  /\ stored \in Nat
  /\ worker \in {"rows", "done"}
  /\ ctr \in [processed : Nat, success : Nat, failed : Nat]
  /\ seen \in [success : Nat, failed : Nat] \cup {Expired}
  /\ pc \in [Reviews -> {"idle", "done", "refused"} \cup Open]
  /\ verdict \in [Reviews -> {"none"} \cup Decided]
  /\ target \in [Reviews -> SUBSET Anomalies]
  /\ todo \in [Reviews -> SUBSET Anomalies]
  /\ held \in [Reviews -> SUBSET Anomalies]
  /\ snap \in [Reviews -> [success : Nat, failed : Nat]]
  /\ audited \in Nat
  /\ raced \in BOOLEAN

(* An anomaly is decided once: single and bulk reviews of the same anomaly *)
(* may validate at the same time, but the second to come to the row finds  *)
(* the first one's decision and leaves it.                                 *)
DecidedOnce ==
  [][\A a \in Anomalies : status[a] \in Decided => status'[a] = status[a]]_vars

(* The audit log accounts for every decision, and for no other: the counts *)
(* its rows carry add up to the number of decided anomalies.               *)
AuditAddsUp == audited = Cardinality({a \in Anomalies : status[a] \in Decided})

(* Until a correction loads the counters while someone else is about to    *)
(* write them, they are exact: what the import counted, and one record     *)
(* moved from failed to success for every corrected anomaly.               *)
CountsExact ==
  ~raced =>
    LET n == Cardinality(Corrected) IN
    /\ job.success = ctr.success + n
    /\ job.failed = IF ctr.failed >= n THEN ctr.failed - n ELSE 0

(* However corrections and batches race, the job never claims more         *)
(* successes than its import and its corrected anomalies account for.      *)
NeverOvercounted == job.success <= ctr.success + Cardinality(Corrected)

(* Every record that came out of the job is one the import inserted or one *)
(* correction's: however often a row is reviewed it is written at most     *)
(* once, and what an import skipped as a duplicate is not written at all.  *)
RecordsHaveSources ==
  stored <= ctr.success + Cardinality({a \in Corrected : kind[a] # "duplicate"})

(* Every review comes to an end, also when bulk reviews lock the same      *)
(* anomalies in different orders.                                          *)
ReviewsEnd == \A t \in Reviews : (pc[t] \in Open) ~> (pc[t] \in {"done", "refused"})
=============================================================================
