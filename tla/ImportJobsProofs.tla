--------------------------- MODULE ImportJobsProofs ---------------------------
(***************************************************************************)
(* Proofs about ImportJobs for every number of upload requests and         *)
(* resumes.                                                                *)
(***************************************************************************)
EXTENDS ImportJobs, TLAPS

USE ImportJobsAssumption DEF ImportJobsAssumption

-----------------------------------------------------------------------------
(* The inductive invariant.                                                *)

(* The station's row is locked by the one request between its first        *)
(* statement and its commit.                                               *)
LockHeld == \A j \in Jobs : req[j] \in Holding <=> lock = j

(* The job appears with the commit of its request, and nothing runs before.*)
Inserted ==
  \A j \in Jobs :
    /\ req[j] \in {"idle", "waiting", "refused"} \cup Holding => status[j] = "absent"
    /\ req[j] \in {"dispatch", "failing", "done"} => status[j] # "absent"
    /\ status[j] = "absent" =>
         resuming[j] = 0 /\ failing[j] = 0 /\ queued[j] = 0 /\ running[j] = 0

(* Between the check for a running job and the commit, only a job that     *)
(* comes back from a final status can become active: what the check said   *)
(* stays true for the jobs that uploads create.                            *)
Reserved ==
  \A j, k \in Jobs :
    req[j] \in {"saving", "saved"} /\ status[k] \in ActiveStatus => k \in revived

(* Where the file stands at each stage of the request.                     *)
FileStages ==
  \A j \in Jobs :
    /\ req[j] \in {"idle", "waiting", "locked", "refused"} => upload[j] = "none"
    /\ req[j] = "saved" => upload[j] = "full"
    /\ status[j] # "absent" => upload[j] = "full"

Safe == LockHeld /\ Inserted /\ Reserved /\ FileStages /\ UploadsExclude

-----------------------------------------------------------------------------
(* Every step keeps every variable in its type.                            *)
LEMMA TypeStep ==
  ASSUME TypeOK, [Next]_vars
  PROVE  TypeOK'
<1> USE DEF TypeOK, ActiveStatus, FinalStatus, Holding, Step, flight
<1>1. CASE UNCHANGED vars
  BY <1>1 DEF vars
<1>2. CASE SwitchStation
  BY <1>2 DEF SwitchStation
<1>3. ASSUME NEW j \in Jobs, Arrive(j)
      PROVE  TypeOK'
  BY <1>3 DEF Arrive
<1>4. ASSUME NEW j \in Jobs, LockStation(j)
      PROVE  TypeOK'
  BY <1>4 DEF LockStation
<1>5. ASSUME NEW j \in Jobs, Refuse(j)
      PROVE  TypeOK'
  BY <1>5 DEF Refuse
<1>6. ASSUME NEW j \in Jobs, Accept(j)
      PROVE  TypeOK'
  BY <1>6 DEF Accept
<1>7. ASSUME NEW j \in Jobs, SaveFile(j)
      PROVE  TypeOK'
  BY <1>7 DEF SaveFile
<1>8. ASSUME NEW j \in Jobs, Undo(j)
      PROVE  TypeOK'
  BY <1>8 DEF Undo
<1>9. ASSUME NEW j \in Jobs, WriteError(j)
      PROVE  TypeOK'
  BY <1>9 DEF WriteError
<1>10. ASSUME NEW j \in Jobs, CommitJob(j)
      PROVE  TypeOK'
  BY <1>10 DEF CommitJob
<1>11. ASSUME NEW j \in Jobs, Dispatch(j)
      PROVE  TypeOK'
  BY <1>11 DEF Dispatch
<1>12. ASSUME NEW j \in Jobs, DispatchFail(j) \/ RecordFailure(j)
      PROVE  TypeOK'
  BY <1>12 DEF DispatchFail, RecordFailure
<1>13. ASSUME NEW j \in Jobs, RequestLost(j)
      PROVE  TypeOK'
  BY <1>13 DEF RequestLost
<1>14. ASSUME NEW j \in Jobs, Cancel(j)
      PROVE  TypeOK'
  BY <1>14 DEF Cancel
<1>15. ASSUME NEW j \in Jobs, Resume(j)
      PROVE  TypeOK'
  BY <1>15 DEF Resume
<1>16. ASSUME NEW j \in Jobs, PublishResume(j) \/ ResumeFails(j)
      PROVE  TypeOK'
  BY <1>16 DEF PublishResume, ResumeFails
<1>17. ASSUME NEW j \in Jobs, StartRun(j)
      PROVE  TypeOK'
  BY <1>17 DEF StartRun
<1>18. ASSUME NEW j \in Jobs, EndRun(j)
      PROVE  TypeOK'
  BY <1>18 DEF EndRun
<1>19. ASSUME NEW j \in Jobs, LoseRun(j)
      PROVE  TypeOK'
  BY <1>19 DEF LoseRun
<1>20. ASSUME NEW j \in Jobs, LackTask(j)
      PROVE  TypeOK'
  BY <1>20 DEF LackTask
<1>21. QED
  BY <1>1, <1>2, <1>3, <1>4, <1>5, <1>6, <1>7, <1>8, <1>9, <1>10, <1>11,
     <1>12, <1>13, <1>14, <1>15, <1>16, <1>17, <1>18, <1>19, <1>20
  DEF Next, Proceed, RunStep

(* The jobs' state keeps its type.                                         *)
THEOREM TypeCorrect == Spec => []TypeOK
<1>1. Init => TypeOK
  BY DEF Init, TypeOK, ActiveStatus, FinalStatus, Holding
<1>2. QED
  BY <1>1, TypeStep, PTL DEF Spec

-----------------------------------------------------------------------------
(* Every step keeps the inductive invariant.                               *)
LEMMA SafeStep ==
  ASSUME TypeOK, Safe, [Next]_vars
  PROVE  Safe'
<1> USE DEF TypeOK, Safe, LockHeld, Inserted, Reserved, FileStages, UploadsExclude,
            ActiveStatus, FinalStatus, Holding, Step, flight
<1>1. CASE UNCHANGED vars
  BY <1>1 DEF vars
<1>2. CASE SwitchStation
  BY <1>2 DEF SwitchStation
<1>3. ASSUME NEW j \in Jobs, Arrive(j)
      PROVE  Safe'
  BY <1>3 DEF Arrive
<1>4. ASSUME NEW j \in Jobs, LockStation(j)
      PROVE  Safe'
  BY <1>4 DEF LockStation
<1>5. ASSUME NEW j \in Jobs, Refuse(j)
      PROVE  Safe'
  BY <1>5 DEF Refuse
<1>6. ASSUME NEW j \in Jobs, Accept(j)
      PROVE  Safe'
  BY <1>6 DEF Accept, HasProcessingJob
<1>7. ASSUME NEW j \in Jobs, SaveFile(j)
      PROVE  Safe'
  BY <1>7 DEF SaveFile
<1>8. ASSUME NEW j \in Jobs, Undo(j)
      PROVE  Safe'
  BY <1>8 DEF Undo
<1>9. ASSUME NEW j \in Jobs, WriteError(j)
      PROVE  Safe'
  BY <1>9 DEF WriteError
<1>10. ASSUME NEW j \in Jobs, CommitJob(j)
      PROVE  Safe'
  BY <1>10 DEF CommitJob
<1>11. ASSUME NEW j \in Jobs, Dispatch(j)
      PROVE  Safe'
  BY <1>11 DEF Dispatch
<1>12. ASSUME NEW j \in Jobs, DispatchFail(j) \/ RecordFailure(j)
      PROVE  Safe'
  BY <1>12 DEF DispatchFail, RecordFailure
<1>13. ASSUME NEW j \in Jobs, RequestLost(j)
      PROVE  Safe'
  BY <1>13 DEF RequestLost
<1>14. ASSUME NEW j \in Jobs, Cancel(j)
      PROVE  Safe'
  BY <1>14 DEF Cancel
<1>15. ASSUME NEW j \in Jobs, Resume(j)
      PROVE  Safe'
  BY <1>15 DEF Resume
<1>16. ASSUME NEW j \in Jobs, PublishResume(j) \/ ResumeFails(j)
      PROVE  Safe'
  BY <1>16 DEF PublishResume, ResumeFails
<1>17. ASSUME NEW j \in Jobs, StartRun(j)
      PROVE  Safe'
  BY <1>17 DEF StartRun
<1>18. ASSUME NEW j \in Jobs, EndRun(j)
      PROVE  Safe'
  BY <1>18 DEF EndRun
<1>19. ASSUME NEW j \in Jobs, LoseRun(j)
      PROVE  Safe'
  BY <1>19 DEF LoseRun
<1>20. ASSUME NEW j \in Jobs, LackTask(j)
      PROVE  Safe'
  BY <1>20 DEF LackTask
<1>21. QED
  BY <1>1, <1>2, <1>3, <1>4, <1>5, <1>6, <1>7, <1>8, <1>9, <1>10, <1>11,
     <1>12, <1>13, <1>14, <1>15, <1>16, <1>17, <1>18, <1>19, <1>20
  DEF Next, Proceed, RunStep

(* The inductive invariant holds in every reachable state.                 *)
LEMMA SafeInvariant == Spec => [](TypeOK /\ Safe)
<1>1. Init => TypeOK /\ Safe
  BY DEF Init, TypeOK, Safe, LockHeld, Inserted, Reserved, FileStages, UploadsExclude,
         ActiveStatus, FinalStatus, Holding
<1>2. TypeOK /\ Safe /\ [Next]_vars => (TypeOK /\ Safe)'
  BY TypeStep, SafeStep
<1>3. QED
  BY <1>1, <1>2, PTL DEF Spec

(* Uploads alone never make two jobs of a station active, however many     *)
(* requests arrive and wherever the API process dies.                      *)
THEOREM UploadsNeverOverlap == Spec => []UploadsExclude
<1>1. Safe => UploadsExclude
  BY DEF Safe
<1>2. QED
  BY <1>1, SafeInvariant, PTL

(* A job that can run has its whole file; a directory without a job is one *)
(* a request still works on or broke off.                                  *)
THEOREM FilesBelongToJobs == Spec => []FilesMatchJobs
<1>1. TypeOK /\ Safe => FilesMatchJobs
  BY DEF Safe, TypeOK, Inserted, FileStages, FilesMatchJobs, Holding
<1>2. QED
  BY <1>1, SafeInvariant, PTL
=============================================================================
