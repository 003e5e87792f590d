--------------------------- MODULE ImportRunProofs ---------------------------
(***************************************************************************)
(* Proofs about ImportRun for every file, every set of keys, every batch   *)
(* size and every number of runs.                                          *)
(***************************************************************************)
EXTENDS ImportRun, FiniteSetTheorems, TLAPS

USE ImportRunAssumption DEF ImportRunAssumption

-----------------------------------------------------------------------------
(* Type correctness.                                                       *)

(* A batch never inserts more records than it has rows, so that the number *)
(* of skipped records is a natural number.                                 *)
LEMMA BatchBounds ==
  ASSUME TypeOK, NEW r \in Run
  PROVE  /\ IsFiniteSet(recs[r]) /\ IsFiniteSet(rejs[r])
         /\ Cardinality(recs[r]) \in Nat
         /\ IsFiniteSet(Inserted(r))
         /\ Cardinality(Inserted(r)) \in Nat
         /\ Skipped(r) \in Nat
<1>1. IsFiniteSet(Row)
  BY FS_Interval DEF Row
<1>2. /\ recs[r] \in SUBSET Row
      /\ rejs[r] \in SUBSET Row
  BY DEF TypeOK, ValidRow
<1>3. IsFiniteSet(recs[r]) /\ IsFiniteSet(rejs[r])
  BY <1>1, <1>2, FS_Subset
<1> DEFINE image == {file[i] : i \in recs[r]}
           f == [i \in recs[r] |-> file[i]]
<1>4. f \in Surjection(recs[r], image)
  BY DEF Surjection
<1>5. IsFiniteSet(image) /\ Cardinality(image) <= Cardinality(recs[r])
  <2> HIDE DEF image, f
  <2> QED
    BY <1>3, <1>4, FS_Surjection
<1>6. Inserted(r) \in SUBSET image
  BY DEF Inserted
<1>7. IsFiniteSet(Inserted(r)) /\ Cardinality(Inserted(r)) <= Cardinality(image)
  <2> HIDE DEF image
  <2> QED
    BY <1>5, <1>6, FS_Subset
<1>8. /\ Cardinality(recs[r]) \in Nat
      /\ Cardinality(image) \in Nat
      /\ Cardinality(Inserted(r)) \in Nat
  BY <1>3, <1>5, <1>7, FS_CardinalityType
<1>9. QED
  <2> HIDE DEF image
  <2> QED
    BY <1>3, <1>5, <1>7, <1>8 DEF Skipped

(* Counting rows keeps the run's counters natural numbers.                 *)
LEMMA BumpType ==
  ASSUME NEW c \in Tally, NEW p \in Nat, NEW s \in Nat, NEW f \in Nat
  PROVE  Bump(c, p, s, f) \in Tally
BY DEF Bump, Tally

(* Every step keeps every variable in its type.                            *)
LEMMA TypeStep ==
  ASSUME TypeOK, [Next]_vars
  PROVE  TypeOK'
<1>0. ASSUME file' = file PROVE ValidRow' = ValidRow
  BY <1>0 DEF ValidRow
<1>1. CASE UNCHANGED vars
  BY <1>0, <1>1 DEF TypeOK, vars, table, job, local
<1>2. CASE Cancel
  BY <1>0, <1>2 DEF TypeOK, Cancel, table, job, local
<1>3. ASSUME NEW r \in Run, Dispatch(r)
      PROVE  TypeOK'
  BY <1>0, <1>3 DEF TypeOK, Dispatch, table, job, local
<1>4. ASSUME NEW r \in Run, DispatchFail(r) \/ RecordFailure(r)
      PROVE  TypeOK'
  BY <1>0, <1>4 DEF TypeOK, DispatchFail, RecordFailure, table, job, local
<1>5. ASSUME NEW r \in Run, RecordTaskId(r)
      PROVE  TypeOK'
  BY <1>0, <1>5 DEF TypeOK, RecordTaskId, table, job, local
<1>6. ASSUME NEW r \in Run, RequestLost(r)
      PROVE  TypeOK'
  BY <1>0, <1>6 DEF TypeOK, RequestLost, table, job, local
<1>7. ASSUME NEW r \in Run, Resume(r)
      PROVE  TypeOK'
  <2>1. overlapped' \in BOOLEAN
    BY <1>7 DEF Resume
  <2>2. from' \in [Run -> 0..NumRows]
    BY <1>7 DEF TypeOK, Resume, Counters
  <2>3. api' \in [Run -> {"none", "dispatch", "record", "failing", "done"}]
    BY <1>7 DEF TypeOK, Resume
  <2>4. QED
    BY <1>0, <1>7, <2>1, <2>2, <2>3 DEF TypeOK, Resume, table
<1>8. ASSUME NEW r \in Run, InitImport(r)
      PROVE  TypeOK'
  BY <1>0, <1>8 DEF TypeOK, InitImport, table, job, local
<1>9. ASSUME NEW r \in Run, OpenContext(r)
      PROVE  TypeOK'
  <2>1. ctr' \in [Run -> Tally]
    BY <1>9 DEF TypeOK, OpenContext, NoBatch, Counters, Tally
  <2>2. QED
    BY <1>0, <1>9, <2>1 DEF TypeOK, OpenContext, table, job
<1>10. ASSUME NEW r \in Run, ReadValidRow(r)
       PROVE  TypeOK'
  <2>1. row[r] + 1 \in ValidRow
    BY <1>10 DEF TypeOK, ReadValidRow, Row, ValidRow
  <2>2. ctr' \in [Run -> Tally]
    BY <1>10, BumpType DEF TypeOK, ReadValidRow
  <2>3. row' \in [Run -> 0..NumRows]
    BY <1>10, <2>1 DEF TypeOK, ReadValidRow, Row, ValidRow
  <2>4. recs' \in [Run -> SUBSET ValidRow]
    BY <1>10, <2>1 DEF TypeOK, ReadValidRow
  <2>5. seen' \in [Run -> Counters \cup {Expired}]
    BY <1>10 DEF TypeOK, ReadValidRow
  <2>6. QED
    BY <1>0, <1>10, <2>2, <2>3, <2>4, <2>5
    DEF TypeOK, ReadValidRow, table, job
<1>11. ASSUME NEW r \in Run, ReadRejectedRow(r)
       PROVE  TypeOK'
  <2>1. row[r] + 1 \in Row \ ValidRow
    BY <1>11 DEF TypeOK, ReadRejectedRow, Row, ValidRow
  <2>2. ctr' \in [Run -> Tally]
    BY <1>11, BumpType DEF TypeOK, ReadRejectedRow
  <2>3. row' \in [Run -> 0..NumRows]
    BY <1>11, <2>1 DEF TypeOK, ReadRejectedRow, Row
  <2>4. rejs' \in [Run -> SUBSET (Row \ ValidRow)]
    BY <1>11, <2>1 DEF TypeOK, ReadRejectedRow
  <2>5. QED
    BY <1>0, <1>11, <2>2, <2>3, <2>4
    DEF TypeOK, ReadRejectedRow, table, job
<1>12. ASSUME NEW r \in Run, FlushBatch(r)
       PROVE  TypeOK'
  <2>1. /\ Cardinality(Inserted(r)) \in Nat
        /\ Skipped(r) \in Nat
    BY BatchBounds
  <2> DEFINE c == Bump(ctr[r], 0, Cardinality(Inserted(r)), Skipped(r))
  <2>2. c \in Tally
    BY <2>1, BumpType DEF TypeOK
  <2>3. ctr' = [ctr EXCEPT ![r] = c] /\ count' = Save(r, Progress(r, c))
    BY <1>12 DEF FlushBatch
  <2>4. ctr' \in [Run -> Tally]
    <3> HIDE DEF c
    <3> QED
      BY <2>2, <2>3 DEF TypeOK
  <2>5. count' \in Counters
    <3> HIDE DEF c
    <3>1. row[r] \in 0..NumRows
      BY DEF TypeOK
    <3>2. count \in Counters
      BY DEF TypeOK
    <3>3. QED
      BY <2>2, <2>3, <3>1, <3>2 DEF Save, Column, Progress, Counters, Tally
  <2>6. stored' \in SUBSET Keys /\ mine' \in SUBSET stored'
    <3>1. Inserted(r) \in SUBSET Keys
      BY DEF TypeOK, ValidRow, Inserted
    <3>2. QED
      BY <1>12, <3>1 DEF TypeOK, FlushBatch
  <2>7. anomalies' \in [0..NumRows -> Nat]
    <3>1. anomalies' = [i \in 0..NumRows |->
                          anomalies[i] + IF i \in rejs[r] \/ (i = 0 /\ Skipped(r) > 0)
                                         THEN 1 ELSE 0]
      BY <1>12 DEF FlushBatch
    <3>2. anomalies \in [0..NumRows -> Nat]
      BY DEF TypeOK
    <3>3. QED
      BY <3>1, <3>2
  <2>8. QED
    BY <1>0, <1>12, <2>4, <2>5, <2>6, <2>7 DEF TypeOK, FlushBatch
<1>13. ASSUME NEW r \in Run, Finalize(r)
       PROVE  TypeOK'
  <2>1. count' \in Counters
    BY <1>13 DEF TypeOK, Finalize, Progress, Counters, Tally
  <2>2. anomalies' \in [0..NumRows -> Nat]
    <3>1. PICK missing \in {0, 1} : anomalies' = [anomalies EXCEPT ![0] = @ + missing]
      BY <1>13 DEF Finalize, MissingPeriods
    <3>2. anomalies[0] \in Nat
      BY DEF TypeOK
    <3>3. anomalies \in [0..NumRows -> Nat]
      BY DEF TypeOK
    <3>4. QED
      BY <3>1, <3>2, <3>3
  <2>3. QED
    BY <1>0, <1>13, <2>1, <2>2 DEF TypeOK, Finalize, job, local
<1>14. ASSUME NEW r \in Run, RunFailed(r)
       PROVE  TypeOK'
  BY <1>0, <1>14 DEF TypeOK, RunFailed, table, job, local
<1>15. ASSUME NEW r \in Run, Terminate(r)
       PROVE  TypeOK'
  BY <1>0, <1>15 DEF TypeOK, Terminate, table, job, local
<1>16. ASSUME NEW r \in Run, RunLost(r)
       PROVE  TypeOK'
  BY <1>0, <1>16 DEF TypeOK, RunLost, table, job, local
<1>17. QED
  BY <1>1, <1>2, <1>3, <1>4, <1>5, <1>6, <1>7, <1>8, <1>9, <1>10, <1>11,
     <1>12, <1>13, <1>14, <1>15, <1>16
  DEF Next, RequestStep, RunStep

(* The initial values have their types.                                    *)
LEMMA TypeInit == Init => TypeOK
<1> SUFFICES ASSUME Init PROVE TypeOK
  OBVIOUS
<1>1. NoBatch \in Tally /\ NoCount \in Counters
  BY DEF NoBatch, NoCount, Tally, Counters
<1>2. 1 \in Run
  BY DEF Run
<1>3. /\ recs \in [Run -> SUBSET ValidRow]
      /\ rejs \in [Run -> SUBSET (Row \ ValidRow)]
  BY DEF Init
<1>4. /\ ctr \in [Run -> Tally]
      /\ seen \in [Run -> Counters \cup {Expired}]
      /\ count \in Counters
  BY <1>1 DEF Init
<1>5. /\ from \in [Run -> 0..NumRows]
      /\ row \in [Run -> 0..NumRows]
      /\ anomalies \in [0..NumRows -> Nat]
      /\ total \in {0, NumRows}
  BY DEF Init
<1>6. QED
  BY <1>2, <1>3, <1>4, <1>5 DEF Init, TypeOK

(* Every variable stays in its type: TypeOK is inductive.                  *)
THEOREM TypeCorrect == Spec => []TypeOK
BY TypeInit, TypeStep, PTL DEF Spec

-----------------------------------------------------------------------------
(* Nothing is lost.                                                        *)

(* What a run owes to the rows it has passed: those at or before its       *)
(* resume_from_row are in the database, those it has read since are in the *)
(* database or in its batch, and it reaches finalize with an empty batch.  *)
Covers(r) ==
  /\ \A i \in Row : i <= from[r] => Persisted(i)
  /\ pc[r] \in {"rows", "final"} =>
       \A i \in Row : i <= row[r] => Persisted(i) \/ i \in recs[r] \/ i \in rejs[r]
  /\ pc[r] = "final" => row[r] = NumRows /\ recs[r] = {} /\ rejs[r] = {}

(* NothingLost alone is not inductive: the mark of the next commit is the  *)
(* row number of a run, about which only Covers says something.            *)
Durable == NothingLost /\ CompletedMeansAll /\ \A r \in Run : Covers(r)

(* The database side only grows: no step removes a record or an anomaly.   *)
LEMMA PersistedStays ==
  ASSUME TypeOK, [Next]_vars
  PROVE  \A i \in Row : Persisted(i) => Persisted(i)'
<1> SUFFICES /\ file' = file
             /\ stored \subseteq stored'
             /\ \A i \in Row : anomalies'[i] >= anomalies[i] /\ anomalies[i] \in Nat
                               /\ anomalies'[i] \in Nat
  BY DEF Persisted
<1>1. \A i \in Row : anomalies[i] \in Nat /\ anomalies'[i] \in Nat
  <2>1. anomalies \in [0..NumRows -> Nat] /\ anomalies' \in [0..NumRows -> Nat]
    BY TypeStep DEF TypeOK
  <2>2. QED
    BY <2>1 DEF Row
<1>2. CASE UNCHANGED table
  BY <1>1, <1>2 DEF table
<1>3. ASSUME NEW r \in Run, FlushBatch(r)
      PROVE  /\ file' = file
             /\ stored \subseteq stored'
             /\ \A i \in Row : anomalies'[i] >= anomalies[i]
  <2>1. \A i \in 0..NumRows :
          anomalies'[i] = anomalies[i] + IF i \in rejs[r] \/ (i = 0 /\ Skipped(r) > 0)
                                         THEN 1 ELSE 0
    BY <1>3 DEF FlushBatch
  <2>2. \A i \in Row : anomalies'[i] >= anomalies[i]
    BY <1>1, <2>1 DEF Row
  <2>3. QED
    BY <1>3, <2>2 DEF FlushBatch
<1>4. ASSUME NEW r \in Run, Finalize(r)
      PROVE  /\ file' = file
             /\ stored \subseteq stored'
             /\ \A i \in Row : anomalies'[i] >= anomalies[i]
  <2>1. PICK missing \in {0, 1} : anomalies' = [anomalies EXCEPT ![0] = @ + missing]
    BY <1>4 DEF Finalize, MissingPeriods
  <2>2. \A i \in Row : anomalies'[i] = anomalies[i]
    BY <2>1 DEF TypeOK, Row
  <2>3. QED
    BY <1>1, <1>4, <2>2 DEF Finalize
<1>5. QED
  BY <1>1, <1>2, <1>3, <1>4
  DEF Next, RequestStep, RunStep, vars, Cancel, Dispatch, DispatchFail,
      RecordFailure, RecordTaskId, RequestLost, Resume, InitImport, OpenContext, ReadValidRow,
      ReadRejectedRow, RunFailed, Terminate, RunLost

(* Steps that leave the mark and every batch alone and complete nothing.   *)
LEMMA DurableQuiet ==
  ASSUME TypeOK, Durable, [Next]_vars,
         UNCHANGED <<count, from, row, recs, rejs>>,
         \A r \in Run : pc'[r] \in {"rows", "final"} => pc'[r] = pc[r],
         status' = "completed" => status = "completed"
  PROVE  Durable'
<1>1. \A i \in Row : Persisted(i) => Persisted(i)'
  BY PersistedStays
<1>2. NothingLost' /\ CompletedMeansAll'
  BY <1>1 DEF Durable, NothingLost, CompletedMeansAll
<1>3. ASSUME NEW r \in Run
      PROVE  Covers(r)'
  BY <1>1 DEF Durable, Covers
<1>4. QED
  BY <1>2, <1>3 DEF Durable

(* After a flush every row the run has read is in the database.            *)
LEMMA FlushPersists ==
  ASSUME TypeOK, Durable, NEW r \in Run, FlushBatch(r), [Next]_vars
  PROVE  \A i \in Row : i <= row[r] => Persisted(i)'
<1> SUFFICES ASSUME NEW i \in Row, i <= row[r]
             PROVE  Persisted(i)'
  OBVIOUS
<1>1. Persisted(i) \/ i \in recs[r] \/ i \in rejs[r]
  BY DEF Durable, Covers, FlushBatch
<1>2. CASE Persisted(i)
  BY <1>2, PersistedStays
<1>3. CASE i \in recs[r]
  <2>1. file[i] # Rejected
    BY <1>3 DEF TypeOK, ValidRow
  <2>2. file' = file /\ file[i] \in stored'
    BY <1>3 DEF FlushBatch, Inserted
  <2>3. QED
    BY <2>1, <2>2 DEF Persisted
<1>4. CASE i \in rejs[r]
  <2>1. file[i] = Rejected /\ i \in 0..NumRows
    BY <1>4 DEF TypeOK, ValidRow, Row
  <2>2. file' = file /\ anomalies'[i] = anomalies[i] + 1
    BY <1>4, <2>1 DEF FlushBatch
  <2>3. QED
    BY <2>1, <2>2 DEF Persisted, TypeOK
<1>5. QED
  BY <1>1, <1>2, <1>3, <1>4

(* Every step keeps what Durable says: the mark, the batches in flight and *)
(* a completed job stay within what the database holds.                    *)
LEMMA DurableStep ==
  ASSUME TypeOK, Durable, [Next]_vars
  PROVE  Durable'
<1>1. \A i \in Row : Persisted(i) => Persisted(i)'
  BY PersistedStays
<1>2. CASE UNCHANGED vars \/ Cancel
  BY <1>2, DurableQuiet DEF vars, local, job, Cancel
<1>3. ASSUME NEW r \in Run,
             \/ RequestStep(r) \/ RequestLost(r) \/ InitImport(r)
             \/ RunFailed(r) \/ Terminate(r) \/ RunLost(r)
      PROVE  Durable'
  <2>1. UNCHANGED <<count, from, row, recs, rejs>>
    BY <1>3 DEF local, job, RequestStep, Dispatch, DispatchFail, RecordFailure, RecordTaskId,
                RequestLost, InitImport, RunFailed, Terminate, RunLost
  <2>2. \A q \in Run : pc'[q] \in {"rows", "final"} => pc'[q] = pc[q]
    BY <1>3 DEF TypeOK, RequestStep, Dispatch, DispatchFail, RecordFailure, RecordTaskId,
                RequestLost, InitImport, RunFailed, Terminate, RunLost
  <2>3. status' = "completed" => status = "completed"
    BY <1>3 DEF job, RequestStep, Dispatch, DispatchFail, RecordFailure, RecordTaskId,
                RequestLost, InitImport, RunFailed, Terminate, RunLost
  <2>4. QED
    BY <2>1, <2>2, <2>3, DurableQuiet
<1>4. ASSUME NEW r \in Run, Resume(r)
      PROVE  Durable'
  <2>1. NothingLost' /\ CompletedMeansAll'
    BY <1>1, <1>4 DEF Durable, NothingLost, CompletedMeansAll, Resume
  <2>2. ASSUME NEW q \in Run
        PROVE  Covers(q)'
    <3>1. from'[q] = IF q = r THEN count.last ELSE from[q]
      BY <1>4 DEF Resume, TypeOK
    <3>2. UNCHANGED <<pc, row, recs, rejs>>
      BY <1>4 DEF Resume
    <3>3. \A i \in Row : i <= from'[q] => Persisted(i)
      BY <3>1 DEF Durable, NothingLost, Covers
    <3>4. QED
      BY <1>1, <3>2, <3>3 DEF Durable, Covers
  <2>3. QED
    BY <2>1, <2>2 DEF Durable
<1>5. ASSUME NEW r \in Run, OpenContext(r)
      PROVE  Durable'
  <2>1. NothingLost' /\ CompletedMeansAll'
    BY <1>1, <1>5 DEF Durable, NothingLost, CompletedMeansAll, OpenContext, job
  <2>2. ASSUME NEW q \in Run
        PROVE  Covers(q)'
    <3>1. /\ row'[q] = IF q = r THEN from[r] ELSE row[q]
          /\ pc'[q] = IF q = r THEN "rows" ELSE pc[q]
          /\ UNCHANGED <<from, recs, rejs>>
      BY <1>5 DEF OpenContext, TypeOK
    <3>2. QED
      BY <1>1, <3>1 DEF Durable, Covers
  <2>3. QED
    BY <2>1, <2>2 DEF Durable
<1>6. ASSUME NEW r \in Run, ReadValidRow(r) \/ ReadRejectedRow(r)
      PROVE  Durable'
  <2>1. NothingLost' /\ CompletedMeansAll'
    BY <1>1, <1>6
    DEF Durable, NothingLost, CompletedMeansAll, ReadValidRow, ReadRejectedRow, job
  <2>2. ASSUME NEW q \in Run
        PROVE  Covers(q)'
    <3>1. /\ pc' = pc /\ from' = from
          /\ row'[q] = IF q = r THEN row[r] + 1 ELSE row[q]
          /\ pc[r] = "rows"
      BY <1>6 DEF ReadValidRow, ReadRejectedRow, TypeOK
    <3>2. /\ recs[q] \subseteq recs'[q]
          /\ rejs[q] \subseteq rejs'[q]
          /\ q # r => recs'[q] = recs[q] /\ rejs'[q] = rejs[q]
      <4>1. recs \in [Run -> SUBSET ValidRow] /\ rejs \in [Run -> SUBSET (Row \ ValidRow)]
        BY DEF TypeOK
      <4>2. CASE ReadValidRow(r)
        BY <4>1, <4>2 DEF ReadValidRow
      <4>3. CASE ReadRejectedRow(r)
        BY <4>1, <4>3 DEF ReadRejectedRow
      <4>4. QED
        BY <1>6, <4>2, <4>3
    <3>3. row[r] + 1 \in recs'[r] \/ row[r] + 1 \in rejs'[r]
      BY <1>6 DEF ReadValidRow, ReadRejectedRow, TypeOK
    <3>4. \A i \in Row : i <= row[r] + 1 => i <= row[r] \/ i = row[r] + 1
      <4>1. row[r] \in 0..NumRows
        BY DEF TypeOK
      <4>2. QED
        BY <4>1 DEF Row
    <3>5. CASE q = r
      BY <1>1, <3>1, <3>2, <3>3, <3>4, <3>5 DEF Durable, Covers
    <3>6. CASE q # r
      BY <1>1, <3>1, <3>2, <3>6 DEF Durable, Covers
    <3>7. QED
      BY <3>5, <3>6
  <2>3. QED
    BY <2>1, <2>2 DEF Durable
<1>7. ASSUME NEW r \in Run, FlushBatch(r)
      PROVE  Durable'
  <2>1. \A i \in Row : i <= row[r] => Persisted(i)'
    BY <1>7, FlushPersists
  <2>2. CompletedMeansAll'
    BY <1>1, <1>7 DEF Durable, CompletedMeansAll, FlushBatch
  <2>3. NothingLost'
    <3>1. count'.last = count.last \/ count'.last = row[r]
      BY <1>7 DEF FlushBatch, Save, Column, Progress
    <3>2. QED
      BY <1>1, <2>1, <3>1 DEF Durable, NothingLost
  <2>4. ASSUME NEW q \in Run
        PROVE  Covers(q)'
    <3>1. /\ UNCHANGED <<from, row>>
          /\ q # r => pc'[q] = pc[q] /\ recs'[q] = recs[q] /\ rejs'[q] = rejs[q]
          /\ recs'[r] = {} /\ rejs'[r] = {}
          /\ pc'[r] = "final" => row[r] = NumRows
      BY <1>7 DEF FlushBatch, TypeOK
    <3>2. CASE q = r
      BY <1>1, <2>1, <3>1, <3>2 DEF Durable, Covers
    <3>3. CASE q # r
      BY <1>1, <3>1, <3>3 DEF Durable, Covers
    <3>4. QED
      BY <3>2, <3>3
  <2>5. QED
    BY <2>2, <2>3, <2>4 DEF Durable
<1>8. ASSUME NEW r \in Run, Finalize(r)
      PROVE  Durable'
  <2>1. \A i \in Row : Persisted(i)'
    <3>1. \A i \in Row : i <= NumRows
      BY DEF Row
    <3>2. QED
      BY <1>1, <1>8, <3>1 DEF Finalize, Durable, Covers
  <2>2. ASSUME NEW q \in Run
        PROVE  Covers(q)'
    <3>1. /\ UNCHANGED <<from, row, recs, rejs>>
          /\ pc'[q] \in {"rows", "final"} => pc'[q] = pc[q]
      BY <1>8 DEF Finalize, TypeOK, local
    <3>2. QED
      BY <1>1, <3>1 DEF Durable, Covers
  <2>3. QED
    BY <2>1, <2>2 DEF Durable, NothingLost, CompletedMeansAll
<1>9. QED
  BY <1>2, <1>3, <1>4, <1>5, <1>6, <1>7, <1>8 DEF Next, RunStep

(* Nothing has been read at first, so Durable holds.                       *)
LEMMA DurableInit == Init => Durable
BY DEF Init, Durable, NothingLost, CompletedMeansAll, Covers, NoCount, Row, Run

(* Whatever fails, is cancelled, killed, resumed or runs twice, no row at  *)
(* or before last_processed_row is missing from the database.              *)
THEOREM NothingIsLost == Spec => []NothingLost
<1>1. Init => TypeOK /\ Durable
  BY DurableInit, TypeInit
<1>2. TypeOK /\ Durable /\ [Next]_vars => (TypeOK /\ Durable)'
  BY TypeStep, DurableStep
<1>3. Durable => NothingLost
  BY DEF Durable
<1>4. QED
  BY <1>1, <1>2, <1>3, PTL DEF Spec

(* A job is reported as completed only with every row in the database.     *)
THEOREM CompletionIsHonest == Spec => []CompletedMeansAll
<1>1. Init => TypeOK /\ Durable
  BY DurableInit, TypeInit
<1>2. TypeOK /\ Durable /\ [Next]_vars => (TypeOK /\ Durable)'
  BY TypeStep, DurableStep
<1>3. Durable => CompletedMeansAll
  BY DEF Durable
<1>4. QED
  BY <1>1, <1>2, <1>3, PTL DEF Spec

-----------------------------------------------------------------------------
(* The job implements ImportLedger.                                        *)

(* Every step of the job is a step of the ledger: a flush commits, finalize *)
(* completes, and all others leave the ledger alone or reopen it.          *)
LEMMA LedgerStep ==
  ASSUME TypeOK, Durable, [Next]_vars
  PROVE  [Ledger!Next]_(Ledger!ledger)
<1> DEFINE settled == {i \in Row : Persisted(i)}
<1>1. settled \in SUBSET settled' /\ settled' \in SUBSET Row
  BY PersistedStays
<1>2. TypeOK' /\ Durable'
  BY TypeStep, DurableStep
<1>3. count'.last \in 0..NumRows
  BY <1>2 DEF TypeOK, Counters
<1>4. ASSUME NEW r \in Run, FlushBatch(r)
      PROVE  Ledger!Commit
  <2>1. 1..count'.last \subseteq settled'
    BY <1>2, <1>3 DEF Durable, NothingLost, Row
  <2>2. (status' = "completed") = (status = "completed")
    BY <1>4 DEF FlushBatch
  <2>3. QED
    BY <1>1, <1>3, <2>1, <2>2 DEF Ledger!Commit, Ledger!Row, Row
<1>5. ASSUME NEW r \in Run, Finalize(r)
      PROVE  Ledger!Complete
  <2>1. settled = Row
    BY <1>5 DEF Finalize, Durable, Covers, Row
  <2>2. settled' = settled
    BY <1>1, <2>1
  <2>3. (status' = "completed") = TRUE
    BY <1>5 DEF Finalize
  <2>4. QED
    BY <1>3, <2>1, <2>2, <2>3 DEF Ledger!Complete, Ledger!Row, Row
<1>6. ASSUME UNCHANGED <<table, count>>,
             status' = "completed" => status = "completed"
      PROVE  [Ledger!Next]_(Ledger!ledger)
  <2>1. settled' = settled /\ count'.last = count.last
    BY <1>6 DEF table, Persisted
  <2>2. CASE (status' = "completed") = (status = "completed")
    BY <2>1, <2>2 DEF Ledger!ledger
  <2>3. CASE (status' = "completed") = FALSE
    BY <2>1, <2>3 DEF Ledger!Reopen, Ledger!Next
  <2>4. QED
    BY <1>6, <2>2, <2>3
<1>7. CASE UNCHANGED vars \/ Cancel
  BY <1>6, <1>7 DEF vars, job, Cancel
<1>8. ASSUME NEW r \in Run,
             \/ RequestStep(r) \/ RequestLost(r) \/ Resume(r)
             \/ InitImport(r) \/ OpenContext(r) \/ ReadValidRow(r) \/ ReadRejectedRow(r)
             \/ RunFailed(r) \/ Terminate(r) \/ RunLost(r)
      PROVE  [Ledger!Next]_(Ledger!ledger)
  <2>1. UNCHANGED <<table, count>>
    BY <1>8 DEF job, RequestStep, Dispatch, DispatchFail, RecordFailure, RecordTaskId,
       RequestLost, Resume, InitImport, OpenContext, ReadValidRow, ReadRejectedRow, RunFailed,
       Terminate, RunLost
  <2>2. status' = "completed" => status = "completed"
    BY <1>8 DEF job, RequestStep, Dispatch, DispatchFail, RecordFailure, RecordTaskId,
       RequestLost, Resume, InitImport, OpenContext, ReadValidRow, ReadRejectedRow, RunFailed,
       Terminate, RunLost
  <2>3. QED
    BY <1>6, <2>1, <2>2
<1>9. QED
  BY <1>4, <1>5, <1>7, <1>8 DEF Next, RunStep, Ledger!Next

(* The detailed job, with its batches, requests and lost runs, keeps the   *)
(* promise of ImportLedger.                                                *)
THEOREM ImplementsLedger == Spec => KeepsLedger
<1>1. Init => TypeOK /\ Durable
  BY DurableInit, TypeInit
<1>2. Init => Ledger!Init
  <2> SUFFICES ASSUME Init PROVE Ledger!Init
    OBVIOUS
  <2>1. (status = "completed") = FALSE
    BY DEF Init
  <2>2. count.last = 0
    BY DEF Init, NoCount
  <2>3. {i \in Row : Persisted(i)} \in SUBSET Ledger!Row
    BY DEF Row, Ledger!Row
  <2>4. QED
    BY <2>1, <2>2, <2>3 DEF Ledger!Init
<1>3. TypeOK /\ Durable /\ [Next]_vars => (TypeOK /\ Durable)'
  BY TypeStep, DurableStep
<1>4. TypeOK /\ Durable /\ [Next]_vars => [Ledger!Next]_(Ledger!ledger)
  BY LedgerStep
<1>5. QED
  BY <1>1, <1>2, <1>3, <1>4, PTL DEF Spec, KeepsLedger, Ledger!Spec

-----------------------------------------------------------------------------
(* Every row is counted once, as long as no resume overtook a live run.    *)

Before == {"none", "queued", "open"}
Within == {"rows", "final"}

(* Where a run stands and what its request and its batch look like there.  *)
Phases ==
  \A r \in Run :
    /\ api[r] \in {"none", "dispatch"} => pc[r] = "none"
    /\ pc[r] \in Before => recs[r] = {} /\ rejs[r] = {}
    /\ pc[r] = "final" => recs[r] = {} /\ rejs[r] = {}

(* A live run agrees with the job row: it will start where the mark is, or *)
(* its counters and its batch are exactly the rows read since the mark.    *)
InStep(r) ==
  /\ pc[r] \in Before => from[r] = count.last
  /\ pc[r] \in Within =>
       /\ seen[r] \in {count, Expired}
       /\ count.last <= row[r]
       /\ ctr[r].processed = row[r]
       /\ ctr[r].success = count.success
       /\ ctr[r].success + ctr[r].failed + Cardinality(recs[r]) = row[r]
       /\ recs[r] = {i \in ValidRow : count.last < i /\ i <= row[r]}
       /\ rejs[r] = {i \in Row \ ValidRow : count.last < i /\ i <= row[r]}

OneLive == \A q, r \in Run : Live(q) /\ Live(r) => q = r

Tallied ==
  /\ count.success = Cardinality(mine)
  /\ count.processed = count.last
  /\ count.success + count.failed = count.last
  /\ \A i \in Row \ ValidRow : anomalies[i] = IF i <= count.last THEN 1 ELSE 0

(* CountedOnce is about the job row alone; it survives the next flush only *)
(* because the one live run is in step with that row.                      *)
Exact ==
  /\ Phases
  /\ ~overlapped => OneLive /\ Tallied /\ \A r \in Run : Live(r) => InStep(r)

(* Nothing has been counted at first, so Exact holds.                      *)
LEMMA ExactInit == Init => Exact
<1> SUFFICES ASSUME Init PROVE Exact
  OBVIOUS
<1>1. Phases
  BY DEF Init, Phases, Before
<1>2. OneLive
  BY DEF Init, OneLive, Live, Waiting, Running
<1>3. Tallied
  <2>1. Cardinality(mine) = 0
    BY FS_EmptySet DEF Init
  <2>2. \A i \in Row \ ValidRow : anomalies[i] = 0 /\ ~(i <= 0)
    BY DEF Init, Row
  <2>3. QED
    BY <2>1, <2>2 DEF Init, Tallied, NoCount
<1>4. \A r \in Run : InStep(r)
  BY DEF Init, InStep, Before, Within, NoCount
<1>5. QED
  BY <1>1, <1>2, <1>3, <1>4 DEF Exact

(* Every step keeps the phases: a request is published before its run      *)
(* starts, and a run has no batch outside its row loop.                    *)
LEMMA PhasesStep ==
  ASSUME TypeOK, Phases, [Next]_vars
  PROVE  Phases'
<1> USE DEF Phases, Before
<1>1. CASE UNCHANGED vars \/ Cancel
  BY <1>1 DEF vars, local, Cancel
<1>2. ASSUME NEW r \in Run,
             Dispatch(r) \/ DispatchFail(r) \/ RecordFailure(r) \/ RecordTaskId(r)
      PROVE  Phases'
  BY <1>2, SMTT(30) DEF TypeOK, local, Dispatch, DispatchFail, RecordFailure, RecordTaskId
<1>3. ASSUME NEW r \in Run, RequestLost(r) \/ Resume(r)
      PROVE  Phases'
  BY <1>3, ZenonT(40) DEF TypeOK, local, RequestLost, Resume
<1>4. ASSUME NEW r \in Run, InitImport(r) \/ OpenContext(r)
      PROVE  Phases'
  BY <1>4, ZenonT(40) DEF TypeOK, local, InitImport, OpenContext
<1>5. ASSUME NEW r \in Run, ReadValidRow(r) \/ ReadRejectedRow(r)
      PROVE  Phases'
  BY <1>5, ZenonT(40) DEF TypeOK, ReadValidRow, ReadRejectedRow
<1>6. ASSUME NEW r \in Run, FlushBatch(r)
      PROVE  Phases'
  <2>1. /\ api' = api
        /\ recs' = [recs EXCEPT ![r] = {}] /\ rejs' = [rejs EXCEPT ![r] = {}]
        /\ \A q \in Run : q # r => pc'[q] = pc[q]
        /\ pc[r] = "rows" /\ pc'[r] \in {"rows", "final"}
    BY <1>6 DEF TypeOK, FlushBatch
  <2>2. QED
    BY <2>1 DEF TypeOK
<1>7. ASSUME NEW r \in Run, Finalize(r)
      PROVE  Phases'
  BY <1>7 DEF TypeOK, local, Finalize
<1>8. ASSUME NEW r \in Run, RunFailed(r) \/ Terminate(r) \/ RunLost(r)
      PROVE  Phases'
  BY <1>8, ZenonT(40) DEF TypeOK, local, RunFailed, Terminate, RunLost, Waiting, Running
<1>9. QED
  BY <1>1, <1>2, <1>3, <1>4, <1>5, <1>6, <1>7, <1>8 DEF Next, RequestStep, RunStep

(* Steps that leave the job's counters, the tables and every batch alone   *)
(* and bring no run to life.                                               *)
LEMMA ExactQuiet ==
  ASSUME TypeOK, Exact, Phases',
         UNCHANGED <<table, count, local, overlapped>>,
         \A r \in Run : Live(r)' => Live(r),
         \A r \in Run : pc'[r] \in Within => pc[r] \in Within,
         \A r \in Run : Live(r)' /\ pc'[r] \in Before => pc[r] \in Before
  PROVE  Exact'
<1> SUFFICES ASSUME ~overlapped
             PROVE  OneLive' /\ Tallied' /\ \A r \in Run : Live(r)' => InStep(r)'
  BY DEF Exact
<1>1. OneLive'
  BY DEF Exact, OneLive
<1>2. ValidRow' = ValidRow /\ Tallied'
  BY DEF Exact, Tallied, table, ValidRow
<1>3. ASSUME NEW r \in Run, Live(r)'
      PROVE  InStep(r)'
  BY <1>2, <1>3 DEF Exact, InStep, local
<1>4. QED
  BY <1>1, <1>2, <1>3

(* A flush writes exactly the run's counters, and they are exact.          *)
LEMMA FlushExact ==
  ASSUME TypeOK, Exact, NEW r \in Run, FlushBatch(r), ~overlapped
  PROVE  /\ count' = [last |-> row[r], processed |-> row[r],
                      success |-> Cardinality(mine'),
                      failed |-> row[r] - Cardinality(mine')]
         /\ ctr'[r].processed = row[r]
         /\ ctr'[r].success = Cardinality(mine')
         /\ ctr'[r].success + ctr'[r].failed = row[r]
         /\ ctr'[r].success \in Nat /\ ctr'[r].failed \in Nat
<1> DEFINE c == Bump(ctr[r], 0, Cardinality(Inserted(r)), Skipped(r))
<1>1. /\ Live(r) /\ pc[r] \in Within
      /\ ctr' = [ctr EXCEPT ![r] = c]
      /\ count' = Save(r, Progress(r, c))
      /\ mine' = mine \cup Inserted(r)
  BY DEF FlushBatch, Live, Running, Within
<1>2. InStep(r) /\ Tallied
  BY <1>1 DEF Exact
<1>3. /\ Cardinality(recs[r]) \in Nat
      /\ IsFiniteSet(Inserted(r)) /\ Cardinality(Inserted(r)) \in Nat
  BY BatchBounds
<1>4. Cardinality(mine') = Cardinality(mine) + Cardinality(Inserted(r))
  <2>1. IsFiniteSet(mine)
    BY FS_Subset DEF TypeOK
  <2>2. mine \cap Inserted(r) = {}
    BY DEF TypeOK, Inserted
  <2>3. Cardinality(mine \cap Inserted(r)) = 0
    BY <2>2, FS_EmptySet
  <2>4. Cardinality(mine) \in Nat
    BY <2>1, FS_CardinalityType
  <2>5. Cardinality(mine \cup Inserted(r))
          = Cardinality(mine) + Cardinality(Inserted(r)) - Cardinality(mine \cap Inserted(r))
    BY <1>3, <2>1, FS_Union
  <2>6. QED
    BY <1>1, <1>3, <2>3, <2>4, <2>5
<1>5. /\ ctr[r].processed \in Nat /\ ctr[r].success \in Nat /\ ctr[r].failed \in Nat
      /\ row[r] \in 0..NumRows
  BY DEF TypeOK, Tally
<1>6. /\ c.processed = row[r]
      /\ c.success = Cardinality(mine')
      /\ c.failed = row[r] - Cardinality(mine')
  <2>1. /\ ctr[r].processed = row[r]
        /\ ctr[r].success = Cardinality(mine)
        /\ ctr[r].success + ctr[r].failed + Cardinality(recs[r]) = row[r]
    BY <1>1, <1>2 DEF InStep, Tallied
  <2>2. Skipped(r) = Cardinality(recs[r]) - Cardinality(Inserted(r))
    BY DEF Skipped
  <2>3. QED
    BY <1>3, <1>4, <1>5, <2>1, <2>2 DEF Bump
<1>7. c \in Tally
  BY <1>3, <1>5, BatchBounds, BumpType DEF TypeOK
<1>8. count' = Progress(r, c)
  <2> HIDE DEF c
  <2>1. seen[r] = count \/ seen[r] = Expired
    BY <1>1, <1>2 DEF InStep
  <2>2. count \in Counters /\ Progress(r, c) \in Counters
    BY <1>5, <1>7 DEF TypeOK, Progress, Counters, Tally
  <2>3. CASE seen[r] = count
    BY <1>1, <2>2, <2>3 DEF Save, Column, Progress
  <2>4. CASE seen[r] = Expired
    BY <1>1, <2>2, <2>4 DEF Save, Column, Progress, Expired, Counters
  <2>5. QED
    BY <2>1, <2>3, <2>4
<1>9. QED
  <2> HIDE DEF c
  <2>1. ctr'[r] = c
    BY <1>1 DEF TypeOK
  <2>2. Cardinality(mine') \in Nat /\ c.success \in Nat /\ c.failed \in Nat
    BY <1>6, <1>7 DEF Tally
  <2>3. QED
    BY <1>5, <1>6, <1>8, <2>1, <2>2 DEF Progress

(* A flush keeps the counters exact: the rows of the batch move from the   *)
(* run's side of the equation to the job's.                                *)
LEMMA ExactFlush ==
  ASSUME TypeOK, Exact, NEW r \in Run, FlushBatch(r), Phases', ~overlapped
  PROVE  OneLive' /\ Tallied' /\ \A q \in Run : Live(q)' => InStep(q)'
<1>1. /\ \A q \in Run : q # r => pc'[q] = pc[q]
      /\ pc[r] = "rows" /\ pc'[r] \in {"rows", "final"}
      /\ api' = api
  BY DEF FlushBatch, TypeOK
<1>2. \A q \in Run : Live(q)' => Live(q)
  BY <1>1 DEF Live, Waiting, Running
<1>3. Live(r) /\ OneLive /\ Tallied /\ InStep(r)
  <2>1. Live(r)
    BY <1>1 DEF Live, Running
  <2>2. QED
    BY <2>1 DEF Exact
<1>4. OneLive'
  BY <1>2, <1>3 DEF OneLive
<1>5. ValidRow' = ValidRow
  BY DEF FlushBatch, ValidRow
<1>6. row[r] \in 0..NumRows /\ count.last \in 0..NumRows /\ count.last <= row[r]
  BY <1>1, <1>3 DEF TypeOK, Counters, InStep, Within
<1>7. \A i \in Row \ ValidRow : anomalies'[i] = IF i <= row[r] THEN 1 ELSE 0
  <2> SUFFICES ASSUME NEW i \in Row \ ValidRow
               PROVE  anomalies'[i] = IF i <= row[r] THEN 1 ELSE 0
    OBVIOUS
  <2>1. i \in 0..NumRows /\ i # 0
    BY DEF Row
  <2>2. anomalies'[i] = anomalies[i] + IF i \in rejs[r] THEN 1 ELSE 0
    BY <2>1 DEF FlushBatch
  <2>3. i \in rejs[r] <=> count.last < i /\ i <= row[r]
    BY <1>1, <1>3 DEF InStep, Within
  <2>4. anomalies[i] = IF i <= count.last THEN 1 ELSE 0
    BY <1>3 DEF Tallied
  <2>5. QED
    BY <1>6, <2>1, <2>2, <2>3, <2>4
<1>8. Tallied'
  <2>1. Cardinality(mine') \in Nat
    BY FlushExact
  <2>2. QED
    BY <1>5, <1>6, <1>7, <2>1, FlushExact DEF Tallied
<1>9. ASSUME NEW q \in Run, Live(q)'
      PROVE  InStep(q)'
  <2>1. q = r
    BY <1>2, <1>3, <1>9 DEF OneLive
  <2>2. /\ row' = row
        /\ recs'[r] = {} /\ rejs'[r] = {} /\ seen'[r] = Expired
    BY DEF FlushBatch, TypeOK
  <2>3. Cardinality({}) = 0
    BY FS_EmptySet
  <2>4. ctr'[r].success \in Nat /\ ctr'[r].failed \in Nat
    BY FlushExact
  <2>5. \A i \in Row : ~(row[r] < i /\ i <= row[r])
    BY <1>6 DEF Row
  <2>6. QED
    BY <1>1, <1>5, <1>6, <2>1, <2>2, <2>3, <2>4, <2>5, FlushExact
    DEF InStep, Before, Within, ValidRow
<1>10. QED
  BY <1>4, <1>8, <1>9

(* Reading a row keeps the counters exact: the row enters the batch.       *)
LEMMA ExactRead ==
  ASSUME TypeOK, Exact, NEW r \in Run, ReadValidRow(r) \/ ReadRejectedRow(r),
         ~overlapped
  PROVE  OneLive' /\ Tallied' /\ \A q \in Run : Live(q)' => InStep(q)'
<1> DEFINE i == row[r] + 1
<1>1. /\ UNCHANGED <<api, pc, table, count>>
      /\ pc[r] = "rows"
      /\ row' = [row EXCEPT ![r] = i]
  BY DEF ReadValidRow, ReadRejectedRow, job
<1>2. ValidRow' = ValidRow /\ OneLive' /\ Tallied'
  <2>1. Live(r)
    BY <1>1 DEF Live, Running
  <2>2. OneLive /\ Tallied
    BY <2>1 DEF Exact
  <2>3. QED
    BY <1>1, <2>2 DEF OneLive, Live, Tallied, table, ValidRow
<1>3. Live(r) /\ OneLive /\ InStep(r)
  BY <1>1 DEF Exact, Live, Running
<1>4. /\ row[r] \in 0..NumRows /\ row[r] + 1 \in Row /\ row'[r] = row[r] + 1
      /\ count.last \in 0..NumRows
      /\ ctr[r].processed \in Nat /\ ctr[r].success \in Nat /\ ctr[r].failed \in Nat
  <2>1. row[r] \in 0..NumRows /\ row[r] < NumRows
    BY DEF TypeOK, ReadValidRow, ReadRejectedRow
  <2>2. row'[r] = row[r] + 1
    BY <1>1 DEF TypeOK
  <2>3. count.last \in 0..NumRows
    BY DEF TypeOK, Counters
  <2>4. ctr[r] \in Tally
    BY DEF TypeOK
  <2>5. QED
    BY <2>1, <2>2, <2>3, <2>4 DEF Row, Tally
<1>5. \A j \in Row : count.last < j /\ j <= row[r] + 1
                     <=> (count.last < j /\ j <= row[r]) \/ j = row[r] + 1
  BY <1>1, <1>3, <1>4 DEF Row, InStep, Within
<1>6. ~(row[r] + 1 <= row[r])
  BY <1>4
<1>7. seen'[r] \in {count, Expired}
  BY <1>1, <1>3 DEF ReadValidRow, ReadRejectedRow, TypeOK, InStep, Within
<1>8. CASE ReadValidRow(r)
  <2>1. /\ row[r] + 1 \in ValidRow
        /\ recs'[r] = recs[r] \cup {row[r] + 1} /\ rejs'[r] = rejs[r]
        /\ ctr'[r] = Bump(ctr[r], 1, 0, 0)
    BY <1>4, <1>8 DEF ReadValidRow, ValidRow, TypeOK
  <2>2. row[r] + 1 \notin recs[r]
    BY <1>1, <1>3, <1>6 DEF InStep, Within
  <2>3. /\ Cardinality(recs'[r]) = Cardinality(recs[r]) + 1
        /\ Cardinality(recs[r]) \in Nat
    BY <2>1, <2>2, BatchBounds, FS_AddElement
  <2>4. /\ recs'[r] = {j \in ValidRow : count.last < j /\ j <= row[r] + 1}
        /\ rejs'[r] = {j \in Row \ ValidRow : count.last < j /\ j <= row[r] + 1}
    BY <1>1, <1>3, <1>5, <2>1 DEF InStep, Within, ValidRow
  <2>5. InStep(r)'
    BY <1>1, <1>2, <1>3, <1>4, <1>7, <2>1, <2>3, <2>4
    DEF InStep, Before, Within, Bump
  <2>6. QED
    BY <1>1, <1>2, <1>3, <2>5 DEF OneLive, Live
<1>9. CASE ReadRejectedRow(r)
  <2>1. /\ row[r] + 1 \in Row \ ValidRow
        /\ rejs'[r] = rejs[r] \cup {row[r] + 1} /\ recs'[r] = recs[r]
        /\ ctr'[r] = Bump(ctr[r], 1, 0, 1)
    BY <1>4, <1>9 DEF ReadRejectedRow, ValidRow, TypeOK
  <2>2. Cardinality(recs[r]) \in Nat
    BY BatchBounds
  <2>3. /\ recs'[r] = {j \in ValidRow : count.last < j /\ j <= row[r] + 1}
        /\ rejs'[r] = {j \in Row \ ValidRow : count.last < j /\ j <= row[r] + 1}
    BY <1>1, <1>3, <1>5, <2>1 DEF InStep, Within, ValidRow
  <2>4. InStep(r)'
    BY <1>1, <1>2, <1>3, <1>4, <1>7, <2>1, <2>2, <2>3
    DEF InStep, Before, Within, Bump
  <2>5. QED
    BY <1>1, <1>2, <1>3, <2>4 DEF OneLive, Live
<1>10. QED
  BY <1>8, <1>9

(* A run that opens its file starts from the job's counters.               *)
LEMMA ExactOpen ==
  ASSUME TypeOK, Exact, NEW r \in Run, OpenContext(r), ~overlapped
  PROVE  OneLive' /\ Tallied' /\ \A q \in Run : Live(q)' => InStep(q)'
<1>1. /\ UNCHANGED <<api, table, count, from, recs, rejs>>
      /\ pc[r] = "open" /\ pc' = [pc EXCEPT ![r] = "rows"]
      /\ row'[r] = from[r] /\ seen'[r] = count
  BY DEF OpenContext, job, TypeOK
<1>2. /\ Live(r) /\ OneLive /\ Tallied /\ InStep(r)
      /\ recs[r] = {} /\ rejs[r] = {}
  BY <1>1 DEF Exact, Live, Running, Phases, Before
<1>3. ValidRow' = ValidRow /\ Tallied'
  BY <1>1, <1>2 DEF Tallied, table, ValidRow
<1>4. \A q \in Run : Live(q)' => Live(q)
  BY <1>1 DEF Live, Running, Waiting, TypeOK
<1>5. from[r] = count.last /\ count.last \in 0..NumRows
  BY <1>1, <1>2 DEF InStep, Before, TypeOK, Counters
<1>6. /\ count.processed \in Nat /\ count.success \in Nat /\ count.failed \in Nat
  BY DEF TypeOK, Counters
<1>7. /\ ctr'[r].processed = count.last
      /\ ctr'[r].success = count.success
      /\ ctr'[r].failed = count.failed
  <2>1. /\ count.processed = count.last
        /\ count.success + count.failed = count.last
    BY <1>2 DEF Tallied
  <2>2. CASE from[r] > 0
    BY <2>1, <2>2 DEF OpenContext, TypeOK
  <2>3. CASE ~(from[r] > 0)
    <3>1. count.last = 0 /\ count.success = 0 /\ count.failed = 0
      BY <1>5, <1>6, <2>1, <2>3
    <3>2. ctr'[r] = NoBatch
      BY <2>3 DEF OpenContext, TypeOK
    <3>3. QED
      BY <3>1, <3>2 DEF NoBatch
  <2>4. QED
    BY <2>2, <2>3
<1>8. InStep(r)'
  <2>1. \A i \in Row : ~(count.last < i /\ i <= count.last)
    BY <1>5 DEF Row
  <2>2. Cardinality(recs'[r]) = 0
    BY <1>1, <1>2, FS_EmptySet
  <2>3. count.success + count.failed = count.last
    BY <1>2 DEF Tallied
  <2>4. pc'[r] = "rows"
    BY <1>1 DEF TypeOK
  <2>5. QED
    BY <1>1, <1>2, <1>3, <1>5, <1>6, <1>7, <2>1, <2>2, <2>3, <2>4
    DEF InStep, Before, Within, ValidRow
<1>9. QED
  BY <1>2, <1>3, <1>4, <1>8 DEF OneLive

(* Finalize writes counters that are already exact, and leaves the mark at *)
(* the last row.                                                           *)
LEMMA ExactFinalize ==
  ASSUME TypeOK, Exact, NEW r \in Run, Finalize(r), ~overlapped
  PROVE  /\ count'.last >= count.last
         /\ OneLive' /\ Tallied' /\ \A q \in Run : Live(q)' => InStep(q)'
<1>1. /\ UNCHANGED <<api, file, mine, row, ctr>>
      /\ pc[r] = "final" /\ pc' = [pc EXCEPT ![r] = "done"]
      /\ count' = Progress(r, ctr[r])
  BY DEF Finalize, local
<1>2. Live(r) /\ OneLive /\ Tallied /\ InStep(r) /\ recs[r] = {} /\ rejs[r] = {}
  BY <1>1 DEF Exact, Live, Running, Phases
<1>3. api[r] # "dispatch" /\ pc'[r] = "done"
  BY <1>1 DEF Exact, Phases, TypeOK
<1>4. \A q \in Run : Live(q)' => Live(q) /\ q # r
  BY <1>1, <1>3 DEF Live, Running, Waiting, TypeOK
<1>5. \A q \in Run : ~Live(q)'
  BY <1>2, <1>4 DEF OneLive
<1>6. /\ row[r] \in 0..NumRows /\ count.last \in 0..NumRows /\ count.last <= row[r]
      /\ ctr[r].success \in Nat /\ ctr[r].failed \in Nat
  BY <1>1, <1>2 DEF TypeOK, Counters, Tally, InStep, Within
<1>7. \A i \in Row \ ValidRow : anomalies'[i] = anomalies[i]
  <2>1. PICK missing \in {0, 1} : anomalies' = [anomalies EXCEPT ![0] = @ + missing]
    BY DEF Finalize, MissingPeriods
  <2>2. QED
    BY <2>1 DEF TypeOK, Row
<1>8. \A i \in Row \ ValidRow : i <= row[r] <=> i <= count.last
  <2>1. \A i \in Row \ ValidRow : ~(count.last < i /\ i <= row[r])
    BY <1>1, <1>2 DEF InStep, Within
  <2>2. QED
    BY <1>6, <2>1 DEF Row
<1>9. /\ ctr[r].processed = row[r]
      /\ ctr[r].success = Cardinality(mine)
      /\ ctr[r].success + ctr[r].failed = row[r]
  <2>1. Cardinality(recs[r]) = 0
    BY <1>2, FS_EmptySet
  <2>2. QED
    BY <1>1, <1>2, <1>6, <2>1 DEF InStep, Within, Tallied
<1>10. Tallied'
  <2>1. ValidRow' = ValidRow
    BY <1>1 DEF ValidRow
  <2>2. QED
    BY <1>1, <1>2, <1>7, <1>8, <1>9, <2>1 DEF Tallied, Progress
<1>11. QED
  BY <1>1, <1>5, <1>6, <1>10 DEF OneLive, Progress

(* A resume starts a run at the mark, and no other run is alive, or says   *)
(* that one is.                                                            *)
LEMMA ExactResume ==
  ASSUME TypeOK, Exact, NEW r \in Run, Resume(r), ~overlapped'
  PROVE  OneLive' /\ Tallied' /\ \A q \in Run : Live(q)' => InStep(q)'
<1>1. /\ UNCHANGED <<pc, table, count>>
      /\ api[r] = "none" /\ api' = [api EXCEPT ![r] = "dispatch"]
      /\ from'[r] = count.last
      /\ ~overlapped /\ \A q \in Run : ~Live(q)
  BY DEF Resume, TypeOK
<1>2. \A q \in Run : Live(q)' => q = r
  BY <1>1 DEF Live, TypeOK
<1>3. Tallied'
  BY <1>1 DEF Exact, Tallied, table, ValidRow
<1>4. InStep(r)'
  BY <1>1 DEF Exact, Phases, InStep, Before, Within
<1>5. QED
  BY <1>2, <1>3, <1>4 DEF OneLive

(* Every step keeps the counters exact.                                    *)
LEMMA ExactStep ==
  ASSUME TypeOK, Exact, [Next]_vars
  PROVE  Exact'
<1>1. Phases'
  BY PhasesStep DEF Exact
<1>2. CASE UNCHANGED vars \/ Cancel
  <2>1. UNCHANGED <<table, count, local, overlapped, pc, api>>
    BY <1>2 DEF vars, job, Cancel
  <2>2. QED
    BY <1>1, <2>1, ExactQuiet DEF Live
<1>3. ASSUME NEW r \in Run,
             RequestStep(r) \/ RequestLost(r)
      PROVE  Exact'
  <2>1. UNCHANGED <<table, count, local, overlapped>>
    BY <1>3 DEF job, RequestStep, Dispatch, DispatchFail, RecordFailure, RecordTaskId, RequestLost
  <2>2. \A q \in Run : pc'[q] \in Within => pc[q] \in Within
    BY <1>3 DEF TypeOK, Within, RequestStep, Dispatch, DispatchFail, RecordFailure, RecordTaskId,
                RequestLost
  <2>3. \A q \in Run : Live(q)' => Live(q)
    BY <1>3 DEF TypeOK, Live, Waiting, Running, RequestStep, Dispatch, DispatchFail,
                RecordFailure, RecordTaskId, RequestLost
  <2>4. api[r] = "dispatch" => pc[r] \in Before
    BY DEF Exact, Phases, Before
  <2>5. \A q \in Run : pc'[q] \in Before => pc[q] \in Before
    BY <1>3, <2>4 DEF TypeOK, Before, RequestStep, Dispatch, DispatchFail,
                      RecordFailure, RecordTaskId, RequestLost
  <2>6. QED
    BY <1>1, <2>1, <2>2, <2>3, <2>5, ExactQuiet
<1>4. ASSUME NEW r \in Run,
             InitImport(r) \/ RunFailed(r) \/ Terminate(r) \/ RunLost(r)
      PROVE  Exact'
  <2>1. UNCHANGED <<table, count, local, overlapped, api>>
    BY <1>4 DEF job, InitImport, RunFailed, Terminate, RunLost
  <2>2. /\ pc[r] \in Waiting \cup Running
        /\ \/ pc' = [pc EXCEPT ![r] = "open"] /\ pc[r] = "queued"
           \/ pc' = [pc EXCEPT ![r] = "done"]
    BY <1>4 DEF InitImport, RunFailed, Terminate, RunLost, Waiting
  <2>3. \A q \in Run : /\ Live(q)' => Live(q)
                       /\ pc'[q] \in Within => pc[q] \in Within
                       /\ pc'[q] \in Before => pc[q] \in Before
    BY <2>1, <2>2 DEF TypeOK, Live, Waiting, Running, Within, Before
  <2>4. QED
    BY <1>1, <2>1, <2>3, ExactQuiet
<1>5. ASSUME NEW r \in Run, Resume(r)
      PROVE  Exact'
  BY <1>1, <1>5, ExactResume DEF Exact
<1>6. ASSUME NEW r \in Run, OpenContext(r)
      PROVE  Exact'
  <2>1. overlapped' = overlapped
    BY <1>6 DEF OpenContext
  <2>2. QED
    BY <1>1, <1>6, <2>1, ExactOpen DEF Exact
<1>7. ASSUME NEW r \in Run, ReadValidRow(r) \/ ReadRejectedRow(r)
      PROVE  Exact'
  <2>1. overlapped' = overlapped
    BY <1>7 DEF ReadValidRow, ReadRejectedRow
  <2>2. QED
    BY <1>1, <1>7, <2>1, ExactRead DEF Exact
<1>8. ASSUME NEW r \in Run, FlushBatch(r)
      PROVE  Exact'
  <2>1. overlapped' = overlapped
    BY <1>8 DEF FlushBatch
  <2>2. QED
    BY <1>1, <1>8, <2>1, ExactFlush DEF Exact
<1>9. ASSUME NEW r \in Run, Finalize(r)
      PROVE  Exact'
  <2>1. overlapped' = overlapped
    BY <1>9 DEF Finalize
  <2>2. QED
    BY <1>1, <1>9, <2>1, ExactFinalize DEF Exact
<1>10. QED
  BY <1>2, <1>3, <1>4, <1>5, <1>6, <1>7, <1>8, <1>9 DEF Next, RunStep

(* The counters are exact in every reachable state, as long as no resume   *)
(* overtakes a live run.                                                   *)
LEMMA ExactInvariant == Spec => [](TypeOK /\ Exact)
<1>1. Init => TypeOK /\ Exact
  BY TypeInit, ExactInit
<1>2. TypeOK /\ Exact /\ [Next]_vars => (TypeOK /\ Exact)'
  BY TypeStep, ExactStep
<1>3. QED
  BY <1>1, <1>2, PTL DEF Spec

(* Failures, cancels and resumes never make a job count a row twice, or    *)
(* not at all, unless a resume overtakes a live run.                       *)
THEOREM RowsAreCountedOnce == Spec => []CountedOnce
<1>1. TypeOK /\ Exact => CountedOnce
  <2> SUFFICES ASSUME TypeOK, Exact, ~overlapped
               PROVE  /\ Tallied
                      /\ \A i \in Row : file[i] = Rejected =>
                           anomalies[i] = IF i <= count.last THEN 1 ELSE 0
    BY DEF CountedOnce, Tallied
  <2>1. QED
    BY DEF Exact, Tallied, ValidRow
<1>2. QED
  BY <1>1, ExactInvariant, PTL

(* Without such a resume the restart mark never moves back.                *)
THEOREM MarkIsMonotone == Spec => MarkNeverFallsBack
<1>1. ASSUME TypeOK, Exact, [Next]_vars, ~overlapped'
      PROVE  count'.last >= count.last
  <2>1. count.last \in 0..NumRows
    BY <1>1 DEF TypeOK, Counters
  <2>2. CASE count' = count
    BY <2>1, <2>2
  <2>3. ASSUME NEW r \in Run, FlushBatch(r)
        PROVE  count'.last >= count.last
    <3>1. ~overlapped /\ pc[r] = "rows" /\ Live(r)
      BY <1>1, <2>3 DEF FlushBatch, Live, Running
    <3>2. count'.last = row[r] /\ count.last <= row[r]
      BY <1>1, <2>3, <3>1, FlushExact DEF Exact, InStep, Within
    <3>3. QED
      BY <1>1, <3>2, <2>1 DEF TypeOK
  <2>4. ASSUME NEW r \in Run, Finalize(r)
        PROVE  count'.last >= count.last
    <3>1. ~overlapped
      BY <1>1, <2>4 DEF Finalize
    <3>2. QED
      BY <1>1, <2>4, <3>1, ExactFinalize
  <2>5. QED
    BY <1>1, <2>2, <2>3, <2>4
    DEF Next, RequestStep, RunStep, vars, job, Cancel, Dispatch, DispatchFail,
        RecordFailure, RecordTaskId, RequestLost, Resume, InitImport, OpenContext, ReadValidRow,
        ReadRejectedRow, RunFailed, Terminate, RunLost
<1>2. TypeOK /\ Exact /\ [Next]_vars => [~overlapped' => count'.last >= count.last]_vars
  BY <1>1
<1>3. QED
  BY <1>2, ExactInvariant, PTL DEF Spec, MarkNeverFallsBack
=============================================================================
