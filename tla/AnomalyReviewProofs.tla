------------------------- MODULE AnomalyReviewProofs -------------------------
(***************************************************************************)
(* Proofs about AnomalyReview for every number of anomalies, reviews and   *)
(* rows.                                                                   *)
(***************************************************************************)
EXTENDS AnomalyReview, FiniteSetTheorems, TLAPS

USE AnomalyReviewAssumption DEF AnomalyReviewAssumption

-----------------------------------------------------------------------------
(* The inductive invariant.                                                *)

(* What the row locks guarantee: a row that an open review holds is still  *)
(* pending and nobody else's.                                              *)
Locks ==
  /\ \A t \in Reviews : pc[t] = "idle" => held[t] = {}
  /\ \A t \in Reviews : pc[t] \in Open => \A a \in held[t] : status[a] = "pending"
  /\ \A t, u \in Reviews : t # u /\ pc[t] \in Open /\ pc[u] \in Open =>
                             held[t] \cap held[u] = {}
  /\ \A t \in Reviews : pc[t] \in {"locked", "counting"} =>
                          \E a \in Anomalies : held[t] = {a}
  /\ \A t \in Reviews : pc[t] = "updating" =>
                          verdict[t] \in {"deleted", "confirmed_normal"}

(* The counters a correction has loaded are within bounds as well.         *)
Claims ==
  /\ NeverOvercounted
  /\ \A t \in Reviews : pc[t] = "counting" =>
       snap[t].success <= ctr.success + Cardinality(Corrected)

(* Until somebody races, nothing is corrected before the import has ended, *)
(* and the one correction that is counting has the counters of the job.    *)
InStep ==
  ~raced =>
    /\ worker = "rows" => /\ Corrected = {}
                          /\ seen \in {Tally(job), Expired}
                          /\ \A t \in Reviews : pc[t] # "counting"
    /\ \A t \in Reviews : pc[t] = "counting" => snap[t] = Tally(job)
    /\ \A t, u \in Reviews : pc[t] = "counting" /\ pc[u] = "counting" => t = u

DecidedSet == {a \in Anomalies : status[a] \in Decided}

-----------------------------------------------------------------------------
(* One review moves on, all others and the anomalies stay: the locks are   *)
(* respected if the review holds what nobody else does.                    *)
LEMMA LocksOne ==
  ASSUME Locks, NEW t \in Reviews, status' = status,
         \A u \in Reviews : u # t => /\ pc'[u] = pc[u] /\ held'[u] = held[u]
                                     /\ verdict'[u] = verdict[u],
         pc'[t] = "idle" => held'[t] = {},
         pc'[t] \in {"locked", "counting"} => \E a \in Anomalies : held'[t] = {a},
         pc'[t] = "updating" => verdict'[t] \in {"deleted", "confirmed_normal"},
         pc'[t] \in Open => \A a \in held'[t] :
           /\ status[a] = "pending"
           /\ \A u \in Reviews : u # t /\ pc[u] \in Open => a \notin held[u]
  PROVE  Locks'
<1>1. \A u \in Reviews : pc'[u] \in Open => \A a \in held'[u] : status'[a] = "pending"
  BY DEF Locks
<1>2. \A u, v \in Reviews : u # v /\ pc'[u] \in Open /\ pc'[v] \in Open =>
                              held'[u] \cap held'[v] = {}
  BY DEF Locks
<1>3. QED
  BY <1>1, <1>2 DEF Locks

(* Every step keeps the types and the locks.                               *)
LEMMA LocksStep ==
  ASSUME TypeOK, Locks, [Next]_vars
  PROVE  TypeOK' /\ Locks'
<1> USE DEF TypeOK, Locks, Open, Decided, run, review
<1> DEFINE P == TypeOK' /\ Locks'
<1>1. CASE UNCHANGED vars
  BY <1>1 DEF vars
<1>2. CASE Reload
  BY <1>2 DEF Reload, Tally
<1>3. CASE Flush
  <2>1. PICK rejected \in SUBSET Absent, inserted \in 0..1, skipped \in 0..MaxSkipped,
             dup \in SUBSET Absent :
          /\ status' = [a \in Anomalies |->
                          IF a \in rejected \cup dup THEN "pending" ELSE status[a]]
          /\ kind' = [a \in Anomalies |-> IF a \in dup THEN "duplicate" ELSE kind[a]]
          /\ stored' = stored + inserted
          /\ ctr' = [processed |-> ctr.processed + Cardinality(rejected) + inserted + skipped,
                     success   |-> ctr.success + inserted,
                     failed    |-> ctr.failed + Cardinality(rejected) + skipped]
    <3> HIDE DEF TypeOK, Locks, Open, Decided
    <3> QED
      BY <1>3 DEF Flush
  <2>2. Cardinality(rejected) \in Nat
    BY FS_Subset, FS_CardinalityType DEF Absent
  <2>3. ctr' \in [processed : Nat, success : Nat, failed : Nat] /\ stored' \in Nat
    BY <2>1, <2>2
  <2>4. job' \in [total : Nat, success : Nat, failed : Nat]
    BY <1>3, <2>3 DEF Flush, Write, Column, Tally
  <2>5. QED
    BY <1>3, <2>1, <2>3, <2>4 DEF Flush, Expired, Absent
<1>4. CASE Finalize
  BY <1>4 DEF Finalize, Absent
<1>5. CASE Stop
  BY <1>5 DEF Stop
<1>6. ASSUME NEW t \in Reviews, Correct(t) PROVE P
  <2>1. PICK a \in Anomalies :
          /\ Free(t, a)
          /\ target' = [target EXCEPT ![t] = {a}]
          /\ held' = [held EXCEPT ![t] = IF status[a] = "pending" THEN {a} ELSE {}]
          /\ pc' = [pc EXCEPT ![t] = IF status[a] = "pending" THEN "locked" ELSE "refused"]
    BY <1>6 DEF Correct
  <2>2. CASE status[a] = "pending"
    <3>1. TypeOK'
      BY <1>6, <2>1, <2>2 DEF Correct
    <3>2. /\ \A u \in Reviews : u # t => /\ pc'[u] = pc[u] /\ held'[u] = held[u]
                                       /\ verdict'[u] = verdict[u]
          /\ pc'[t] = "locked" /\ held'[t] = {a} /\ status' = status
      <4> HIDE DEF Locks, Open, Decided
      <4> QED
        BY <1>6, <2>1, <2>2 DEF Correct
    <3>3. \A u \in Reviews : u # t /\ pc[u] \in Open => a \notin held[u]
      BY <2>1 DEF Free
    <3>4. Locks'
      <4> HIDE DEF TypeOK, Locks, Open
      <4> QED
        BY <2>2, <3>2, <3>3, LocksOne
    <3>5. QED
      BY <3>1, <3>4
  <2>3. CASE status[a] # "pending"
    BY <1>6, <2>1, <2>3, SMTT(30) DEF Correct
  <2>4. QED
    BY <2>2, <2>3
<1>7. ASSUME NEW t \in Reviews, LoadJob(t) PROVE P
  BY <1>7 DEF LoadJob, Tally
<1>8. ASSUME NEW t \in Reviews, CommitCorrection(t) PROVE P
  <2>1. job' \in [total : Nat, success : Nat, failed : Nat]
    <3> DEFINE new == [success |-> snap[t].success + 1,
                       failed  |-> IF snap[t].failed > 0 THEN snap[t].failed - 1 ELSE 0]
    <3>1. job' = Write(snap[t], new)
      BY <1>8 DEF CommitCorrection
    <3>2. new \in [success : Nat, failed : Nat]
      OBVIOUS
    <3> HIDE DEF new
    <3>3. QED
      BY <3>1, <3>2 DEF Write, Column
  <2>2. stored' \in Nat
    BY <1>8 DEF CommitCorrection
  <2>3. status' \in [Anomalies -> {"absent", "pending"} \cup Decided]
    BY <1>8 DEF CommitCorrection
  <2>4. QED
    BY <1>8, <2>1, <2>2, <2>3 DEF CommitCorrection
<1>9. ASSUME NEW t \in Reviews, Confirm(t) PROVE P
  BY <1>9 DEF Confirm, Free, Absent
<1>10. ASSUME NEW t \in Reviews, Validate(t) PROVE P
  <2>1. PICK v \in {"deleted", "confirmed_normal"}, chosen \in SUBSET Anomalies :
          /\ verdict' = [verdict EXCEPT ![t] = v]
          /\ target' = [target EXCEPT ![t] = chosen]
          /\ \/ /\ todo' = [todo EXCEPT ![t] = chosen]
                /\ pc' = [pc EXCEPT ![t] = "updating"]
             \/ /\ todo' = todo
                /\ pc' = [pc EXCEPT ![t] = "refused"]
    <3> HIDE DEF TypeOK, Locks, Open, Decided
    <3> QED
      BY <1>10 DEF Validate
  <2>2. TypeOK'
    <3> HIDE DEF Locks
    <3> QED
      BY <1>10, <2>1, SMTT(30) DEF Validate
  <2>3. /\ pc' \in {[pc EXCEPT ![t] = "updating"], [pc EXCEPT ![t] = "refused"]}
        /\ pc[t] = "idle" /\ held' = held /\ status' = status
    BY <1>10, <2>1 DEF Validate
  <2>4. Locks'
    <3>1. /\ \A u \in Reviews : u # t => /\ pc'[u] = pc[u] /\ held'[u] = held[u]
                                        /\ verdict'[u] = verdict[u]
          /\ verdict'[t] = v /\ held'[t] = {}
          /\ pc'[t] \in {"updating", "refused"}
      BY <2>1, <2>3
    <3>2. QED
      <4> HIDE DEF TypeOK, Locks, Open
      <4> QED
        BY <2>1, <2>3, <3>1, LocksOne
  <2>5. QED
    BY <2>2, <2>4
<1>11. ASSUME NEW t \in Reviews, UpdateRow(t) PROVE P
  BY <1>11, SMTT(30) DEF UpdateRow, Free
<1>12. ASSUME NEW t \in Reviews, CommitBulk(t) PROVE P
  <2>1. Cardinality(held[t]) \in Nat
    BY FS_Subset, FS_CardinalityType
  <2>2. verdict[t] \in Decided
    BY <1>12 DEF CommitBulk
  <2>3. QED
    BY <1>12, <2>1, <2>2 DEF CommitBulk
<1>13. ASSUME NEW t \in Reviews, GiveUp(t) PROVE P
  BY <1>13 DEF GiveUp
<1>14. QED
  BY <1>1, <1>2, <1>3, <1>4, <1>5, <1>6, <1>7, <1>8, <1>9, <1>10, <1>11, <1>12, <1>13
  DEF Next, Work, Proceed, Abort, BreakDeadlock

-----------------------------------------------------------------------------
(* No review but a correction that commits makes an anomaly corrected, or  *)
(* takes that status from one.                                             *)
LEMMA OtherReviews ==
  ASSUME TypeOK, Locks, NEW t \in Reviews,
         Correct(t) \/ LoadJob(t) \/ Confirm(t) \/ Validate(t) \/ UpdateRow(t)
           \/ CommitBulk(t) \/ GiveUp(t)
  PROVE  Corrected' = Corrected
<1> USE DEF Corrected
<1>1. CASE Confirm(t)
  BY <1>1 DEF Confirm, TypeOK
<1>2. CASE CommitBulk(t)
  <2>1. \A a \in held[t] : status[a] = "pending"
    BY <1>2 DEF Locks, CommitBulk, Open
  <2>2. verdict[t] # "corrected"
    BY <1>2 DEF Locks, CommitBulk
  <2>3. QED
    BY <1>2, <2>1, <2>2 DEF CommitBulk
<1>3. CASE Correct(t) \/ LoadJob(t) \/ Validate(t) \/ UpdateRow(t) \/ GiveUp(t)
  BY <1>3 DEF Correct, LoadJob, Validate, UpdateRow, GiveUp
<1>4. QED
  BY <1>1, <1>2, <1>3

(* Only corrections add to the corrected anomalies, one each.              *)
LEMMA CorrectedSteps ==
  ASSUME TypeOK, Locks, [Next]_vars
  PROVE  \/ Corrected' = Corrected
         \/ \E t \in Reviews, a \in Anomalies :
              /\ CommitCorrection(t)
              /\ a \notin Corrected
              /\ Corrected' = Corrected \cup {a}
<1> USE DEF Corrected
<1>1. CASE UNCHANGED vars \/ Reload \/ Stop
  BY <1>1 DEF vars, Reload, Stop
<1>2. CASE Flush
  BY <1>2 DEF Flush, Absent
<1>3. CASE Finalize
  BY <1>3 DEF Finalize, Absent
<1>4. ASSUME NEW t \in Reviews, CommitCorrection(t)
      PROVE  \E a \in Anomalies : a \notin Corrected /\ Corrected' = Corrected \cup {a}
  <2>1. PICK a \in Anomalies : held[t] = {a}
    BY <1>4 DEF Locks, CommitCorrection
  <2>2. status[a] = "pending"
    BY <1>4, <2>1 DEF Locks, CommitCorrection, Open
  <2>3. QED
    BY <1>4, <2>1, <2>2 DEF CommitCorrection
<1>5. QED
  BY <1>1, <1>2, <1>3, <1>4, OtherReviews
  DEF Next, Work, Proceed, Abort, BreakDeadlock

(* How many anomalies are corrected, before and after a step.              *)
LEMMA CorrectedCount ==
  ASSUME TypeOK, Locks, [Next]_vars
  PROVE  /\ Cardinality(Corrected) \in Nat
         /\ Cardinality(Corrected)' \in Nat
         /\ \/ Corrected' = Corrected /\ Cardinality(Corrected)' = Cardinality(Corrected)
            \/ /\ \E t \in Reviews : CommitCorrection(t)
               /\ Cardinality(Corrected)' = Cardinality(Corrected) + 1
<1>1. IsFiniteSet(Corrected) /\ IsFiniteSet(Corrected')
  BY FS_Subset DEF Corrected
<1>2. QED
  BY <1>1, CorrectedSteps, FS_CardinalityType, FS_AddElement

-----------------------------------------------------------------------------
(* The initial values have their types, and no review holds a lock.        *)
LEMMA LocksInit == Init => TypeOK /\ Locks
<1> SUFFICES ASSUME Init PROVE TypeOK /\ Locks
  OBVIOUS
<1>1. NoTally \in [success : Nat, failed : Nat]
  BY DEF NoTally
<1>2. TypeOK
  BY <1>1 DEF Init, TypeOK
<1>3. Locks
  BY DEF Init, Locks, Open
<1>4. QED
  BY <1>2, <1>3

(* A decision is final: an anomaly leaves pending once, whatever reviews   *)
(* validate or wait for it at the same time.                               *)
THEOREM DecisionsAreFinal == Spec => DecidedOnce
<1> DEFINE Final == \A a \in Anomalies : status[a] \in Decided => status'[a] = status[a]
<1>1. Init => TypeOK /\ Locks
  BY LocksInit
<1>2. TypeOK /\ Locks /\ [Next]_vars => (TypeOK /\ Locks)'
  BY LocksStep
<1>3. ASSUME TypeOK, Locks, [Next]_vars PROVE Final
  <2> USE DEF Decided
  <2>1. CASE UNCHANGED vars \/ Work
    BY <1>3, <2>1 DEF vars, Work, Reload, Flush, Finalize, Stop, Absent
  <2>2. ASSUME NEW t \in Reviews, CommitCorrection(t) \/ CommitBulk(t)
        PROVE  Final
    <3>1. \A a \in held[t] : status[a] = "pending"
      BY <1>3, <2>2 DEF Locks, Open, CommitCorrection, CommitBulk
    <3>2. \A a \in Anomalies : a \notin held[t] => status'[a] = status[a]
      BY <2>2 DEF CommitCorrection, CommitBulk
    <3>3. QED
      BY <3>1, <3>2
  <2>3. ASSUME NEW t \in Reviews, Confirm(t)
        PROVE  Final
    BY <1>3, <2>3 DEF Confirm, TypeOK
  <2>4. ASSUME NEW t \in Reviews,
               Correct(t) \/ LoadJob(t) \/ Validate(t) \/ UpdateRow(t) \/ GiveUp(t)
        PROVE  Final
    BY <2>4 DEF Correct, LoadJob, Validate, UpdateRow, GiveUp
  <2>5. QED
    BY <1>3, <2>1, <2>2, <2>3, <2>4 DEF Next, Proceed, Abort, BreakDeadlock
<1>4. TypeOK /\ Locks /\ [Next]_vars => [Final]_vars
  BY <1>3
<1>5. QED
  BY <1>1, <1>2, <1>4, PTL DEF Spec, DecidedOnce

(* The types hold in every reachable state, with the help of the locks:    *)
(* only a review that has a verdict commits one.                           *)
THEOREM TypeCorrect == Spec => []TypeOK
<1>1. TypeOK /\ Locks /\ [Next]_vars => (TypeOK /\ Locks)'
  BY LocksStep
<1>2. QED
  BY <1>1, LocksInit, PTL DEF Spec

-----------------------------------------------------------------------------
(* What a batch does to the counters.                                      *)
LEMMA FlushCounts ==
  ASSUME TypeOK, Flush
  PROVE  /\ ctr.success <= ctr'.success
         /\ job' = Write(seen, Tally(ctr'))
         /\ ctr' \in [processed : Nat, success : Nat, failed : Nat]
<1>1. PICK rejected \in SUBSET Absent, inserted \in 0..1, skipped \in 0..MaxSkipped :
        ctr' = [processed |-> ctr.processed + Cardinality(rejected) + inserted + skipped,
                success   |-> ctr.success + inserted,
                failed    |-> ctr.failed + Cardinality(rejected) + skipped]
  BY DEF Flush
<1>2. Cardinality(rejected) \in Nat
  BY FS_Subset, FS_CardinalityType DEF Absent
<1>3. QED
  BY <1>1, <1>2 DEF Flush, TypeOK

(* The import and its batches never claim more than they counted, and a    *)
(* correction adds one to what was true when it loaded the job.            *)
LEMMA ClaimsStep ==
  ASSUME TypeOK, Locks, Claims, [Next]_vars
  PROVE  Claims'
<1> DEFINE n == Cardinality(Corrected)
<1>1. n \in Nat /\ n' \in Nat /\ n <= n'
  BY CorrectedCount
<1> HIDE DEF n
<1> USE DEF TypeOK
<1>2. job.success <= ctr.success + n
  BY DEF Claims, NeverOvercounted, n
<1>3. \A t \in Reviews : pc[t] = "counting" => snap[t].success <= ctr.success + n
  BY DEF Claims, n
<1>4. /\ job'.success <= ctr'.success + n'
      /\ \A t \in Reviews : pc'[t] = "counting" =>
                              snap'[t].success <= ctr'.success + n'
      => Claims'
  BY DEF Claims, NeverOvercounted, n
<1>5. ASSUME UNCHANGED <<job, ctr, snap>>,
             \A t \in Reviews : pc'[t] = "counting" => pc[t] = "counting"
      PROVE  Claims'
  BY <1>1, <1>2, <1>3, <1>4, <1>5
<1>6. CASE UNCHANGED vars \/ Reload \/ Stop
  BY <1>5, <1>6 DEF vars, run, review, Reload, Stop
<1>7. CASE Flush
  <2>1. /\ ctr.success <= ctr'.success
        /\ job' = Write(seen, Tally(ctr'))
        /\ ctr' \in [processed : Nat, success : Nat, failed : Nat]
    BY <1>7, FlushCounts
  <2>2. job'.success \in {job.success, ctr'.success}
    BY <2>1 DEF Write, Column, Tally
  <2>3. UNCHANGED <<pc, snap>>
    BY <1>7 DEF Flush, review
  <2>4. QED
    BY <1>1, <1>2, <1>3, <1>4, <2>1, <2>2, <2>3
<1>8. CASE Finalize
  BY <1>1, <1>2, <1>3, <1>4, <1>8 DEF Finalize, review
<1>9. ASSUME NEW t \in Reviews, LoadJob(t)
      PROVE  Claims'
  BY <1>1, <1>2, <1>3, <1>4, <1>9 DEF LoadJob, Tally, run
<1>10. ASSUME NEW t \in Reviews, CommitCorrection(t)
       PROVE  Claims'
  <2>1. n' = n + 1
    <3>1. Corrected' # Corrected
      <4>1. PICK a \in Anomalies : held[t] = {a}
        BY <1>10 DEF Locks, CommitCorrection
      <4>2. status[a] = "pending" /\ status'[a] = "corrected"
        BY <1>10, <4>1 DEF Locks, CommitCorrection, Open
      <4>3. QED
        BY <4>2 DEF Corrected
    <3>2. QED
      BY <3>1, CorrectedCount DEF n
  <2>2. job'.success \in {job.success, snap[t].success + 1}
    BY <1>10 DEF CommitCorrection, Write, Column
  <2>3. /\ UNCHANGED <<ctr, snap>>
        /\ pc[t] = "counting"
        /\ \A u \in Reviews : pc'[u] = "counting" => pc[u] = "counting"
    BY <1>10 DEF CommitCorrection, run
  <2>4. QED
    BY <1>1, <1>2, <1>3, <1>4, <2>1, <2>2, <2>3
<1>11. ASSUME NEW t \in Reviews,
              Correct(t) \/ Confirm(t) \/ Validate(t) \/ UpdateRow(t) \/ CommitBulk(t)
                \/ GiveUp(t)
       PROVE  Claims'
  <2>1. UNCHANGED <<job, ctr, snap>>
    BY <1>11 DEF Correct, Confirm, Validate, UpdateRow, CommitBulk, GiveUp, run
  <2>2. \A u \in Reviews : pc'[u] = "counting" => pc[u] = "counting"
    BY <1>11 DEF Correct, Confirm, Validate, UpdateRow, CommitBulk, GiveUp
  <2>3. QED
    BY <1>5, <2>1, <2>2
<1>12. QED
  BY <1>6, <1>7, <1>8, <1>9, <1>10, <1>11
  DEF Next, Work, Proceed, Abort, BreakDeadlock

(* However batches and corrections overwrite each other's counters, the    *)
(* job never claims more successes than its import and its corrected       *)
(* anomalies account for.                                                  *)
THEOREM CorrectionsNeverOvercount == Spec => []NeverOvercounted
<1>1. Init => TypeOK /\ Locks /\ Claims
  <2>1. ASSUME Init PROVE Claims
    <3>1. Corrected = {}
      BY <2>1 DEF Init, Corrected
    <3>2. Cardinality(Corrected) = 0
      BY <3>1, FS_EmptySet
    <3>3. QED
      BY <2>1, <3>2 DEF Init, Claims, NeverOvercounted
  <2>2. QED
    BY <2>1, LocksInit
<1>2. TypeOK /\ Locks /\ Claims /\ [Next]_vars => (TypeOK /\ Locks /\ Claims)'
  BY LocksStep, ClaimsStep
<1>3. Claims => NeverOvercounted
  BY DEF Claims
<1>4. QED
  BY <1>1, <1>2, <1>3, PTL DEF Spec

-----------------------------------------------------------------------------
(* A commit decides the pending anomalies it holds, and adds their number. *)
LEMMA DecideHeld ==
  ASSUME TypeOK, NEW S \in SUBSET Anomalies,
         \A a \in S : status[a] = "pending",
         DecidedSet' = DecidedSet \cup S
  PROVE  Cardinality(DecidedSet)' = Cardinality(DecidedSet) + Cardinality(S)
<1>1. IsFiniteSet(S) /\ IsFiniteSet(DecidedSet)
  BY FS_Subset DEF DecidedSet
<1>2. S \cap DecidedSet = {}
  BY DEF DecidedSet, Decided
<1>3. Cardinality(DecidedSet \cap S) = 0
  BY <1>2, FS_EmptySet
<1>4. /\ Cardinality(S) \in Nat /\ Cardinality(DecidedSet) \in Nat
      /\ Cardinality(DecidedSet \cup S)
           = Cardinality(DecidedSet) + Cardinality(S) - Cardinality(DecidedSet \cap S)
  BY <1>1, FS_CardinalityType, FS_Union
<1>5. QED
  BY <1>3, <1>4

(* Every step adds as much to the audit log as it decides anomalies.       *)
LEMMA AuditStep ==
  ASSUME TypeOK, Locks, AuditAddsUp, [Next]_vars
  PROVE  AuditAddsUp'
<1>0. /\ audited = Cardinality(DecidedSet)
      /\ audited' = Cardinality(DecidedSet)' => AuditAddsUp'
  BY DEF AuditAddsUp, DecidedSet
<1>1. ASSUME DecidedSet' = DecidedSet, audited' = audited PROVE AuditAddsUp'
  BY <1>0, <1>1
<1>2. CASE UNCHANGED vars \/ Work
  <2>1. audited' = audited
    BY <1>2 DEF vars, Work, Reload, Flush, Finalize, Stop
  <2>2. DecidedSet' = DecidedSet
    BY <1>2 DEF TypeOK, DecidedSet, Decided, vars, Work, Reload, Flush, Finalize, Stop,
                Absent
  <2>3. QED
    BY <1>1, <2>1, <2>2
<1>3. ASSUME NEW t \in Reviews, CommitCorrection(t)
      PROVE  AuditAddsUp'
  <2>1. PICK a \in Anomalies : held[t] = {a}
    BY <1>3 DEF Locks, CommitCorrection
  <2>2. status[a] = "pending"
    BY <1>3, <2>1 DEF Locks, CommitCorrection, Open
  <2>3. DecidedSet' = DecidedSet \cup {a}
    BY <1>3, <2>1 DEF CommitCorrection, DecidedSet, Decided
  <2>4. Cardinality({a}) = 1
    BY FS_Singleton
  <2>5. Cardinality(DecidedSet)' = Cardinality(DecidedSet) + 1
    BY <2>2, <2>3, <2>4, DecideHeld
  <2>6. QED
    BY <1>0, <1>3, <2>5 DEF CommitCorrection
<1>4. ASSUME NEW t \in Reviews, Confirm(t)
      PROVE  AuditAddsUp'
  <2>1. PICK a \in Anomalies :
          \/ /\ status[a] = "pending"
             /\ status' = [status EXCEPT ![a] = "confirmed_normal"]
             /\ audited' = audited + 1
          \/ status' = status /\ audited' = audited
    BY <1>4 DEF Confirm, TypeOK
  <2>2. CASE status' = status /\ audited' = audited
    BY <1>1, <2>2 DEF DecidedSet
  <2>3. CASE /\ status[a] = "pending"
             /\ status' = [status EXCEPT ![a] = "confirmed_normal"]
             /\ audited' = audited + 1
    <3>1. DecidedSet' = DecidedSet \cup {a}
      BY <2>3 DEF TypeOK, DecidedSet, Decided
    <3>2. Cardinality({a}) = 1
      BY FS_Singleton
    <3>3. Cardinality(DecidedSet)' = Cardinality(DecidedSet) + 1
      BY <2>3, <3>1, <3>2, DecideHeld
    <3>4. QED
      BY <1>0, <2>3, <3>3
  <2>4. QED
    BY <2>1, <2>2, <2>3
<1>5. ASSUME NEW t \in Reviews, CommitBulk(t)
      PROVE  AuditAddsUp'
  <2>1. held[t] \in SUBSET Anomalies /\ \A a \in held[t] : status[a] = "pending"
    BY <1>5 DEF TypeOK, Locks, CommitBulk, Open
  <2>2. verdict[t] \in Decided
    BY <1>5 DEF Locks, CommitBulk, Decided
  <2>3. DecidedSet' = DecidedSet \cup held[t]
    BY <1>5, <2>1, <2>2 DEF CommitBulk, DecidedSet
  <2>4. Cardinality(DecidedSet)' = Cardinality(DecidedSet) + Cardinality(held[t])
    BY <2>1, <2>3, DecideHeld
  <2>5. QED
    BY <1>0, <1>5, <2>4 DEF CommitBulk
<1>6. ASSUME NEW t \in Reviews,
             Correct(t) \/ LoadJob(t) \/ Validate(t) \/ UpdateRow(t) \/ GiveUp(t)
      PROVE  AuditAddsUp'
  <2>1. status' = status /\ audited' = audited
    BY <1>6 DEF Correct, LoadJob, Validate, UpdateRow, GiveUp
  <2>2. QED
    BY <1>1, <2>1 DEF DecidedSet
<1>7. QED
  BY <1>2, <1>3, <1>4, <1>5, <1>6 DEF Next, Proceed, Abort, BreakDeadlock

(* The counts in the audit log add up to the decided anomalies, also when  *)
(* bulk reviews succeed in part.                                           *)
THEOREM AuditIsComplete == Spec => []AuditAddsUp
<1>1. ASSUME Init PROVE AuditAddsUp
  <2>1. {a \in Anomalies : status[a] \in Decided} = {}
    BY <1>1 DEF Init, Decided
  <2>2. QED
    BY <1>1, <2>1, FS_EmptySet DEF Init, AuditAddsUp
<1>2. TypeOK /\ Locks /\ AuditAddsUp /\ [Next]_vars => (TypeOK /\ Locks /\ AuditAddsUp)'
  BY LocksStep, AuditStep
<1>3. QED
  BY <1>1, <1>2, LocksInit, PTL DEF Spec

-----------------------------------------------------------------------------
(* Every step that is not raced keeps the counters exact.                  *)
LEMMA ExactStep ==
  ASSUME TypeOK, Locks, InStep, CountsExact, [Next]_vars
  PROVE  InStep' /\ CountsExact'
<1> DEFINE n == Cardinality(Corrected)
           Left(k) == IF ctr.failed >= k THEN ctr.failed - k ELSE 0
<1> SUFFICES ASSUME ~raced'
             PROVE  InStep' /\ CountsExact'
  BY DEF InStep, CountsExact
<1>1. ~raced
  BY DEF Next, vars, review, run, Work, Proceed, Reload, Flush, Finalize, Stop, Correct,
         LoadJob, CommitCorrection, Confirm, Validate, UpdateRow, CommitBulk, Abort,
         BreakDeadlock, GiveUp
<1>2. n \in Nat /\ n' \in Nat
  BY CorrectedCount
<1>3. job.success = ctr.success + n /\ job.failed = Left(n)
  BY <1>1 DEF CountsExact
<1>4. /\ worker = "rows" => /\ Corrected = {}
                            /\ seen \in {Tally(job), Expired}
                            /\ \A t \in Reviews : pc[t] # "counting"
      /\ \A t \in Reviews : pc[t] = "counting" => snap[t] = Tally(job)
      /\ \A t, u \in Reviews : pc[t] = "counting" /\ pc[u] = "counting" => t = u
  BY <1>1 DEF InStep
<1>5. worker = "rows" => n = 0
  BY <1>4, FS_EmptySet
<1>6. CASE UNCHANGED vars \/ Reload \/ Stop
  BY <1>1, <1>3, <1>4, <1>6
  DEF InStep, CountsExact, vars, run, review, Reload, Stop, Tally, Corrected
<1>7. CASE Flush
  <2>1. /\ job' = Write(seen, Tally(ctr'))
        /\ ctr' \in [processed : Nat, success : Nat, failed : Nat]
    BY <1>7, FlushCounts
  <2>2. worker = "rows" /\ worker' = "rows" /\ pc' = pc /\ seen' = Expired
    BY <1>7 DEF Flush, review
  <2>3. Corrected' = Corrected
    BY <1>7 DEF Flush, Absent, Corrected
  <2>4. Tally(job) = Tally(ctr)
    BY <1>3, <1>5, <2>2 DEF Tally, TypeOK
  <2>5. Tally(job') = Tally(ctr')
    <3>1. seen \in {Tally(job), Expired} /\ job \in [total : Nat, success : Nat, failed : Nat]
      BY <1>4, <2>2 DEF TypeOK
    <3>2. job'.success = ctr'.success /\ job'.failed = ctr'.failed
      BY <2>1, <3>1 DEF Write, Column, Tally, Expired
    <3>3. QED
      BY <3>2 DEF Tally
  <2>6. job'.success = ctr'.success /\ job'.failed = ctr'.failed
    BY <2>5 DEF Tally
  <2>7. Corrected' = {} /\ Cardinality(Corrected)' = 0
    BY <1>4, <1>5, <2>2, <2>3
  <2>8. InStep'
    BY <1>4, <2>2, <2>7 DEF InStep
  <2>9. CountsExact'
    BY <2>1, <2>6, <2>7 DEF CountsExact
  <2>10. QED
    BY <2>8, <2>9
<1>8. CASE Finalize
  <2>1. worker = "rows" /\ worker' = "done" /\ pc' = pc /\ ctr' = ctr
        /\ job' = [total |-> ctr.processed, success |-> ctr.success, failed |-> ctr.failed]
    BY <1>8 DEF Finalize, review
  <2>2. Corrected' = Corrected
    BY <1>8 DEF Finalize, Absent, Corrected
  <2>3. Cardinality(Corrected)' = 0
    BY <1>5, <2>1, <2>2
  <2>4. InStep'
    BY <1>4, <2>1 DEF InStep
  <2>5. CountsExact'
    BY <2>1, <2>3 DEF CountsExact, TypeOK
  <2>6. QED
    BY <2>4, <2>5
<1>9. ASSUME NEW t \in Reviews, LoadJob(t)
      PROVE  InStep' /\ CountsExact'
  <2>1. /\ worker # "rows" /\ \A u \in Reviews : pc[u] # "counting"
        /\ \A u \in Reviews : pc'[u] = "counting" => u = t
        /\ snap'[t] = Tally(job) /\ UNCHANGED <<status, job, worker, ctr>>
    BY <1>9 DEF LoadJob, run, TypeOK
  <2>2. InStep'
    BY <2>1 DEF InStep, Tally
  <2>3. CountsExact'
    BY <1>3, <2>1 DEF CountsExact, Corrected
  <2>4. QED
    BY <2>2, <2>3
<1>10. ASSUME NEW t \in Reviews, CommitCorrection(t)
       PROVE  InStep' /\ CountsExact'
  <2>1. n' = n + 1
    <3>1. PICK a \in Anomalies : held[t] = {a}
      BY <1>10 DEF Locks, CommitCorrection
    <3>2. status[a] = "pending" /\ status'[a] = "corrected"
      BY <1>10, <3>1 DEF Locks, CommitCorrection, Open
    <3>3. Corrected' # Corrected
      BY <3>2 DEF Corrected
    <3>4. QED
      BY <3>3, CorrectedCount
  <2>2. /\ pc[t] = "counting" /\ snap[t] = Tally(job)
        /\ \A u \in Reviews : pc'[u] # "counting"
        /\ worker # "rows" /\ UNCHANGED <<worker, ctr>>
    BY <1>4, <1>10 DEF CommitCorrection, run, TypeOK
  <2> DEFINE new == [success |-> snap[t].success + 1,
                     failed  |-> IF snap[t].failed > 0 THEN snap[t].failed - 1 ELSE 0]
  <2>3. job' = Write(snap[t], new)
    BY <1>10 DEF CommitCorrection
  <2>4. /\ new.success = job.success + 1
        /\ new.failed = IF job.failed > 0 THEN job.failed - 1 ELSE 0
    BY <2>2 DEF Tally
  <2> HIDE DEF new
  <2>5. job'.success = new.success /\ job'.failed = new.failed
    BY <2>2, <2>3, <2>4 DEF Write, Column, Tally, TypeOK
  <2> HIDE DEF n
  <2>6. job'.success = ctr'.success + n' /\ job'.failed = Left(n)'
    BY <1>2, <1>3, <2>1, <2>2, <2>4, <2>5 DEF TypeOK
  <2>7. InStep'
    BY <2>2 DEF InStep
  <2>8. CountsExact'
    BY <2>6 DEF CountsExact, n
  <2>9. QED
    BY <2>7, <2>8
<1>11. ASSUME NEW t \in Reviews,
              Correct(t) \/ Confirm(t) \/ Validate(t) \/ UpdateRow(t) \/ CommitBulk(t)
                \/ GiveUp(t)
       PROVE  InStep' /\ CountsExact'
  <2>1. UNCHANGED <<job, worker, ctr, seen, snap>>
    BY <1>11 DEF Correct, Confirm, Validate, UpdateRow, CommitBulk, GiveUp, run
  <2>2. \A u \in Reviews : pc'[u] = "counting" => pc[u] = "counting"
    BY <1>11 DEF Correct, Confirm, Validate, UpdateRow, CommitBulk, GiveUp, TypeOK
  <2>3. Corrected' = Corrected
    BY <1>11, OtherReviews
  <2>4. InStep'
    BY <1>4, <2>1, <2>2, <2>3 DEF InStep, Tally
  <2>5. CountsExact'
    BY <1>3, <2>1, <2>3 DEF CountsExact
  <2>6. QED
    BY <2>4, <2>5
<1>12. QED
  BY <1>6, <1>7, <1>8, <1>9, <1>10, <1>11
  DEF Next, Work, Proceed, Abort, BreakDeadlock

(* Without a race the job's counters are exactly what the import counted   *)
(* and what reviews corrected since.                                       *)
THEOREM CountersAreExact == Spec => []CountsExact
<1>1. ASSUME Init PROVE InStep /\ CountsExact
  <2>1. Corrected = {} /\ Cardinality(Corrected) = 0
    BY <1>1, FS_EmptySet DEF Init, Corrected
  <2>2. CountsExact
    BY <1>1, <2>1 DEF Init, CountsExact
  <2>3. InStep
    BY <1>1, <2>1 DEF Init, InStep, Tally, NoTally
  <2>4. QED
    BY <2>2, <2>3
<1>2. TypeOK /\ Locks /\ InStep /\ CountsExact /\ [Next]_vars
        => (TypeOK /\ Locks /\ InStep /\ CountsExact)'
  BY LocksStep, ExactStep
<1>3. QED
  BY <1>1, <1>2, LocksInit, PTL DEF Spec

-----------------------------------------------------------------------------
(* The corrected anomalies whose correction may have written a record.     *)
Sources == {a \in Corrected : kind[a] # "duplicate"}

(* The kind of a corrected anomaly is settled.                             *)
LEMMA KindsStay ==
  ASSUME TypeOK, Locks, [Next]_vars
  PROVE  \A a \in Corrected : kind'[a] = kind[a]
<1>1. CASE Flush
  BY <1>1 DEF Flush, Absent, Corrected, TypeOK
<1>2. CASE Finalize
  BY <1>2 DEF Finalize, Absent, Corrected, TypeOK
<1>3. CASE ~Flush /\ ~Finalize
  BY <1>3 DEF Next, Work, Proceed, Abort, BreakDeadlock, vars, Reload, Stop, Correct,
              LoadJob, CommitCorrection, Confirm, Validate, UpdateRow, CommitBulk, GiveUp
<1>4. QED
  BY <1>1, <1>2, <1>3

(* Every step leaves the records within the import's and the corrections'. *)
LEMMA RecordsStep ==
  ASSUME TypeOK, Locks, RecordsHaveSources, [Next]_vars
  PROVE  RecordsHaveSources'
<1> DEFINE n == Cardinality(Sources)
<1>1. IsFiniteSet(Sources) /\ IsFiniteSet(Sources')
  BY FS_Subset DEF Sources, Corrected
<1>2. n \in Nat /\ n' \in Nat
  BY <1>1, FS_CardinalityType
<1>3. Sources \subseteq Sources'
  BY CorrectedSteps, KindsStay DEF Sources
<1>4. n <= n'
  BY <1>1, <1>3, FS_Subset
<1>5. stored <= ctr.success + n
  BY DEF RecordsHaveSources, Sources
<1>6. stored' <= ctr'.success + n' => RecordsHaveSources'
  BY DEF RecordsHaveSources, Sources
<1>7. CASE Flush
  <2>1. PICK inserted \in 0..1 :
          stored' = stored + inserted /\ ctr'.success = ctr.success + inserted
    BY <1>7 DEF Flush
  <2> HIDE DEF n
  <2>2. QED
    BY <1>2, <1>4, <1>5, <1>6, <2>1 DEF TypeOK
<1>8. ASSUME NEW t \in Reviews, CommitCorrection(t)
      PROVE  RecordsHaveSources'
  <2>1. UNCHANGED <<kind, ctr>>
    BY <1>8 DEF CommitCorrection, run
  <2>2. PICK a \in Anomalies : held[t] = {a}
    BY <1>8 DEF Locks, CommitCorrection
  <2>3. CASE kind[a] = "duplicate"
    <3>1. stored' = stored
      BY <1>8, <2>2, <2>3 DEF CommitCorrection, TypeOK
    <3> HIDE DEF n
    <3>2. QED
      BY <1>2, <1>4, <1>5, <1>6, <2>1, <3>1 DEF TypeOK
  <2>4. CASE kind[a] # "duplicate"
    <3>1. stored' \in {stored, stored + 1}
      BY <1>8 DEF CommitCorrection, TypeOK
    <3>2. status[a] = "pending" /\ status'[a] = "corrected"
      BY <1>8, <2>2 DEF Locks, CommitCorrection, Open, TypeOK
    <3>3. a \in Sources' /\ a \notin Sources
      BY <2>1, <2>4, <3>2 DEF Sources, Corrected
    <3>4. Sources' # Sources
      BY <3>3
    <3>5. n < n'
      BY <1>1, <1>2, <1>3, <3>4, FS_Subset
    <3> HIDE DEF n
    <3>6. QED
      BY <1>2, <1>5, <1>6, <2>1, <3>1, <3>5 DEF TypeOK
  <2>5. QED
    BY <2>3, <2>4
<1>9. CASE UNCHANGED <<stored, ctr>>
  <2> HIDE DEF n
  <2>1. QED
    BY <1>2, <1>4, <1>5, <1>6, <1>9 DEF TypeOK
<1>10. ASSUME ~Flush, \A t \in Reviews : ~CommitCorrection(t)
       PROVE  UNCHANGED <<stored, ctr>>
  BY <1>10 DEF Next, Work, Proceed, Abort, BreakDeadlock, vars, run, Reload, Finalize, Stop,
               Correct, LoadJob, Confirm, Validate, UpdateRow, CommitBulk, GiveUp
<1>11. QED
  BY <1>7, <1>8, <1>9, <1>10

(* Every record of the job has a source: the import inserted it, or a      *)
(* correction that is not a duplicate's wrote it.                          *)
THEOREM RecordsAreAccounted == Spec => []RecordsHaveSources
<1>1. ASSUME Init PROVE RecordsHaveSources
  <2>1. {a \in Corrected : kind[a] # "duplicate"} = {}
    BY <1>1 DEF Init, Corrected
  <2>2. Cardinality({a \in Corrected : kind[a] # "duplicate"}) = 0
    BY <2>1, FS_EmptySet
  <2>3. QED
    BY <1>1, <2>2 DEF Init, RecordsHaveSources
<1>2. TypeOK /\ Locks /\ RecordsHaveSources /\ [Next]_vars
        => (TypeOK /\ Locks /\ RecordsHaveSources)'
  BY LocksStep, RecordsStep
<1>3. QED
  BY <1>1, <1>2, LocksInit, PTL DEF Spec
=============================================================================
