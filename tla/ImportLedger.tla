---------------------------- MODULE ImportLedger ----------------------------
(***************************************************************************)
(* What an import job promises, whatever executions, failures, cancels and *)
(* resumes it goes through.  Every data row of the uploaded file is either *)
(* still unaccounted for or has left its trace in the database for good: a *)
(* stored record or an anomaly.  The job advertises a restart mark (the    *)
(* column last_processed_row) and may call itself completed.               *)
(***************************************************************************)
EXTENDS Integers

CONSTANT NumRows    \* data rows of the file, the header not counted

Row == 1..NumRows

VARIABLES
  settled,    \* rows that have left their trace in the database
  mark,       \* the row a resume would start after
  completed   \* the job has been reported as completed

ledger == <<settled, mark, completed>>

Init ==
  /\ settled \in SUBSET Row
  /\ mark = 0
  /\ completed = FALSE

(* A commit of an execution: rows are settled, never unsettled, and the    *)
(* mark moves to some row before which nothing is missing.                 *)
Commit ==
  /\ settled' \in SUBSET Row
  /\ settled \subseteq settled'
  /\ mark' \in 0..NumRows
  /\ 1..mark' \subseteq settled'
  /\ UNCHANGED completed

(* The job is reported as completed only when no row is missing.           *)
Complete ==
  /\ settled = Row
  /\ mark' \in 0..NumRows
  /\ completed' = TRUE
  /\ UNCHANGED settled

(* The report is withdrawn: an execution fails or starts over.             *)
Reopen ==
  /\ completed' = FALSE
  /\ UNCHANGED <<settled, mark>>

Next == Commit \/ Complete \/ Reopen

Spec == Init /\ [][Next]_ledger
=============================================================================
