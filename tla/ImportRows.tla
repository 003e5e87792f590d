------------------------------ MODULE ImportRows ------------------------------
(***************************************************************************)
(* What an import run does with the content of a row (tasks/               *)
(* import_tasks.py, services/ems_adapters/), while administrators write    *)
(* the market rule whose caps judge prices, and what reviewers may enter   *)
(* for it (services/data_import_service.py).  One station with one storage *)
(* device; its runs follow each other.  ImportRun is about the progress    *)
(* and the faults of a run, AnomalyReview about the writes of corrections. *)
(*                                                                         *)
(* A cell is a number (a date is one, too, written %Y-%m-%d), a date in a  *)
(* notation that only _parse_date reads (%Y/%m/%d, or without zeros), an   *)
(* empty cell, a text, or one of the two literals that Decimal accepts.  A *)
(* SOC is a whole number of 1/Unit, so that no column rounds it.           *)
(***************************************************************************)
EXTENDS MarketRules, Sequences

CONSTANTS
  Rows,        \* for each import type, rows that its files hold
  Vendors,     \* formats of storage files
  Periods,     \* PERIODS_PER_DAY
  Column,      \* the largest number that a column holds
  BatchSize,   \* BATCH_SIZE
  MaxRows,     \* bound: rows of a file
  MaxImports,  \* bound: runs
  NoCaps, NoSoc

Checks == [trading_data      |-> <<"trading_date", "period", "clearing_price">>,
           station_output    |-> <<"trading_date", "period", "actual_output_kw">>,
           storage_operation |-> <<"trading_date", "period", "soc", "charge_power_kw",
                                   "discharge_power_kw", "cycle_count">>]
ImportTypes == DOMAIN Checks
Cell == [is : {"number", "loose", "blank", "text", "NaN", "Infinity"}, n : Int]

ASSUME ImportRowsAssumption ==
  /\ Periods \in Nat \ {0} /\ Column \in Nat /\ BatchSize \in Nat \ {0}
  /\ MaxRows \in Nat /\ MaxImports \in Nat
  /\ Vendors \subseteq {"standard", "sungrow", "huawei", "catl"}
  /\ \A t \in ImportTypes : \A row \in Rows[t] :
       row \in [{Checks[t][i] : i \in DOMAIN Checks[t]} -> Cell]
  /\ NoSoc \notin [at : Int \X Int, soc : Int]

VARIABLES
  run,       \* the run, [on |-> FALSE] between two runs
  imports,   \* runs so far
  records,   \* for each import type, the stored value of each (date, period)
  soc,       \* device.current_soc
  judged     \* history: each row of the latest run as its vendor measured
             \* it, with what became of it

rowVars == <<run, imports, records, soc, judged>>
vars == <<rowVars, ruleVars>>

Idle == [on |-> FALSE]

Init ==
  /\ RuleInit
  /\ run = Idle
  /\ imports = 0
  /\ records = [t \in ImportTypes |-> <<>>]
  /\ soc = NoSoc
  /\ judged = {}

-----------------------------------------------------------------------------
(* Files.                                                                  *)

(* A vendor measures a row and writes it into its file.                    *)
Percent == {"sungrow", "catl"}
Written(vendor, row) ==
  IF vendor \in Percent THEN [row EXCEPT !.soc.n = 100 * @] ELSE row

(* transform_soc.                                                          *)
TransformSoc(vendor, n) == IF vendor \in Percent THEN n \div 100 ELSE n

(* The required columns are found where the file has the adapter's format. *)
ColumnsFound(vendor, format) == vendor = format

-----------------------------------------------------------------------------
(* Checks.                                                                 *)

NotNegative(cell) == cell.is = "number" /\ cell.n >= 0

PeriodFits(cell) == cell.is = "number" /\ cell.n \in 1 .. Periods

(* The checks of _execute_*: Decimal turns "Infinity" into a number, a     *)
(* power is compared with 0 only, and the empty cell of a power or a count *)
(* is taken for 0.                                                         *)
Passes(format, caps, field, cell) ==
  CASE field = "trading_date" -> cell.is \in {"number", "loose"}
    [] field = "period" -> PeriodFits(cell)
    [] field = "clearing_price" ->
         /\ cell.is = "number"
         /\ caps # NoCaps => caps.lower <= cell.n /\ cell.n <= caps.upper
    [] field = "actual_output_kw" -> NotNegative(cell)
    [] field = "soc" -> NotNegative(cell) /\ TransformSoc(format, cell.n) <= Unit
    [] field = "cycle_count" -> NotNegative(cell) \/ cell.is = "blank"
    [] OTHER -> NotNegative(cell) \/ cell.is \in {"Infinity", "blank"}

(* What a cell that passes stands for, in the notation of corrections.     *)
Meant(cell) ==
  CASE cell.is = "loose" -> [is |-> "number", n |-> cell.n]
    [] cell.is = "blank" -> [is |-> "number", n |-> 0]
    [] OTHER -> cell

(* The first field that fails names the row's only anomaly.                *)
Judge(type, format, caps, row) ==
  LET failing == {i \in DOMAIN Checks[type] :
                    LET f == Checks[type][i] IN ~Passes(format, caps, f, row[f])}
  IN  IF failing = {} THEN "accepted" ELSE Checks[type][Min(failing)]

(* Slip: a correction's last period is taken for the first of the next day. *)
CorrectableEarly(field, cell) ==
  CASE field = "period" -> cell.is = "number" /\ cell.n \in 1 .. Periods - 1
    [] field \in {"trading_date", "clearing_price"} -> cell.is = "number"
    [] field = "soc" -> NotNegative(cell) /\ cell.n <= Unit
    [] field = "cycle_count" -> NotNegative(cell)
    [] OTHER -> NotNegative(cell) \/ cell.is = "Infinity"

(* _validate_*: a price is held against no caps, an output may be infinite, *)
(* a date has the one notation that the page asks for, and nothing may be  *)
(* left empty.                                                             *)
Correctable(field, cell) ==
  CASE field = "period" -> PeriodFits(cell)
    [] field \in {"trading_date", "clearing_price"} -> cell.is = "number"
    [] field = "soc" -> NotNegative(cell) /\ cell.n <= Unit
    [] field = "cycle_count" -> NotNegative(cell)
    [] OTHER -> NotNegative(cell) \/ cell.is = "Infinity"

(* PostgreSQL refuses a number that the column cannot hold.                *)
Overflows(row) == \E f \in DOMAIN row : row[f].is = "number" /\ row[f].n > Column
(* An infinity is refused, or the driver stores a NaN for it.              *)
Unbounded(row) == \E f \in DOMAIN row : row[f].is = "Infinity"

-----------------------------------------------------------------------------
(* One run.                                                                *)

At(row) == <<row.trading_date.n, row.period.n>>

(* Slip: of two rows for the newest period, the last one counts.           *)
LaterOrSame(a, b) == a[1] > b[1] \/ (a[1] = b[1] /\ a[2] >= b[2])

(* The comparison that keeps the newest SOC of the run.                    *)
Later(a, b) == a[1] > b[1] \/ (a[1] = b[1] /\ a[2] > b[2])
ValueOf(type, format, row) ==
  CASE type = "trading_data" -> row.clearing_price.n
    [] type = "station_output" -> row.actual_output_kw.n
    [] type = "storage_operation" -> TransformSoc(format, row.soc.n)

Caps(type) ==
  IF type = "trading_data" /\ inForce
  THEN [lower |-> rule.price_cap_lower, upper |-> rule.price_cap_upper] ELSE NoCaps

(* A run opens its file and, for prices, reads the rule in force.          *)
Begin(type, vendor, format) ==
  /\ ~run.on
  /\ imports < MaxImports
  /\ type # "storage_operation" => vendor = "standard" /\ format = "standard"
  /\ imports' = imports + 1
  /\ judged' = {}
  /\ run' = IF ColumnsFound(vendor, format)
            THEN [on |-> TRUE, type |-> type, vendor |-> vendor, format |-> format,
                  caps |-> Caps(type), read |-> 0, accepted |-> <<>>, anomalies |-> 0,
                  newest |-> NoSoc, before |-> DOMAIN records[type]]
            ELSE Idle
  /\ UNCHANGED <<records, soc, ruleVars>>

(* Slip: a batch that holds only anomalies never fills up.                 *)
FullOfRecords == Len(run.accepted) >= BatchSize

(* should_flush.                                                           *)
Full == Len(run.accepted) >= BatchSize \/ run.anomalies >= BatchSize

(* Slip: the caps are read again for each row.                             *)
RowCapsAnew == Caps(run.type)

(* The caps that judge a row.                                              *)
RowCaps == run.caps

(* What the run makes of one row.                                          *)
ReadRow(row) ==
  /\ run.on /\ ~Full /\ run.read < MaxRows
  /\ LET cells   == Written(run.vendor, row)
         verdict == Judge(run.type, run.format, RowCaps, cells)
     IN  /\ run' = IF verdict = "accepted"
                   THEN [run EXCEPT !.read = @ + 1, !.accepted = Append(@, cells),
                           !.newest = IF run.type = "storage_operation" /\
                                         (@ = NoSoc \/ Later(At(cells), @.at))
                                      THEN [at |-> At(cells), soc |-> ValueOf(run.type, run.format, cells)]
                                      ELSE @]
                   ELSE [run EXCEPT !.read = @ + 1, !.anomalies = @ + 1]
         /\ judged' = judged \cup {[row |-> row, verdict |-> verdict]}
  /\ UNCHANGED <<imports, records, soc, ruleVars>>

(* ON CONFLICT DO NOTHING: what is stored stays, and of the rows of one    *)
(* batch the first one is stored.                                          *)
Inserted ==
  LET rows  == run.accepted
      First(k) == Min({i \in DOMAIN rows : At(rows[i]) = k})
      old   == records[run.type]
  IN  [k \in DOMAIN old \cup {At(rows[i]) : i \in DOMAIN rows} |->
         IF k \in DOMAIN old THEN old[k] ELSE ValueOf(run.type, run.format, rows[First(k)])]

Insertable == \A i \in DOMAIN run.accepted : ~Overflows(run.accepted[i])

(* flush_batch commits a full batch.                                       *)
FlushBatch ==
  /\ run.on /\ Full /\ Insertable
  /\ records' = [records EXCEPT ![run.type] = Inserted]
  /\ run' = [run EXCEPT !.accepted = <<>>, !.anomalies = 0]
  /\ UNCHANGED <<imports, soc, judged, ruleVars>>

(* The last batch, then the state of charge of the device.                 *)
Finish ==
  /\ run.on /\ ~Full /\ Insertable
  /\ records' = [records EXCEPT ![run.type] = Inserted]
  /\ soc' = IF run.newest = NoSoc THEN soc ELSE run.newest.soc
  /\ run' = Idle
  /\ UNCHANGED <<imports, judged, ruleVars>>

(* One number that a column cannot hold fails the whole run.               *)
FlushFails ==
  /\ run.on
  /\ ~Insertable \/ \E i \in DOMAIN run.accepted : Unbounded(run.accepted[i])
  /\ run' = Idle
  /\ UNCHANGED <<imports, records, soc, judged, ruleVars>>

RowNext ==
  \/ \E t \in ImportTypes, v, f \in Vendors : Begin(t, v, f)
  \/ run.on /\ \E row \in Rows[run.type] : ReadRow(row)
  \/ FlushBatch \/ Finish \/ FlushFails

Next == RowNext \/ (RuleNext /\ UNCHANGED rowVars)
Spec == Init /\ [][Next]_vars

-----------------------------------------------------------------------------
(* Properties.                                                             *)

(* The fields that a row and a correction hold to the same bounds.         *)
StrictFields == {"period", "soc", "charge_power_kw", "discharge_power_kw", "cycle_count"}

(* Every variable stays in the set the code gives it, those of the rule     *)
(* among them; a run never holds more than a batch, and no column more     *)
(* than it can.                                                            *)
TypeOK ==
  /\ RuleTypeOK
  /\ run.on =>
       /\ run.type \in ImportTypes /\ run.read \in 0 .. MaxRows
       /\ Len(run.accepted) <= BatchSize /\ run.anomalies \in 0 .. BatchSize
       /\ Len(run.accepted) + run.anomalies <= run.read
  /\ imports \in 0 .. MaxImports
  /\ soc \in (0 .. Unit) \cup {NoSoc}
  /\ \A t \in ImportTypes : \A k \in DOMAIN records[t] :
       k[2] \in 1 .. Periods /\ records[t][k] <= Column

(* One rule judges a run: whatever administrators do to the rule of the    *)
(* province meanwhile, some rule that one of them entered, or no rule,     *)
(* accounts for what became of every row of the file.                      *)
OneRuleJudges ==
  run.on /\ run.type = "trading_data" =>
    \E c \in Contents \cup {NoRule} :
      \A v \in judged :
        v.verdict = Judge("trading_data", "standard",
                          IF c = NoRule THEN NoCaps
                          ELSE [lower |-> c.price_cap_lower, upper |-> c.price_cap_upper], v.row)

(* The checks agree, although three places make them: what a vendor        *)
(* measured is accepted or rejected alike whichever format its file has;   *)
(* what a row is accepted with, a reviewer can enter, in the notation of   *)
(* corrections; and what a storage check turns away, or a wrong period, a  *)
(* correction does not let in.  (It does let in a price outside the caps   *)
(* and an infinite output, and reads more dates: README, section 6.)       *)
ChecksAgree ==
  /\ run.on /\ run.type = "storage_operation" =>
       \A v \in judged : v.verdict = Judge(run.type, "standard", NoCaps, v.row)
  /\ \A v \in judged :
       /\ v.verdict = "accepted" => \A f \in DOMAIN v.row : Correctable(f, Meant(v.row[f]))
       /\ v.verdict \in StrictFields => ~Correctable(v.verdict, v.row[v.verdict])

(* The device shows what its records say: the state of charge that a run   *)
(* leaves is the one stored for the newest period of the run, if the run   *)
(* is the first to bring that period.                                      *)
SocIsRecorded ==
  [][ soc' # soc => run.newest.at \in run.before
                    \/ soc' = records'["storage_operation"][run.newest.at] ]_vars
=============================================================================
