-------------------------- MODULE PredictionModels --------------------------
(***************************************************************************)
(* Prediction models: what administrators, connection tests, the periodic  *)
(* health check and the periodic fetch write into a model's row, and the   *)
(* predictions that fetches store (services/prediction_service.py,         *)
(* tasks/prediction_tasks.py, repositories/prediction.py).                 *)
(*                                                                         *)
(* Tests, checks and fetches read the model, call its endpoint and write   *)
(* what they found in a later statement: anything may happen to the model  *)
(* in between.  The predictions and the fetch status of one answer are     *)
(* written in one transaction, whose upsert waits for those it overlaps,   *)
(* so that one step stands for it.                                         *)
(***************************************************************************)
EXTENDS Integers, FiniteSets

CONSTANTS
  Models,             \* prediction models
  Dates,              \* prediction dates
  DayPeriods,         \* the periods of a day: 96 in the code
  Invalid,            \* a record that fails the checks
  PredictionRequests, \* requests that test or fetch
  HealthRounds,       \* executions of the health task that may overlap
  FetchRounds,        \* executions of the fetch task that may overlap
  MaxAnswer           \* bound: records in one answer of an endpoint

ASSUME PredictionAssumption ==
  /\ IsFiniteSet(DayPeriods)
  /\ DayPeriods # {}
  /\ Invalid \notin DayPeriods
  /\ MaxAnswer \in Nat
  /\ Dates # {}

VARIABLES
  exists,    \* "no", "yes", or "gone" once deleted
  active,    \* is_active
  readable,  \* api_key_encrypted can be decrypted (or there is none)
  status,    \* status
  fetched,   \* last_fetch_status
  fetchDate, \* history: the date of the fetch that wrote last_fetch_status
  stored,    \* per date and period: "none", a "latest" or an "earlier" answer's
  up,        \* the endpoint would pass a health check now
  modelReq,  \* what each request is doing
  health,    \* what each execution of the health task found and has not recorded
  fetch      \* the models each execution of the fetch task still has to record

row  == <<exists, active, readable, status, fetched, fetchDate>>
work == <<modelReq, health, fetch>>
predictionVars == <<row, stored, up, work>>

Nobody == [m \in {} |-> "up"]
IdleReq == [pc |-> "idle"]

(* What a health check finds: the endpoint answers below 500, or it does   *)
(* not, or the call raises; the last two have the same effect.             *)
Findings == {"up", "down"}
HealthCheck(m) == IF up[m] THEN "up" ELSE "down"
StatusOf(f) == IF f = "up" THEN "running" ELSE "error"

-----------------------------------------------------------------------------
(* One answer of an endpoint: records that name a period and pass the      *)
(* checks, and records that do not.                                        *)

Answers == UNION {[1 .. n -> DayPeriods \cup {Invalid}] : n \in 0 .. MaxAnswer}

(* validate_prediction_records                                             *)
ValidRecords(a) == {i \in DOMAIN a : a[i] \in DayPeriods}

Named(a) == {a[i] : i \in ValidRecords(a)}

(* One INSERT ... ON CONFLICT DO UPDATE cannot touch a row twice.          *)
Repeats(a) == \E i, j \in ValidRecords(a) : i # j /\ a[i] = a[j]

(* Slip: the records of the answer are counted, not the valid ones.        *)
FetchStatusOfAll(a) ==
  IF ValidRecords(a) = {} THEN "failed"
  ELSE IF Cardinality(DOMAIN a) = Cardinality(DayPeriods) THEN "success" ELSE "partial"

FetchStatus(a) ==
  IF ValidRecords(a) = {} THEN "failed"
  ELSE IF Cardinality(ValidRecords(a)) = Cardinality(DayPeriods) THEN "success" ELSE "partial"

(* The upsert goes through: the model still exists (foreign key) and the   *)
(* answer names no period twice.                                           *)
UpsertFits(m, a) == exists[m] = "yes" /\ ~Repeats(a)

-----------------------------------------------------------------------------
PredictionInit ==
  /\ exists = [m \in Models |-> "no"]
  /\ active = [m \in Models |-> FALSE]
  /\ readable = [m \in Models |-> TRUE]
  /\ status = [m \in Models |-> "disabled"]
  /\ fetched = [m \in Models |-> "none"]
  /\ fetchDate \in [Models -> Dates]
  /\ stored = [m \in Models |-> [d \in Dates |-> [p \in DayPeriods |-> "none"]]]
  /\ up \in [Models -> BOOLEAN]
  /\ modelReq = [r \in PredictionRequests |-> IdleReq]
  /\ health = [h \in HealthRounds |-> Nobody]
  /\ fetch = [f \in FetchRounds |-> {}]

-----------------------------------------------------------------------------
(* Administrators.                                                         *)

(* create_model: the insert and the first connection test are one          *)
(* transaction, so that nobody ever sees the status of the column's default. *)
CreateModel(m) ==
  /\ exists[m] = "no"
  /\ exists' = [exists EXCEPT ![m] = "yes"]
  /\ active' = [active EXCEPT ![m] = TRUE]
  /\ status' = [status EXCEPT ![m] = StatusOf(HealthCheck(m))]
  /\ UNCHANGED <<readable, fetched, fetchDate, stored, up, work>>

(* update_model: any of is_active, the key and the endpoint; status is not *)
(* among the fields of PredictionModelUpdate.                              *)
UpdateModel(m) ==
  /\ exists[m] = "yes"
  /\ \E a, k, u \in BOOLEAN :
       /\ active' = [active EXCEPT ![m] = a]
       /\ readable' = [readable EXCEPT ![m] = @ \/ k]
       /\ up' = [up EXCEPT ![m] = u]
  /\ UNCHANGED <<exists, status, fetched, fetchDate, stored, work>>

HasPredictions(m) == \E d \in Dates, p \in DayPeriods : stored[m][d][p] # "none"

(* Slip: the predictions are not asked.                                    *)
DeleteModelRegardless(m) ==
  /\ exists[m] = "yes"
  /\ exists' = [exists EXCEPT ![m] = "gone"]
  /\ active' = [active EXCEPT ![m] = FALSE]
  /\ readable' = [readable EXCEPT ![m] = TRUE]
  /\ status' = [status EXCEPT ![m] = "disabled"]
  /\ fetched' = [fetched EXCEPT ![m] = "none"]
  /\ UNCHANGED <<fetchDate, stored, up, work>>

(* delete_model: predictions refer to their model without a cascade, so    *)
(* that a model with predictions stays (the request fails).                *)
DeleteModel(m) ==
  /\ exists[m] = "yes"
  /\ ~HasPredictions(m)
  /\ exists' = [exists EXCEPT ![m] = "gone"]
  /\ active' = [active EXCEPT ![m] = FALSE]
  /\ readable' = [readable EXCEPT ![m] = TRUE]
  /\ status' = [status EXCEPT ![m] = "disabled"]
  /\ fetched' = [fetched EXCEPT ![m] = "none"]
  /\ UNCHANGED <<fetchDate, stored, up, work>>

(* The server is started with another encryption key: what was encrypted   *)
(* with the old one cannot be read until an administrator enters it again. *)
RotateKey ==
  /\ \E M \in SUBSET {m \in Models : exists[m] = "yes"} :
       readable' = [m \in Models |-> readable[m] /\ m \notin M]
  /\ UNCHANGED <<exists, active, status, fetched, fetchDate, stored, up, work>>

EndpointChanges(m) ==
  /\ up' = [up EXCEPT ![m] = ~@]
  /\ UNCHANGED <<row, stored, work>>

-----------------------------------------------------------------------------
(* What tests, checks and fetches write.  An UPDATE of a deleted row       *)
(* matches nothing.                                                        *)

(* update_check_result                                                     *)
WriteStatus(m, f) ==
  status' = IF exists[m] = "yes" THEN [status EXCEPT ![m] = StatusOf(f)] ELSE status

(* update_fetch_result                                                     *)
WriteFetch(m, d, s) ==
  IF exists[m] = "yes"
  THEN /\ fetched' = [fetched EXCEPT ![m] = s]
       /\ fetchDate' = [fetchDate EXCEPT ![m] = d]
  ELSE UNCHANGED <<fetched, fetchDate>>

(* bulk_upsert                                                             *)
UpsertPredictions(m, d, a) ==
  stored' = [stored EXCEPT ![m][d] =
    [p \in DayPeriods |-> IF p \in Named(a) THEN "latest"
                       ELSE IF stored[m][d][p] = "none" THEN "none" ELSE "earlier"]]

(* The fetch raises, or no record of its answer is valid.                  *)
FetchFails(m, d) == WriteFetch(m, d, "failed") /\ UNCHANGED stored

(* The valid records and the status are committed together.                *)
FetchStores(m, d) ==
  \E a \in Answers :
    /\ ValidRecords(a) # {}
    /\ UpsertFits(m, a)
    /\ UpsertPredictions(m, d, a)
    /\ WriteFetch(m, d, FetchStatus(a))

-----------------------------------------------------------------------------
(* Requests.                                                               *)

(* test_connection reads the model (an unreadable key ends the request)    *)
(* and calls the endpoint ...                                              *)
TestCalls(r, m) ==
  /\ modelReq[r] = IdleReq
  /\ exists[m] = "yes"
  /\ readable[m]
  /\ modelReq' = [modelReq EXCEPT ![r] = [pc |-> "testing", model |-> m, found |-> HealthCheck(m)]]
  /\ UNCHANGED <<row, stored, up, health, fetch>>

(* ... and writes what it found.                                           *)
TestRecords(r) ==
  /\ modelReq[r].pc = "testing"
  /\ WriteStatus(modelReq[r].model, modelReq[r].found)
  /\ modelReq' = [modelReq EXCEPT ![r] = IdleReq]
  /\ UNCHANGED <<exists, active, readable, fetched, fetchDate, stored, up, health, fetch>>

(* fetch_predictions reads the model and calls the endpoint, unless the    *)
(* key is unreadable ...                                                   *)
FetchCalls(r, m, d) ==
  /\ modelReq[r] = IdleReq
  /\ exists[m] = "yes"
  /\ modelReq' = [modelReq EXCEPT ![r] =
       [pc |-> "fetching", model |-> m, date |-> d, readable |-> readable[m]]]
  /\ UNCHANGED <<row, stored, up, health, fetch>>

(* ... and records the answer.  A database error leaves a transaction in   *)
(* which the failure cannot be recorded either: the request fails as a     *)
(* whole.  The model may have been deleted, the answer may name a period   *)
(* twice, or the upsert loses a deadlock with another one.                 *)
FetchRecords(r) ==
  /\ modelReq[r].pc = "fetching"
  /\ LET m == modelReq[r].model
         d == modelReq[r].date
     IN  \/ FetchFails(m, d)
         \/ modelReq[r].readable /\ FetchStores(m, d)
         \/ modelReq[r].readable /\ UNCHANGED <<fetched, fetchDate, stored>>
  /\ modelReq' = [modelReq EXCEPT ![r] = IdleReq]
  /\ UNCHANGED <<exists, active, readable, status, up, health, fetch>>

-----------------------------------------------------------------------------
(* check_prediction_models_health.                                         *)

Checked == {m \in Models : exists[m] = "yes" /\ active[m] /\ status[m] \in {"running", "error"}}

(* Slip: models in error wait for an administrator.                        *)
HealthCallsRunning(h) ==
  /\ DOMAIN health[h] = {}
  /\ LET M == {m \in Checked : status[m] = "running"}
     IN  /\ \A m \in M : readable[m]
         /\ health' = [health EXCEPT ![h] = [m \in M |-> HealthCheck(m)]]
  /\ UNCHANGED <<row, stored, up, modelReq, fetch>>

(* The models are selected, their keys decrypted (one that cannot be ends  *)
(* the whole round) and all endpoints called ...                           *)
HealthCalls(h) ==
  /\ DOMAIN health[h] = {}
  /\ \A m \in Checked : readable[m]
  /\ health' = [health EXCEPT ![h] = [m \in Checked |-> HealthCheck(m)]]
  /\ UNCHANGED <<row, stored, up, modelReq, fetch>>

(* ... and each finding is written and committed on its own.               *)
HealthRecords(h, m) ==
  /\ m \in DOMAIN health[h]
  /\ WriteStatus(m, health[h][m])
  /\ health' = [health EXCEPT ![h] = [n \in DOMAIN health[h] \ {m} |-> health[h][n]]]
  /\ UNCHANGED <<exists, active, readable, fetched, fetchDate, stored, up, modelReq, fetch>>

-----------------------------------------------------------------------------
(* fetch_prediction_data_for_all_models.                                   *)

Fetched == {m \in Models : exists[m] = "yes" /\ active[m] /\ status[m] = "running"}

FetchRoundCalls(f) ==
  /\ fetch[f] = {}
  /\ \A m \in Fetched : readable[m]
  /\ fetch' = [fetch EXCEPT ![f] = Fetched]
  /\ UNCHANGED <<row, stored, up, modelReq, health>>

(* Slip: an answer without a valid record is left unrecorded.              *)
FetchRoundSkips(f, m) ==
  /\ m \in fetch[f]
  /\ \E d \in Dates : FetchStores(m, d) \/ UNCHANGED <<fetched, fetchDate, stored>>
  /\ fetch' = [fetch EXCEPT ![f] = @ \ {m}]
  /\ UNCHANGED <<exists, active, readable, status, up, modelReq, health>>

(* Every model's answer is committed on its own; after a database error    *)
(* the failure is recorded in a new transaction.                           *)
FetchRoundRecords(f, m) ==
  /\ m \in fetch[f]
  /\ \E d \in Dates : FetchStores(m, d) \/ FetchFails(m, d)
  /\ fetch' = [fetch EXCEPT ![f] = @ \ {m}]
  /\ UNCHANGED <<exists, active, readable, status, up, modelReq, health>>

(* A worker dies, or reloading a model that was deleted raises outside the *)
(* try: the round ends where it is.                                        *)
RoundLost ==
  /\ \/ /\ \E h \in HealthRounds : health' = [health EXCEPT ![h] = Nobody]
        /\ UNCHANGED fetch
     \/ /\ \E f \in FetchRounds : fetch' = [fetch EXCEPT ![f] = {}]
        /\ UNCHANGED health
  /\ UNCHANGED <<row, stored, up, modelReq>>

-----------------------------------------------------------------------------
PredictionNext ==
  \/ RotateKey \/ RoundLost
  \/ \E m \in Models : CreateModel(m) \/ UpdateModel(m) \/ DeleteModel(m) \/ EndpointChanges(m)
  \/ \E r \in PredictionRequests, m \in Models :
       TestCalls(r, m) \/ \E d \in Dates : FetchCalls(r, m, d)
  \/ \E r \in PredictionRequests : TestRecords(r) \/ FetchRecords(r)
  \/ \E h \in HealthRounds : HealthCalls(h) \/ \E m \in Models : HealthRecords(h, m)
  \/ \E f \in FetchRounds : FetchRoundCalls(f) \/ \E m \in Models : FetchRoundRecords(f, m)

PredictionSpec == PredictionInit /\ [][PredictionNext]_predictionVars

(* Celery beat starts the tasks again and again; workers go on, and are    *)
(* not lost every time before they have recorded a model.                  *)
PredictionFairness ==
  /\ \A h \in HealthRounds :
       /\ SF_predictionVars(HealthCalls(h))
       /\ \A m \in Models : SF_predictionVars(HealthRecords(h, m))
  /\ \A f \in FetchRounds :
       /\ SF_predictionVars(FetchRoundCalls(f))
       /\ \A m \in Models : SF_predictionVars(FetchRoundRecords(f, m))

PredictionFairSpec == PredictionSpec /\ PredictionFairness

-----------------------------------------------------------------------------
(* Properties.                                                             *)

Request ==
  [pc : {"idle"}]
    \cup [pc : {"testing"}, model : Models, found : Findings]
    \cup [pc : {"fetching"}, model : Models, date : Dates, readable : BOOLEAN]

(* Every variable stays in the set the code and the schema give it; a      *)
(* model that exists is running or in error, so that the periodic health   *)
(* check never passes it over for good.                                    *)
PredictionTypeOK ==
  /\ exists \in [Models -> {"no", "yes", "gone"}]
  /\ active \in [Models -> BOOLEAN]
  /\ readable \in [Models -> BOOLEAN]
  /\ status \in [Models -> {"disabled", "running", "error"}]
  /\ fetched \in [Models -> {"none", "success", "partial", "failed"}]
  /\ fetchDate \in [Models -> Dates]
  /\ stored \in [Models -> [Dates -> [DayPeriods -> {"none", "latest", "earlier"}]]]
  /\ up \in [Models -> BOOLEAN]
  /\ modelReq \in [PredictionRequests -> Request]
  /\ health \in [HealthRounds -> UNION {[M -> Findings] : M \in SUBSET Models}]
  /\ fetch \in [FetchRounds -> SUBSET Models]
  /\ \A m \in Models : exists[m] = "yes" => status[m] # "disabled"

(* Success is whole: when a model's last fetch succeeded, every period of  *)
(* the fetched date is stored, and all of them come from that one answer,  *)
(* however requests and periodic fetches overlap.                          *)
SuccessIsWhole ==
  \A m \in Models :
    fetched[m] = "success" => \A p \in DayPeriods : stored[m][fetchDate[m]][p] = "latest"

(* Predictions have models: a fetch that finds its model deleted stores    *)
(* nothing, and a model whose predictions have just been stored stays.     *)
PredictionsHaveModels ==
  \A m \in Models : HasPredictions(m) => exists[m] = "yes"

(* Predictions stay (3-2-prediction-data-auto-fetch.md:16): no failure, no *)
(* partial answer and no deletion removes a stored prediction.             *)
PredictionsStay ==
  [][\A m \in Models, d \in Dates, p \in DayPeriods :
       stored[m][d][p] # "none" => stored'[m][d][p] # "none"]_predictionVars

Serving(m) == exists[m] = "yes" /\ active[m]
AllReadable == \A m \in Models : Serving(m) => readable[m]

(* The status heals: whatever stale findings tests and checks write, a     *)
(* model whose endpoint is up for good is running for good in the end.     *)
StatusHeals ==
  \A m \in Models :
    <>[](Serving(m) /\ up[m] /\ AllReadable) => <>[](status[m] = "running")

(* Fetches arrive: as long as all keys are readable, the periodic fetch    *)
(* records an outcome for every model that is running.  One unreadable key *)
(* ends the round for all of them, although "a failing model does not      *)
(* affect the others" (3-2-prediction-data-auto-fetch.md:61).              *)
FetchesArrive ==
  \A m \in Models :
    <>[](Serving(m) /\ status[m] = "running" /\ AllReadable) => <>(fetched[m] # "none")
=============================================================================
