# A TLA+ model of the electricity trading platform

Specifications, model-checking configurations and proofs for this repository:
the import of trading, output and storage files and the review of what it
finds, market prices and their sources, market rules, prediction models,
stations and devices, bindings, accounts, and the three places of the web
frontend where answers overtake each other.  `PROJECT.json` lists components,
runs, theorems, hazards and findings and maps every definition to the lines it
models.

## 1. The system

The platform is a FastAPI application (`api/v1`, `services`, `repositories`)
over PostgreSQL with TimescaleDB, a Celery worker pool fed through Redis
(`tasks`), a Redis cache for market prices, and a Vue frontend.

Two facts about sessions (`core/database.py`) set the grain of every model:

- a request has one transaction that commits when the endpoint returns and is
  rolled back by *any* exception, business errors included (23-30); services
  that must be seen by a worker commit explicitly in between;
- a worker has one session per task, whose objects expire at each commit
  (46-51): reading an attribute reloads the row, and an UPDATE names only the
  columns that differ from what was last loaded.

| Component | State | Operations | Hard behaviour | What makes it correct |
|---|---|---|---|---|
| Import run: `tasks/import_tasks.py`, dispatch/cancel/resume of `services/data_import_service.py` | the job's status, counters, restart mark, task id; records; anomalies; the worker's counters and batch | dispatch, start, read a row, flush a batch, finalize, fail, cancel, resume | a worker or a request dies between commits; a cancelled run lives on beside a resumed one; a lost or late message | no row before the mark is missing; completion is honest; counters exact; a job ends |
| Import jobs of a station: `services/data_import_service.py`, `repositories/data_import.py` | station row and its lock, uploaded file, job status | upload, resume, cancel, start and end of runs, (de)activation | check-then-insert, crash between commit and dispatch, files beside a transaction | uploads exclude each other; file and job match; every request is answered |
| Anomaly review: same service | anomaly status, job counters, audit log | correct, confirm, bulk delete, bulk confirm | READ COMMITTED interleavings, lost updates, row-lock deadlock | a decision is final; the audit and the counters account for it |
| Row checks, EMS adapters, state of charge: `tasks/import_tasks.py`, `services/ems_adapters` | records, `device.current_soc` | check a row, convert units, insert, set the device | boundaries; units; a rule that changes during a run; rows of one period | one rule judges a run; formats agree; the device shows a stored value |
| Market rules: `services/market_rule_service.py`, `rules/` | one row per province, `is_active` | upsert, delete, evaluate | two writers, changed columns only; the loop over steps | never a mixture of two rules; costs add up |
| Market prices: `services/market_data_service.py`, `tasks/market_data_tasks.py` | prices, Redis entries | fetch, read through the cache, upload, periodic fetch | the entry is set before the commit; fills overtaken by writes | fetches alone leave no stale entry; staleness ends |
| Market sources: same files | source rows, `last_fetch_status` | create, update, delete, fetch, periodic round | changed columns only; a round cut short by a deletion | the status is the last fetch's; every source is fetched |
| Prediction models: `services/prediction_service.py`, `tasks/prediction_tasks.py` | model status, predictions | create, update, delete, test, health round, fetch, fetch round | HTTP call between read and write; periodic tasks beside administrators | success is whole; no orphans; stale status heals |
| Stations, devices, wizard: `services/station_service.py`, `services/wizard_service.py` | `is_active`, `has_storage`, devices and limits | create, add, remove, tune, stop, delete, start, bind | some handlers lock the station's row, others do not | the flag tells the devices; limits hold; bound stations stay |
| Bindings and data access: `services/binding_service.py`, `core/data_access.py` | user-station and user-device pairs | replace, show | FOR UPDATE of an empty set locks nothing; a DELETE sees what was committed when it began | only overlapping replacements leave rows; what was removed is not shown |
| Accounts: `services/user_service.py`, `core/dependencies.py` | role, `is_active` | authorize, create, toggle, assign a role | administrators act on each other | an administrator remains |
| Frontend: `api/client.ts`, `composables/useDataImport.ts`, `composables/useMarketRuleConfig.ts` | token and queue; polled job; form of a province | refresh, poll, cancel, resume, select, save | late, lost and overtaken answers | requests settle; one poller; values belong to their province |
| Audit log, views, mock market API, agent engine | | | none of their own | section 7 |

They meet in a few places: an upload locks the station's row, which the station
service and the wizard write; a request hands a job to a worker through the
broker and only through committed rows; reviews and the worker write the same
job row; uploads, fetches and periodic fetches write the same prices; imports
read the caps that the rule service writes; roles and deactivation decide what
bindings show.

## 2. The modules

| Module | Models | State and actions |
|---|---|---|
| `ImportLedger` | what an import job promises | which rows are `settled`, the restart `mark`, `completed`; `Commit`, `Complete`, `Reopen` |
| `ImportRun` | one job, from the commit that creates it to its last run | `api[r]` is the request that dispatches run `r`, `pc[r]` its execution; `count` is the job's row, `ctr[r]`, `recs[r]`, `rejs[r]` the `ImportContext`, `seen[r]` what the ORM last loaded |
| `ImportJobs` | the jobs of one station | `req[j]` is the upload request, one value per statement between lock and answer; `lock` the station's row lock; `upload[j]` the directory on disk; runs reduced to their writes of `job.status` |
| `AnomalyReview` | reviews of one job's anomalies | `pc[t]`, `held[t]`, `todo[t]`: a review's transaction, its row locks, the rows its bulk UPDATE still has to visit; `job` the counters; `audited` the sum of the audit rows' counts |
| `MarketRules` | one province's rule and the two cost formulas | `ruleReq[r]` holds what an upsert loaded; `Cost` is the loop of `guangdong.py`, as a sum over the steps it reaches, and the formula of `gansu.py`; nothing computes a bandwidth |
| `ImportRows` (extends `MarketRules`) | what a run does with the content of rows | `run` holds the caps read once, the batch and the newest period; `records`, `soc`; cells are numbers, dates in another notation, empty, texts, NaN or Infinity |
| `MarketCache` | one day's prices | `db`, `cache`, and where each request stands between upsert, `setex` and commit; a price is the number of the write that brought it |
| `MarketSources` | the sources and their status | the source rows, of key and endpoint whether they serve (`legible`, `endpoint`); `calling[r]` a fetch between call and record; `todo`, `current`, `loaded` the periodic task with its ORM copy |
| `PredictionModels` | models, health, fetches, predictions | `modelReq`, `health`, `fetch` hold what was read before an HTTP call; `stored` tells for each period whether its value is of the latest answer |
| `Stations` | stations, devices, limits | `req[r]` is what a request has loaded and is about to write; `Free` the row lock of the handlers that take one |
| `Bindings` | one user's bindings | `req[r].snap` what a statement saw, `req[r].locks` the rows it holds; `SeenStations`, `SeenDevices` the filters of `data_access` |
| `Accounts` | accounts and administrators | `req[r]` from authorization over the loaded target to the commit |
| `ImportPolling` | the import page | `shown`, `polling`, `version`, `errors`, timers as in `useDataImport`; `calls` the requests whose promise is open, with the snapshot each was answered with |
| `RuleForm` | the rule page | `form` tells whose values the form holds, `asked` the requests for defaults |
| `TokenRefresh` | the HTTP client | `stage`, `sentWith`, `retried` of each request; `leader` is `isRefreshing` |
| `MC*` | constants for TLC; `MCSmallParts` puts the last four beside each other | |
| `*Proofs` | theorems | |

`ImportRun` implements `ImportLedger` under the mapping `settled` = rows whose
record or anomaly is in the database, `mark` = `last_processed_row`,
`completed` = the job says so.  `ImportRun` looks at one job row by row,
`ImportJobs` at several jobs of a station, `AnomalyReview` at what a run does
to anomalies and counters, `ImportRows` at what it makes of the content.  Each
action stands for a whole transaction, or for the part of one that no other
transaction can observe or disturb, in the order of the code.

Data is abstracted to what the properties distinguish.  In `ImportRun` a row is
either valid, and then is the unique key it writes, or `Rejected`.  In
`ImportRows` a state of charge is a whole number of 1/`Unit` and dates are not
represented beyond their order.  `ImportTypes` of `ImportJobs` is what uploads
name; the API and migration 010 accept `market_data`, for which `task_map` has
no entry (`LackTask`).  In `RuleForm` only the province that values were
entered for is kept of them; in `ImportPolling` a job is a status and the
number of times it has changed, and an end is not the last word of the server
(`JobGoesOn`).  Names, capacities, passwords and the contents
of tokens appear nowhere.

What lies outside `src/` is modelled by how the code uses it.  Celery
acknowledges a task when it is received, so that a dead worker loses it
(`RunLost`, `LoseRun`, `RoundLost`); `apply_async` may raise although the
message has arrived (`DispatchFail`), in which case the run may be at work
before the request has written the failure (`RecordFailure`, `ResumeFails`); a
revocation may come at any time or
never (`Terminate`).  PostgreSQL runs READ COMMITTED: a statement sees what is
committed when it starts, waits for locked rows and judges its WHERE clause
again (`Free`, `UpdateRow`, `Unlocked`), and breaks deadlocks
(`BreakDeadlock`).  SQLAlchemy writes changed columns only (`Column` of
`ImportRun`).  Redis forgets (`Expire`) and fails (`CacheFails`).  A browser
gives up a call after a time, whatever the server has made of it (`PollFails`,
`CallFails`).

Variables marked *history* in their comment are written by the model only: they
record which of the known ways around a property has been taken (`overlapped`,
`raced`, `revived`, `aside`, `crossed`, `cut`, `lapse`, `astray`, `mixed`, `late`).
Section 6 tells what happens on those ways.

The operators whose comment starts with *Slip* are mutated forms of the
definition that follows them: what the code would do with one plausible
mistake.  No specification uses them.  Each is substituted for its original to
see that a property notices (`mutants` in `PROJECT.json`).

## 3. What the runs check

| Run | Configuration | Shows |
|---|---|---|
| `import_overlap` | 3 rows, batches of 2, one key, 2 dispatches, requests and runs may be lost | nothing before the mark is missing; completion is honest; exact counters and a monotone mark unless runs overlapped; refinement of `ImportLedger` |
| `import_settles` | 2 rows, batches of 1, a storage import, 2 dispatches, nothing lost, fair | a job leaves pending and processing, except when a cancel met a queued run |
| `jobs_uploads` | 2 uploads, 1 resume each, all faults, fair | uploads exclude each other; files and jobs match; every request is answered |
| `review_races` | 2 anomalies, 2 reviews, 3 rows, fair | decisions are final; audit and counters add up; never overcounted; every record has a source; every review ends |
| `import_rows` | 2 runs of up to 3 rows, values on both sides of every check, 2 formats, 2 requests that write the rule | types; a rule is one administrator's; costs grow with the deviation and add up unit by unit; one rule judges a run; formats and corrections agree; the device shows a stored value |
| `predictions` | 1 model, 2 dates, 2 periods, a request, a health round and a fetch round, answers of up to 2 records, fair | success is whole; no orphans; stale findings heal; fetches arrive |
| `market_cache` | 2 periods, 2 requests, 3 writes, fair | fetches alone leave nothing stale; staleness ends |
| `market_sources` | 2 sources of one or two provinces, a request, the task, fair | the status is the last recorded fetch's; every active source gets an outcome, in whatever order the rounds visit them |
| `stations` | 1 station, 3 devices, a limit of 2, 2 requests, 3 levels | the flag tells the devices; the limit holds; deleted stations have no device; bound ones are not stopped |
| `bindings` | 1 station with 2 devices, 2 replacements | only overlapping replacements leave rows; what was removed is not shown |
| `small_parts` | the import page with one job and 2 resumes; the rule page with 2 provinces; 3 client requests; 3 users and 2 requests of administrators; fair | one poller; polling settles; values belong; requests settle; an administrator remains |
| `jobs_taskless` | 2 uploads, no fault, fair | *refutes* that a pending job ends (section 6) |

`small_parts` chooses one of its four modules in the beginning and keeps the
others in an initial state: they share nothing, and a product of their states
would show nothing more.

The bounds make every case happen that the code distinguishes.  Three rows with
batches of two give a full batch, a partial batch and, with rejected rows, a
batch filled by anomalies or by neither; one key makes rows collide with each
other, with what another import stored and with the other run.  Two dispatches,
uploads, reviews, replacements or wizard requests are the least that overlap,
and form every pair of operations.  Two periods tell a whole day from a partial
answer and from a repeated period (`MaxAnswer`); three writes of prices give a
price to overwrite, one in flight and one that comes between.  Three devices
exceed the limit of two.  Two provinces give a form that is waited for and
another that is shown; three requests of the client give one that leads, one
that waits and one whose answer comes after the refresh.  Safety is proved for
all values in the modules of section 4.

Bounds by name: `NumRows`, `BatchSize` (`BATCH_SIZE` is 1000 in the code),
`MaxRuns`, `MaxResumes`, `MaxRows`, `MaxSkipped`, `MaxImports`, `MaxAnswer`,
`MaxWrites`, `MaxDevices` (50 in the code), `MaxAge`, `MaxVersion`,
`MAX_POLL_ERRORS` (5 in the code); in `AnomalyReview` a batch inserts at most
one new record; in `ImportPolling` the user has at most one call of each kind
under way.  Models, requests and devices are permuted in `stations`, `bindings`
and `import_rows`, which check no liveness.  Deadlock is checked in those three
runs; elsewhere it is not, because finished jobs, reviews, requests and pages
have nothing left to do.

Fairness.  `ImportRun`: a request that has begun and a worker that has a task
go on (weak fairness per run); users, losses and revocations owe nothing.
`ImportJobs`: strong fairness of a request's steps, because PostgreSQL serves
the queue of a row lock in turn while the lock itself is taken again and again;
weak fairness for runs.  `AnomalyReview`: weak fairness of the server's steps
of each review, the deadlock detector among them.  `PredictionModels`: Celery
beat starts the rounds again and again, and a worker does not die every time
before the same model has been recorded; since a round may be cut short
infinitely often this is strong fairness, per model.  `MarketSources`: some
round starts, and its worker goes on (weak fairness); which source comes first
is never promised, because the SELECT has no ORDER BY, and the property's
premise is that rounds do not lose their worker for ever (`cut`).
`MarketCache`: requests end, and an entry with a time to live expires.
`ImportPolling`: timers fire, and calls are answered or given up; that an import
ends is a premise of `PollingSettles`, because the job of a killed worker does
not.  `TokenRefresh`: both clients of axios
have a timeout.  Failures are always allowed and never required.

## 4. What is proved

TLAPS checks the following for every value of the constants that the named
assumptions allow.

- `ImportRunProofs`: `TypeCorrect`, `NothingIsLost`, `CompletionIsHonest`,
  `ImplementsLedger`, `RowsAreCountedOnce`, `MarkIsMonotone`.
  `NothingLost` alone is not inductive: it must be known of each live run that
  the rows it has read and not yet flushed are exactly those in its batch, that
  everything up to its start was already persisted, and that its stale copy of
  the job row never makes the ORM keep a mark that its batch does not justify.
  The counting theorems need the stronger fact that, as long as no resume
  overtook a live run, there is one live run and its counters are the job's plus
  its batch.  Storing is monotone, which is why overlap can hurt the counters
  and never the rows.
- `ImportJobsProofs`: `TypeCorrect`, `UploadsNeverOverlap`, `FilesBelongToJobs`.
  The invariant `Safe` says that the station's lock is held by the request
  between its first statement and its commit, that a job exists from that commit
  on, that between the check and the commit only a job that comes back from a
  final status can become active, and where the file is at each stage.
- `AnomalyReviewProofs`: `TypeCorrect`, `DecisionsAreFinal`, `AuditIsComplete`,
  `CountersAreExact`, `CorrectionsNeverOvercount`, `RecordsAreAccounted`.  All
  rest on `Locks`: a row that an open review holds is pending and nobody
  else's.  `Claims` bounds the counters a correction has loaded as well, and
  `InStep` says that until a race the loaded counters are the job's.
- `ImportRowsProofs`, on imports and the rule that judges them.
  - `RuleStaysLatest`: an update writes only the columns that differ, so the row
    stays whole only because the copy it was compared with is still the row
    (`LoadedIsStored`), which the row lock gives.
  - `EveryCostAddsUp`, `CostsStayAdditive`: for every stepped or proportional rule,
    every forecast and every deviation, costs never fall as the deviation grows,
    and ordered steps charge each unit once for each step that contains it.
    `CostsAddUp` looks at two forecasts; the theorem has no such bound.  It rests
    on sums over finite sets (`SumSplits`, `SumIsMonotone`, `SumIsAdditive`,
    `SumIsPadded`) and on two inductions, over numbers (`Numbers`) and over
    finite sets (`FiniteSubsets`), that are stated over a *set* of values,
    because the library's theorems take an operator.
  - `TypeCorrect`, `OneRuleAccounts`, `ChecksStayInAgreement`,
    `SocStaysRecorded`, from the invariant `RowSafe`.  Each verdict is that of
    the caps the run has read (`Judged`, `Opened`), an accepted row passes every
    check, in any unit (`AcceptedPass`, `UnitsCancel`, `FormatsAgree`), and can
    be entered by a reviewer in the notation of corrections
    (`AcceptedAreCorrectable`); what a row was refused for is refused of a
    reviewer too where both sides have the same bounds (`VerdictFails`,
    `RejectedAreRefused`).  The newest state of
    charge that a run keeps in memory is stored, or the first of its period in
    the batch, or its period was there before the run (`NewestStored`): the
    INSERT that skips conflicts keeps the first of a period, and so does the
    comparison.
- `FetchProofs`, on the three modules that fetch.
  - `PredictionsTypeCorrect`, `SuccessesAreWhole`, `NoOrphans`,
    `NothingIsUnstored`.  The counting lemma `SuccessNamesAll` is the heart: an
    answer with as many valid records as the day has periods, none repeated,
    names every period.  Then a fetch status of success and the periods it
    stands for are written in one step, and any later answer for that date
    replaces the status with the periods.
  - `PricesTypeCorrect`, `NoPriceIsLost`, `FetchesStayInAgreement`.  The
    inductive part says that two open fetches hold disjoint rows (`Exclusive`),
    that the entry is backed by the database or by an open fetch (`Backed`), and
    that a fetch that has set the entry still has in hand what it has announced
    (`Announced`).
  - `SourcesTypeCorrect`, `StatusStaysLatest`, through `CopyHolds`: the status
    the task has loaded is still the stored one, unless a request crossed it.
- `StationsProofs`: `TypeCorrect`, `FlagsTellDevices`, `DevicesStayLimited`,
  `DeletedStationsStayEmpty`, `BoundStationsAreKept`, `LimitsStayOrdered`.  What
  a request has read stays true as long as it holds the station's row, and
  there is one such request per station (`Held`, `Seen`); `Resting` and
  `Noticed` do the same for deletion and bindings.
- `BindingsProofs`: `TypeCorrect`, `OthersNeverRemain`, `RemovedStayUnseen`.
  Rows are named by the request that wrote them (`Signed`), requests that ended
  before another began are ordered (`Ordered`), a request names resources of one
  kind (`Named`).  What a DELETE sees it has locked, what it does not see is of a
  replacement that had not ended when it began, and nothing else is left when
  the request is done (`Witnessed`); every row that survives has an overlapping
  author (`Admitted`).
- `SmallPartsProofs`, one section per module.
  - `AdministratorsRemain` (`Accounts`): a request about to write never takes the
    rights of the administrator who sent it (`Considerate`), who therefore
    remains, as long as he still was one when it was written (`late`).
  - `OnePollerAtATime` (`ImportPolling`): no poll is of a later version than the
    page's (`NotAhead`), and while the page polls there is one timer, the one it
    knows, or one call of its version, not both (`Chain`).
  - `ValuesStayWithProvince` (`RuleForm`): the list that the page has loaded and
    the values that it saves belong to their province as well (`ListsBelong`),
    until one of the two known races has mixed them (`mixed`).
  - `RefreshesAreShared` (`TokenRefresh`): one request at a time refreshes, and
    whoever waits waits for it, the part of `RequestsSettle` that is safety.

`ImportRows.TypeOK` is run and proved.  The other type invariants, `PricesStay`,
`PredictionsStay` and `LimitsOrdered` are proved and not run.  Only
model-checked: liveness (`JobSettles`, `RequestsEnd`, `ReviewsEnd`,
`StatusHeals`, `FetchesArrive`, `StalenessEnds`, `EverySourceIsFetched`,
`PollingSettles`, `RequestsSettle`), because the provers handle neither fairness
nor ENABLED.  Every safety invariant and every action property that a run checks
is the statement of a theorem.

## 5. Hazards

`PROJECT.json` lists what is hard to test in this code, at the line where it
bites, with the properties that watch it.  A hazard without a property has a
note.

## 6. Where the code and its documents differ

`jobs_taskless` shows the one that blocks users without any fault: the upload
schema and migration 010 accept `market_data`, the job is committed before
`task_map` is looked up (`data_import_service.py` 164, 184), and the pending job
keeps the station from further imports.  A crash at the same place has the same
effect.

The models contain the following as well; no run states them.

Imports:

- An interrupted job stays processing: a worker that dies writes nothing
  (`import_tasks.py` 370), and only a cancel moves the job on.
- A run past its revocation writes completed or failed over cancelled
  (`import_tasks.py` 242).
- Two live runs of a job report a rejected row twice (199);
  `import_anomalies` has no unique key.
- A resume asks neither the station's lock nor `has_processing_job`
  (`data_import_service.py` 355).
- Corrections read, add and write the counters without a lock and lose updates
  (769); a bulk review that is overtaken after its check succeeds in part (888);
  correcting a missing period adds a success without a row, so that completeness
  may exceed 100 (782).
- `Decimal` accepts Infinity, and a power of Infinity passes the row checks; a
  number that its column cannot hold fails the whole run at the insert.
- A correction of the state of charge is a ratio, also where the file was in
  percent.
- Row checks and corrections differ in notation and in bounds.  A file may write
  a date with slashes or without zeros (`import_tasks.py` 57-64) and leave
  powers and cycle counts empty (748-775); a correction accepts the ISO notations
  only and nothing empty (`data_import_service.py` 580, 625, 642).  A correction
  accepts a price outside the caps that refused it (546) and an infinite output
  (591) that no row may hold.  `ChecksAgree` states what is left.
- A resumed run reads the caps of the rule again (`import_tasks.py` 430-436), so
  that one file may be judged by two rules.

Markets and predictions:

- One unreadable key ends a prediction round for every model
  (`prediction_tasks.py` 50, 157), although "a failing model does not affect the
  others" (`3-2-prediction-data-auto-fetch.md:61`).
- Fetches of one province are not exclusive, although
  `2-6-market-data-auto-fetch.md:175` asks for a distributed lock.
- The steps of a rule may be stored out of order; the `break` of the loop then
  drops steps.  The bandwidth formula has a schema and no implementation.
  `registry.evaluate` and `get_market_data` have no caller.

Stations and bindings:

- Two first replacements of a user's bindings both keep their rows: FOR UPDATE
  of an empty set locks nothing (`repositories/binding.py` 33), though
  `binding_service.py:112` gives it as the guard against concurrent updates.
- A station that is being bound may be deactivated between check and commit, so
  that users are bound to an inactive station (`1-4-trader-station-binding.md`
  365 and 376 exclude it).
- `update_station(is_active=False)` leaves the devices active, which
  `delete_station` does not; a station deleted and started again has
  `has_storage` and no device.

Frontend:

- `cancelImport`, the reset and the page's end stop polling without a new
  `pollingVersion` (`useDataImport.ts` 96-111): the answer of a poll that is
  under way passes the comparison and takes the page back to the job as it was,
  without polling it.  Nor does the page look again after an end: a run that
  completes a cancelled job (`import_tasks.py` 242, 381), or a message that
  starts a failed one again (277), stays unseen.  `2-3-historical-data-import.md:770` says that the version
  prevents an outdated answer from overwriting the latest status.
- Failures of an earlier chain count for the one that runs (79-81).
- Selecting a province that has a rule takes no new version
  (`useMarketRuleConfig.ts` 124): late defaults of another province overwrite
  its form; and until defaults come, the form shows the province before and can
  be saved under the new one.  `2-2-province-market-rules.md:137` reports
  the race as fixed.

Accounts:

- The checks of `toggle_active` and `assign_role` concern only one's own
  account.  Two administrators who demote each other at the same time both
  succeed, and no administrator remains (`late` in `Accounts`).

## 7. Not modelled

- `cleanup_expired_files`: nothing calls it.
- The two statements of `_init_import` are one step; a commit that raises is
  taken for one that did not happen.
- Notations of a date that only a correction reads (ISO weeks).
- Passwords, logins, the locking of accounts after failed logins and the
  contents of tokens; names, telephone numbers and other free fields.
- Lists and views, their filters and pages: a late answer of a list shows rows
  of an older filter until the next load, and nothing else depends on it.
- The audit log outside `AnomalyReview`: one insert in the caller's transaction.
- The mock market API (a test double) and the agent engine (a health endpoint
  and empty packages).

## 8. What could follow

1. Finer grain for `ImportRun` and `ImportJobs`: the two statements of
   `_init_import`, uncertain commits; a composition of the two that shows the
   reduced run of `ImportJobs` to be a faithful one.
2. `ImportJobs` without resumes as an implementation of mutual exclusion;
   `ImportRows` as what `ImportRun` does with the content of rows.
3. Imports of a station together with its deactivation and its devices:
   `ImportJobs` and `Stations` under one station row.
