--------------------------- MODULE MarketSources ---------------------------
(***************************************************************************)
(* The external sources of clearing prices, one per province: who creates, *)
(* changes and deletes them, and what fetches write into their status      *)
(* (services/market_data_service.py, repositories/market_data.py,          *)
(* tasks/market_data_tasks.py, api/v1/market_data.py).                     *)
(*                                                                         *)
(* The periodic task loads its sources through the ORM.  Every commit      *)
(* expires them: the next use of one reloads its row, and an UPDATE names  *)
(* only the columns that differ from what was loaded.  A fetch on request  *)
(* updates the status in a statement of its own.                           *)
(***************************************************************************)
EXTENDS Integers

CONSTANTS
  Sources,        \* sources, by id
  Provinces,
  SourceRequests, \* requests that fetch
  NoSource

ASSUME MarketSourcesAssumption ==
  /\ NoSource \notin Sources
  /\ Provinces # {}

VARIABLES
  sourceExists, \* "no", "yes", or "gone" once deleted
  province,     \* province
  sourceActive, \* is_active
  endpoint,     \* the source has an api_endpoint
  legible,      \* its key, if it has one, can be decrypted
  sourceStatus, \* last_fetch_status
  calling,      \* the source whose endpoint a request has called
  todo,         \* the sources the periodic task still has to visit
  current,      \* the source whose endpoint the task has called
  loaded,       \* the status the task has loaded with it, or "unreadable" if
                \* it could not decrypt the key and made no call; "pending" else
  last,         \* history: outcome of the last fetch that was recorded
  crossed,      \* history: sources a request has recorded while the task was
                \* calling them, until a record of theirs is written in full
  cut           \* history: the latest round lost its worker or could not record
                \* an outcome

access     == <<sourceActive, endpoint, legible>>
sourceRow  == <<sourceExists, province, access, sourceStatus>>
task       == <<todo, current, loaded>>
notes      == <<last, crossed>>
sourceVars == <<sourceRow, calling, task, notes, cut>>

Present(s) == sourceExists[s] = "yes"

SourceInit ==
  /\ sourceExists = [s \in Sources |-> "no"]
  /\ province \in [Sources -> Provinces]
  /\ sourceActive = [s \in Sources |-> FALSE]
  /\ endpoint = [s \in Sources |-> FALSE]
  /\ legible = [s \in Sources |-> TRUE]
  /\ sourceStatus = [s \in Sources |-> "pending"]
  /\ calling = [r \in SourceRequests |-> NoSource]
  /\ todo = {}
  /\ current = NoSource
  /\ loaded = "pending"
  /\ last = [s \in Sources |-> "pending"]
  /\ crossed = {}
  /\ cut = FALSE

-----------------------------------------------------------------------------
(* Administrators.                                                         *)

(* create_source: 400 or, if another one is faster, a violated unique key. *)
CreateSource(s) ==
  /\ sourceExists[s] = "no"
  /\ \A t \in Sources : Present(t) => province[t] # province[s]
  /\ sourceExists' = [sourceExists EXCEPT ![s] = "yes"]
  /\ \E a, e \in BOOLEAN :
       /\ sourceActive' = [sourceActive EXCEPT ![s] = a]
       /\ endpoint' = [endpoint EXCEPT ![s] = e]
  /\ UNCHANGED <<province, legible, sourceStatus, calling, task, notes, cut>>

(* update_source: an empty endpoint is none, and a key that is entered or  *)
(* taken away leaves nothing that cannot be decrypted.                     *)
UpdateSource(s) ==
  /\ Present(s)
  /\ \E a, e \in BOOLEAN, k \in {TRUE, legible[s]} :
       /\ sourceActive' = [sourceActive EXCEPT ![s] = a]
       /\ endpoint' = [endpoint EXCEPT ![s] = e]
       /\ legible' = [legible EXCEPT ![s] = k]
  /\ UNCHANGED <<sourceExists, province, sourceStatus, calling, task, notes, cut>>

(* delete_source; nobody asks for the columns of a row that is gone.       *)
DeleteSource(s) ==
  /\ Present(s)
  /\ sourceExists' = [sourceExists EXCEPT ![s] = "gone"]
  /\ sourceActive' = [sourceActive EXCEPT ![s] = FALSE]
  /\ endpoint' = [endpoint EXCEPT ![s] = FALSE]
  /\ legible' = [legible EXCEPT ![s] = TRUE]
  /\ UNCHANGED <<province, sourceStatus, calling, task, notes, cut>>

(* The server is started with another encryption key.                      *)
RotateSourceKey(s) ==
  /\ Present(s) /\ legible[s]
  /\ legible' = [legible EXCEPT ![s] = FALSE]
  /\ UNCHANGED <<sourceExists, province, sourceActive, endpoint, sourceStatus, calling, task, notes,
                 cut>>

-----------------------------------------------------------------------------
(* fetch_market_data on request.                                           *)

(* update_fetch_status.  An UPDATE of a deleted row matches nothing.       *)
UpdateFetchStatus(s, o) ==
  IF Present(s)
  THEN /\ sourceStatus' = [sourceStatus EXCEPT ![s] = o]
       /\ last' = [last EXCEPT ![s] = o]
       /\ crossed' = IF s = current THEN crossed \cup {s} ELSE crossed \ {s}
  ELSE UNCHANGED <<sourceStatus, notes>>

(* Without source, endpoint or readable key the route answers "failed" and *)
(* nothing is written; otherwise the endpoint is called.                   *)
SourceFetchCalls(r, s) ==
  /\ calling[r] = NoSource
  /\ Present(s) /\ endpoint[s] /\ legible[s]
  /\ calling' = [calling EXCEPT ![r] = s]
  /\ UNCHANGED <<sourceRow, task, notes, cut>>

(* trigger_fetch answers 200 whatever happens, so that the failed status   *)
(* is committed too.  A row the database refuses leaves a transaction in   *)
(* which nothing can be.                                                   *)
SourceFetchRecords(r) ==
  /\ calling[r] # NoSource
  /\ \/ \E o \in {"success", "failed"} : UpdateFetchStatus(calling[r], o)
     \/ UNCHANGED <<sourceStatus, notes>>
  /\ calling' = [calling EXCEPT ![r] = NoSource]
  /\ UNCHANGED <<sourceExists, province, access, task, cut>>

-----------------------------------------------------------------------------
(* fetch_market_data_periodic.                                             *)

(* An exception in the loop body is recorded, whatever the row held before. *)
RecordFailure(s) ==
  IF Present(s)
  THEN /\ sourceStatus' = [sourceStatus EXCEPT ![s] = "failed"]
       /\ last' = [last EXCEPT ![s] = "failed"]
       /\ crossed' = crossed \ {s}
  ELSE UNCHANGED <<sourceStatus, notes>>

(* Slip: only the status of a source that has never been fetched is set.   *)
RecordSuccessFirst(s) ==
  IF Present(s)
  THEN /\ IF loaded = "pending"
          THEN sourceStatus' = [sourceStatus EXCEPT ![s] = "success"] /\ crossed' = crossed \ {s}
          ELSE UNCHANGED <<sourceStatus, crossed>>
       /\ last' = [last EXCEPT ![s] = "success"]
  ELSE UNCHANGED <<sourceStatus, notes>>

(* The assignment of "success" is part of the UPDATE unless the row was    *)
(* loaded with it.                                                         *)
RecordSuccess(s) ==
  IF Present(s)
  THEN /\ IF loaded = "success"
          THEN UNCHANGED <<sourceStatus, crossed>>
          ELSE /\ sourceStatus' = [sourceStatus EXCEPT ![s] = "success"]
               /\ crossed' = crossed \ {s}
       /\ last' = [last EXCEPT ![s] = "success"]
  ELSE UNCHANGED <<sourceStatus, notes>>

(* The body of the loop up to the call of the endpoint; the key is         *)
(* decrypted first, whether there is an endpoint or not.                   *)
Enter(s) ==
  /\ current' = s
  /\ loaded' = IF legible[s] THEN sourceStatus[s] ELSE "unreadable"

(* A source without endpoint is passed over.                               *)
Bare(s) == legible[s] /\ ~endpoint[s]

Idle == todo = {} /\ current = NoSource
Selected == {s \in Sources : Present(s) /\ sourceActive[s]}

(* The SELECT loads the sources, in any order; they are used as they were  *)
(* loaded up to the first one that is not passed over.                     *)
RoundStarts(s) ==
  /\ Idle
  /\ s \in Selected /\ ~Bare(s)
  /\ \E passed \in SUBSET {t \in Selected : Bare(t)} : todo' = Selected \ ({s} \cup passed)
  /\ Enter(s)
  /\ cut' = FALSE
  /\ UNCHANGED <<sourceRow, calling, notes>>

(* Every further source is reloaded as it is now.  One that is gone raises *)
(* outside the try: the task ends, and the remaining sources wait for the  *)
(* next round.                                                             *)
RoundContinues(s) ==
  /\ current = NoSource
  /\ s \in todo
  /\ todo' = IF Present(s) THEN todo \ {s} ELSE {}
  /\ IF Present(s) /\ ~Bare(s) THEN Enter(s) ELSE UNCHANGED <<current, loaded>>
  /\ UNCHANGED <<sourceRow, calling, notes, cut>>

(* Prices and status are committed together; otherwise the failure is.     *)
Outcome == (loaded # "unreadable" /\ RecordSuccess(current)) \/ RecordFailure(current)

(* Slip: a failed source ends the round.                                   *)
RoundRecordsEnding ==
  /\ current # NoSource
  /\ \/ loaded # "unreadable" /\ RecordSuccess(current) /\ UNCHANGED todo
     \/ RecordFailure(current) /\ todo' = {}
  /\ current' = NoSource
  /\ loaded' = "pending"
  /\ UNCHANGED <<sourceExists, province, access, calling, cut>>

RoundRecords ==
  /\ current # NoSource
  /\ Outcome
  /\ current' = NoSource
  /\ loaded' = "pending"
  /\ UNCHANGED <<sourceExists, province, access, calling, todo, cut>>

(* The failure cannot be recorded either, and the round goes on.           *)
RecordingFails ==
  /\ current # NoSource
  /\ current' = NoSource
  /\ loaded' = "pending"
  /\ cut' = TRUE
  /\ UNCHANGED <<sourceRow, calling, todo, notes>>

(* The worker dies, or the database cannot be reached where nothing        *)
(* catches it.                                                             *)
SourceRoundLost ==
  /\ ~Idle
  /\ todo' = {}
  /\ current' = NoSource
  /\ loaded' = "pending"
  /\ cut' = TRUE
  /\ UNCHANGED <<sourceRow, calling, notes>>

-----------------------------------------------------------------------------
SourceNext ==
  \/ \E s \in Sources :
       \/ CreateSource(s) \/ UpdateSource(s) \/ DeleteSource(s) \/ RotateSourceKey(s)
       \/ RoundStarts(s) \/ RoundContinues(s)
       \/ \E r \in SourceRequests : SourceFetchCalls(r, s)
  \/ \E r \in SourceRequests : SourceFetchRecords(r)
  \/ RoundRecords \/ RecordingFails \/ SourceRoundLost

SourceSpec == SourceInit /\ [][SourceNext]_sourceVars

(* Beat starts rounds again and again, whatever source the SELECT brings   *)
(* first, and a worker goes on with its loop.                              *)
SourceFairness ==
  /\ WF_sourceVars(\E s \in Sources : RoundStarts(s))
  /\ WF_sourceVars(\E s \in Sources : RoundContinues(s))
  /\ WF_sourceVars(RoundRecords)

SourceFairSpec == SourceSpec /\ SourceFairness

-----------------------------------------------------------------------------
(* Properties.                                                             *)

Statuses == {"pending", "success", "failed"}

(* Every variable stays in the set the code and the schema give it; two    *)
(* sources of one province never exist at the same time.                   *)
SourceTypeOK ==
  /\ sourceExists \in [Sources -> {"no", "yes", "gone"}]
  /\ province \in [Sources -> Provinces]
  /\ sourceActive \in [Sources -> BOOLEAN]
  /\ endpoint \in [Sources -> BOOLEAN]
  /\ legible \in [Sources -> BOOLEAN]
  /\ sourceStatus \in [Sources -> Statuses]
  /\ calling \in [SourceRequests -> Sources \cup {NoSource}]
  /\ todo \subseteq Sources
  /\ current \in Sources \cup {NoSource}
  /\ loaded \in Statuses \cup {"unreadable"}
  /\ last \in [Sources -> Statuses]
  /\ crossed \subseteq Sources
  /\ cut \in BOOLEAN
  /\ \A s, t \in Sources : Present(s) /\ Present(t) /\ province[s] = province[t] => s = t

(* The status is the latest: it tells the outcome of the last recorded     *)
(* fetch, although the task writes only columns that differ from a row it  *)
(* has loaded before its call; unless a request recorded another outcome   *)
(* while the task was calling the same source.                             *)
StatusIsLatest == \A s \in Sources \ crossed : sourceStatus[s] = last[s]

(* Every source is fetched: one that stays active with an endpoint has an  *)
(* outcome some day, whatever the order of the SELECT, and although other  *)
(* sources fail, have unreadable keys or no endpoint, or are deleted in    *)
(* the midst of a round, as long as rounds do not for ever lose their      *)
(* worker or fail to record.                                               *)
EverySourceIsFetched ==
  <>[]~cut =>
    \A s \in Sources :
      <>[](Present(s) /\ sourceActive[s] /\ endpoint[s]) => <>(sourceStatus[s] # "pending")
=============================================================================
