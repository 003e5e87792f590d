---------------------------- MODULE FetchProofs ----------------------------
(***************************************************************************)
(* What is fetched from outside: the prices of a day with their copy in    *)
(* Redis, the sources that bring them, and the predictions of models.      *)
(*                                                                         *)
(* FetchesAgree is not inductive: a commit may change the price that Redis *)
(* shows.  It does not as long as nobody goes aside, because what a        *)
(* request has put into Redis is only replaced by a request whose rows are *)
(* others (Exclusive), so that an entry shows for the rows of a request    *)
(* that is about to commit its own price or none (Announced), and for      *)
(* every other row a stored one (Backed).                                  *)
(*                                                                         *)
(* StatusIsLatest is not inductive either.  The task decides with the      *)
(* status it has loaded whether to write the column, so it must be known   *)
(* that this copy is still the row's as long as no request has crossed the *)
(* call (CopyHolds).                                                       *)
(*                                                                         *)
(* The invariants of predictions are inductive; they rest on a lemma about *)
(* answers (SuccessNamesAll).                                              *)
(***************************************************************************)
EXTENDS MarketCache, MarketSources, PredictionModels, FiniteSetTheorems, TLAPS

(***************************************************************************)
(* Prices.                                                                 *)
(***************************************************************************)

CachedBy(r, p) == req[r] = "cached" /\ day[r][p] = cache[p]

(* Open fetches have locked different rows.                                *)
Exclusive ==
  \A r, q \in Holders : \A p \in Periods : r # q /\ day[r][p] # 0 => day[q][p] = 0

(* What Redis shows is stored, or brought by a fetch that has set it.      *)
Backed ==
  aside = {} /\ cache # NoEntry =>
    \A p \in Periods :
      cache[p] # 0 /\ cache[p] # db[p] => \E r \in Requests : CachedBy(r, p)

(* For the rows of such a fetch it shows that fetch's price or none.       *)
Announced ==
  aside = {} /\ cache # NoEntry =>
    \A r \in Requests : \A p \in Periods :
      req[r] = "cached" /\ day[r][p] # 0 => cache[p] \in {0, day[r][p]}

CacheSafe == Exclusive /\ Backed /\ Announced

-----------------------------------------------------------------------------
(* What a write brings is a day.                                           *)
LEMMA BatchIsDay ==
  ASSUME writes \in Prices, writes < MaxWrites, NEW P \in SUBSET Periods
  PROVE  Batch(P) \in Days
BY MarketCacheAssumption DEF Batch, Days, Prices

(* A day overlaid with a day is a day.                                     *)
LEMMA OverlayIsDay ==
  ASSUME NEW d \in Days, NEW e \in Days
  PROVE  Overlay(d, e) \in Days
BY DEF Overlay, Days

(* Overlaying a day removes no price.                                      *)
LEMMA OverlayKeeps ==
  ASSUME NEW d, NEW e, NEW p \in Periods, d[p] # 0
  PROVE  Overlay(d, e)[p] # 0
BY DEF Overlay

(* Every step keeps every variable in its type.                            *)
LEMMA CacheTypeStep == TypeOK /\ [Next]_vars => TypeOK'
<1> SUFFICES ASSUME TypeOK, [Next]_vars
             PROVE  TypeOK'
  OBVIOUS
<1> USE MarketCacheAssumption
<1>1. EmptyDay \in Days
  BY DEF EmptyDay, Days, Prices
<1>2. writes < MaxWrites => writes + 1 \in Prices
  BY DEF TypeOK, Prices
<1>3. ASSUME NEW r \in Requests, Upsert(r)
      PROVE  TypeOK'
  <2>1. PICK P \in SUBSET Periods : day' = [day EXCEPT ![r] = Batch(P)]
    BY <1>3 DEF Upsert
  <2>2. Batch(P) \in Days
    BY <1>3, BatchIsDay DEF Upsert, TypeOK
  <2>3. QED
    BY <1>2, <1>3, <2>1, <2>2 DEF Upsert, TypeOK
<1>4. ASSUME NEW r \in Requests, SetCache(r) \/ CacheFails(r)
      PROVE  TypeOK'
  <2>1. CASE SetCache(r)
    BY <2>1 DEF SetCache, TypeOK
  <2>2. CASE CacheFails(r)
    BY <2>2 DEF CacheFails, TypeOK
  <2>3. QED
    BY <1>4, <2>1, <2>2
<1>5. ASSUME NEW r \in Requests, Commit(r)
      PROVE  TypeOK'
  <2>1. Overlay(db, day[r]) \in Days
    BY OverlayIsDay DEF TypeOK
  <2>2. QED
    BY <1>1, <1>5, <2>1 DEF Commit, TypeOK
<1>6. ASSUME NEW r \in Requests, RollBack(r) \/ Fill(r)
      PROVE  TypeOK'
  <2>1. CASE RollBack(r)
    BY <1>1, <2>1 DEF RollBack, TypeOK
  <2>2. CASE Fill(r)
    BY <1>1, <2>2 DEF Fill, TypeOK
  <2>3. QED
    BY <1>6, <2>1, <2>2
<1>7. ASSUME NEW r \in Requests, Miss(r) \/ ReadPrices(r)
      PROVE  TypeOK'
  BY <1>7 DEF Miss, ReadPrices, TypeOK
<1>8. CASE Upload \/ PeriodicFetch
  <2>1. PICK P \in SUBSET Periods : db' = Overlay(db, Batch(P))
    BY <1>8 DEF Upload, PeriodicFetch
  <2>2. Overlay(db, Batch(P)) \in Days
    BY <1>8, BatchIsDay, OverlayIsDay DEF Upload, PeriodicFetch, TypeOK
  <2>3. QED
    BY <1>2, <1>8, <2>1, <2>2 DEF Upload, PeriodicFetch, TypeOK
<1>9. CASE Expire
  BY <1>9 DEF Expire, TypeOK
<1>10. CASE UNCHANGED vars
  BY <1>10 DEF vars, TypeOK
<1>11. QED
  BY <1>3, <1>4, <1>5, <1>6, <1>7, <1>8, <1>9, <1>10 DEF Next, Proceed

(* Database, Redis and requests keep their types, and a request has prices *)
(* in hand only between an answer or a read and its end.                   *)
THEOREM PricesTypeCorrect == Spec => []TypeOK
<1>1. Init => TypeOK
  BY MarketCacheAssumption DEF Init, TypeOK, EmptyDay, Days, Prices
<1>2. QED
  BY <1>1, CacheTypeStep, PTL DEF Spec

-----------------------------------------------------------------------------
(* Whichever writers meet and whichever requests are rolled back, a stored *)
(* price is only ever replaced by another one (bulk_upsert).               *)
THEOREM NoPriceIsLost == Spec => PricesStay
<1>1. ASSUME [Next]_vars, NEW p \in Periods, db[p] # 0
      PROVE  db'[p] # 0
  <2>1. CASE \E r \in Requests : Commit(r)
    BY <1>1, <2>1, OverlayKeeps DEF Commit
  <2>2. CASE Upload \/ PeriodicFetch
    BY <1>1, <2>2, OverlayKeeps DEF Upload, PeriodicFetch
  <2>3. CASE UNCHANGED db
    BY <1>1, <2>3
  <2>4. QED
    BY <1>1, <2>1, <2>2, <2>3
    DEF Next, Proceed, Upsert, Miss, CacheFails, SetCache, ReadPrices, Fill, RollBack, Expire, vars
<1>2. [Next]_vars => [\A p \in Periods : db[p] # 0 => db'[p] # 0]_vars
  BY <1>1
<1>3. QED
  BY <1>2, PTL DEF Spec, PricesStay

-----------------------------------------------------------------------------
(* What has gone aside stays there.                                        *)
LEMMA AsideGrows == [Next]_vars => (aside' = {} => aside = {})
BY DEF Next, Proceed, Upsert, Miss, CacheFails, SetCache, Commit, ReadPrices, Fill, RollBack,
       Upload, PeriodicFetch, Expire, vars

(* Every step keeps what Redis shows backed.                               *)
LEMMA CacheSafeStep == TypeOK /\ CacheSafe /\ [Next]_vars => CacheSafe'
<1> SUFFICES ASSUME TypeOK, CacheSafe, [Next]_vars
             PROVE  CacheSafe'
  OBVIOUS
<1>1. ASSUME UNCHANGED <<db, cache, req, day, aside>>
      PROVE  CacheSafe'
  BY <1>1 DEF CacheSafe, Exclusive, Backed, Announced, Holders, CachedBy
<1>2. ASSUME NEW r \in Requests, Upsert(r)
      PROVE  CacheSafe'
  <2>1. PICK P \in SUBSET Periods : Unlocked(P) /\ day' = [day EXCEPT ![r] = Batch(P)]
    BY <1>2 DEF Upsert
  <2>2. /\ Holders' = Holders \cup {r}
        /\ r \notin Holders
        /\ \A q \in Requests : q # r => day'[q] = day[q] /\ req'[q] = req[q]
        /\ day'[r] = Batch(P) /\ req'[r] = "upserted"
    BY <1>2, <2>1 DEF Upsert, Holders, TypeOK
  <2>3. \A q \in Holders : \A p \in Periods :
          (Batch(P)[p] # 0 => day[q][p] = 0) /\ (day[q][p] # 0 => Batch(P)[p] = 0)
    BY <2>1 DEF Unlocked, Priced, Batch
  <2>4. ASSUME NEW a \in Holders', NEW b \in Holders', NEW p \in Periods,
               a # b, day'[a][p] # 0
        PROVE  day'[b][p] = 0
    <3>1. CASE a = r
      BY <2>2, <2>3, <2>4, <3>1 DEF Holders
    <3>2. CASE b = r
      BY <2>2, <2>3, <2>4, <3>2 DEF Holders
    <3>3. CASE a # r /\ b # r
      BY <2>2, <2>4, <3>3 DEF Exclusive, CacheSafe, Holders
    <3>4. QED
      BY <3>1, <3>2, <3>3
  <2>5. Exclusive'
    BY <2>4 DEF Exclusive
  <2>6. Backed'
    BY <1>2, <2>2 DEF Backed, CacheSafe, CachedBy, Upsert, Holders
  <2>7. Announced'
    BY <1>2, <2>2 DEF Announced, CacheSafe, Upsert
  <2>8. QED
    BY <2>5, <2>6, <2>7 DEF CacheSafe
<1>3. ASSUME NEW r \in Requests, SetCache(r)
      PROVE  CacheSafe'
  <2>1. /\ Holders' = Holders
        /\ r \in Holders
        /\ cache' = day[r] /\ UNCHANGED <<day, db, aside>>
        /\ \A q \in Requests : q # r => req'[q] = req[q]
        /\ req'[r] = "cached"
    BY <1>3 DEF SetCache, Holders, TypeOK
  <2>2. Exclusive'
    BY <2>1 DEF Exclusive, CacheSafe
  <2>3. Backed'
    BY <2>1 DEF Backed, CachedBy
  <2>4. ASSUME NEW q \in Requests, NEW p \in Periods, req'[q] = "cached", day'[q][p] # 0
        PROVE  cache'[p] \in {0, day'[q][p]}
    <3>1. q \in Holders
      BY <2>1, <2>4 DEF Holders
    <3>2. QED
      BY <2>1, <2>4, <3>1 DEF Exclusive, CacheSafe
  <2>5. Announced'
    BY <2>4 DEF Announced
  <2>6. QED
    BY <2>2, <2>3, <2>5 DEF CacheSafe
<1>4. ASSUME NEW r \in Requests, CacheFails(r)
      PROVE  CacheSafe'
  <2>1. Holders' = Holders /\ UNCHANGED day /\ aside' # {}
    BY <1>4 DEF CacheFails, Holders, TypeOK
  <2>2. QED
    BY <2>1 DEF CacheSafe, Exclusive, Backed, Announced
<1>5. ASSUME NEW r \in Requests, Commit(r)
      PROVE  CacheSafe'
  <2>1. /\ Holders' = Holders \ {r}
        /\ \A q \in Requests : q # r => day'[q] = day[q] /\ req'[q] = req[q]
        /\ req[r] = "cached" /\ req'[r] = "idle"
        /\ db' = Overlay(db, day[r]) /\ UNCHANGED <<cache, aside>>
    BY <1>5 DEF Commit, Holders, TypeOK
  <2>2. Exclusive'
    BY <2>1 DEF Exclusive, CacheSafe, Holders
  <2>3. ASSUME aside' = {}, cache' # NoEntry, NEW p \in Periods, cache'[p] # 0, cache'[p] # db'[p]
        PROVE  \E q \in Requests : CachedBy(q, p)'
    <3>1. db'[p] = IF day[r][p] # 0 THEN day[r][p] ELSE db[p]
      BY <2>1 DEF Overlay
    <3>2. day[r][p] = 0
      BY <2>1, <2>3, <3>1 DEF Announced, CacheSafe
    <3>3. PICK q \in Requests : CachedBy(q, p)
      BY <2>1, <2>3, <3>1, <3>2 DEF Backed, CacheSafe
    <3>4. q # r
      BY <2>1, <2>3, <3>2, <3>3 DEF CachedBy
    <3>5. QED
      BY <2>1, <3>3, <3>4 DEF CachedBy
  <2>4. Backed'
    BY <2>3 DEF Backed
  <2>5. Announced'
    BY <2>1 DEF Announced, CacheSafe
  <2>6. QED
    BY <2>2, <2>4, <2>5 DEF CacheSafe
<1>6. ASSUME NEW r \in Requests, RollBack(r)
      PROVE  CacheSafe'
  <2>1. /\ Holders' = Holders \ {r}
        /\ \A q \in Requests : q # r => day'[q] = day[q] /\ req'[q] = req[q]
        /\ req'[r] = "idle" /\ UNCHANGED <<cache, db>>
    BY <1>6 DEF RollBack, Holders, TypeOK
  <2>2. Exclusive'
    BY <2>1 DEF Exclusive, CacheSafe, Holders
  <2>3. CASE req[r] = "cached"
    BY <1>6, <2>2, <2>3 DEF RollBack, CacheSafe, Backed, Announced
  <2>4. CASE req[r] # "cached"
    <3>1. UNCHANGED aside
      BY <1>6, <2>4 DEF RollBack
    <3>2. Backed'
      BY <2>1, <2>4, <3>1 DEF Backed, CachedBy, CacheSafe
    <3>3. Announced'
      BY <2>1, <2>4, <3>1 DEF Announced, CacheSafe
    <3>4. QED
      BY <2>2, <3>2, <3>3 DEF CacheSafe
  <2>5. QED
    BY <2>3, <2>4
<1>7. ASSUME NEW r \in Requests, Miss(r) \/ ReadPrices(r)
      PROVE  CacheSafe'
  <2>1. /\ Holders' = Holders
        /\ r \notin Holders /\ req[r] # "cached" /\ req'[r] # "cached"
        /\ \A q \in Requests : q # r => day'[q] = day[q] /\ req'[q] = req[q]
        /\ UNCHANGED <<cache, db, aside>>
    BY <1>7 DEF Miss, ReadPrices, Holders, TypeOK
  <2>2. Exclusive'
    BY <2>1 DEF Exclusive, CacheSafe, Holders
  <2>3. Backed'
    BY <2>1 DEF Backed, CachedBy, CacheSafe
  <2>4. Announced'
    BY <2>1 DEF Announced, CacheSafe
  <2>5. QED
    BY <2>2, <2>3, <2>4 DEF CacheSafe
<1>8. ASSUME NEW r \in Requests, Fill(r)
      PROVE  CacheSafe'
  <2>1. /\ Holders' = Holders
        /\ r \notin Holders /\ req'[r] = "idle"
        /\ \A q \in Requests : q # r => day'[q] = day[q] /\ req'[q] = req[q]
        /\ cache' = day[r] /\ UNCHANGED db
    BY <1>8 DEF Fill, Holders, TypeOK
  <2>2. Exclusive'
    BY <2>1 DEF Exclusive, CacheSafe, Holders
  <2>3. aside' = {} => day[r] = db /\ Holders = {}
    BY <1>8 DEF Fill
  <2>4. Backed'
    BY <2>1, <2>3 DEF Backed
  <2>5. Announced'
    BY <2>1, <2>3 DEF Announced, Holders
  <2>6. QED
    BY <2>2, <2>4, <2>5 DEF CacheSafe
<1>9. CASE Upload \/ PeriodicFetch
  <2>1. UNCHANGED <<req, day>> /\ aside' # {}
    BY <1>9 DEF Upload, PeriodicFetch
  <2>2. QED
    BY <2>1 DEF CacheSafe, Exclusive, Backed, Announced, Holders
<1>10. CASE Expire
  <2>1. UNCHANGED <<req, day>> /\ cache' = NoEntry
    BY <1>10 DEF Expire
  <2>2. QED
    BY <2>1 DEF CacheSafe, Exclusive, Backed, Announced, Holders
<1>11. CASE UNCHANGED vars
  BY <1>1, <1>11 DEF vars
<1>12. QED
  BY <1>2, <1>3, <1>4, <1>5, <1>6, <1>7, <1>8, <1>9, <1>10, <1>11 DEF Next, Proceed

(* As long as prices come from fetches whose requests succeed, Redis shows *)
(* no price that is neither stored nor about to be (fetch_market_data).    *)
THEOREM FetchesStayInAgreement == Spec => []FetchesAgree
<1>1. Init => TypeOK
  BY MarketCacheAssumption DEF Init, TypeOK, EmptyDay, Days, Prices
<1>2. Init => CacheSafe
  BY DEF Init, CacheSafe, Exclusive, Backed, Announced, Holders
<1>3. CacheSafe => FetchesAgree
  BY DEF CacheSafe, Backed, CachedBy, FetchesAgree, Stale, Holders
<1>4. QED
  BY <1>1, <1>2, <1>3, CacheTypeStep, CacheSafeStep, PTL DEF Spec

(***************************************************************************)
(* Sources.                                                                *)
(***************************************************************************)

(* The task's copy is the row's unless a request has crossed its call.     *)
CopyHolds ==
  current # NoSource /\ current \notin crossed => loaded \in {sourceStatus[current], "unreadable"}

SourceSafe == StatusIsLatest /\ CopyHolds

-----------------------------------------------------------------------------
(* Recording an outcome keeps the types of what it writes.                 *)
LEMMA RecordTypes ==
  ASSUME SourceTypeOK, NEW s \in Sources,
         \/ \E o \in {"success", "failed"} : UpdateFetchStatus(s, o)
         \/ RecordFailure(s)
         \/ RecordSuccess(s)
         \/ UNCHANGED <<sourceStatus, notes>>
  PROVE  /\ sourceStatus' \in [Sources -> Statuses]
         /\ last' \in [Sources -> Statuses]
         /\ crossed' \subseteq Sources
<1> USE DEF SourceTypeOK, Statuses, notes
<1>1. CASE \E o \in {"success", "failed"} : UpdateFetchStatus(s, o)
  BY <1>1 DEF UpdateFetchStatus
<1>2. CASE RecordFailure(s)
  BY <1>2 DEF RecordFailure
<1>3. CASE RecordSuccess(s)
  BY <1>3 DEF RecordSuccess
<1>4. CASE UNCHANGED <<sourceStatus, notes>>
  BY <1>4
<1>5. QED
  BY <1>1, <1>2, <1>3, <1>4

(* There is no source in the beginning.                                    *)
LEMMA SourceBegins == SourceInit => SourceTypeOK
<1> SUFFICES ASSUME SourceInit PROVE SourceTypeOK
  OBVIOUS
<1>1. /\ sourceExists \in [Sources -> {"no", "yes", "gone"}] /\ province \in [Sources -> Provinces]
      /\ sourceStatus \in [Sources -> Statuses] /\ last \in [Sources -> Statuses]
      /\ loaded \in Statuses
  BY DEF SourceInit, Statuses
<1>2. /\ sourceActive \in [Sources -> BOOLEAN] /\ endpoint \in [Sources -> BOOLEAN]
      /\ legible \in [Sources -> BOOLEAN] /\ cut \in BOOLEAN
  BY DEF SourceInit
<1>3. calling \in [SourceRequests -> Sources \cup {NoSource}] /\ current = NoSource
  BY DEF SourceInit
<1>4. todo = {} /\ crossed = {} /\ \A s \in Sources : ~Present(s)
  BY DEF SourceInit, Present
<1>5. QED
  BY <1>1, <1>2, <1>3, <1>4 DEF SourceTypeOK

(* Every step keeps every variable in its type.                            *)
LEMMA SourceTypeStep == SourceTypeOK /\ [SourceNext]_sourceVars => SourceTypeOK'
<1> SUFFICES ASSUME SourceTypeOK, [SourceNext]_sourceVars
             PROVE  SourceTypeOK'
  OBVIOUS
<1> USE MarketSourcesAssumption
<1>1. ASSUME NEW s \in Sources, CreateSource(s)
      PROVE  SourceTypeOK'
  BY <1>1 DEF CreateSource, SourceTypeOK, Present, task, notes, Statuses
<1>2. ASSUME NEW s \in Sources, UpdateSource(s)
      PROVE  SourceTypeOK'
  <2>1. PICK a \in BOOLEAN, e \in BOOLEAN, k \in {TRUE, legible[s]} :
          /\ sourceActive' = [sourceActive EXCEPT ![s] = a]
          /\ endpoint' = [endpoint EXCEPT ![s] = e]
          /\ legible' = [legible EXCEPT ![s] = k]
    BY <1>2 DEF UpdateSource
  <2>2. /\ sourceActive' \in [Sources -> BOOLEAN] /\ endpoint' \in [Sources -> BOOLEAN]
        /\ legible' \in [Sources -> BOOLEAN]
    BY <2>1 DEF SourceTypeOK
  <2>3. QED
    BY <1>2, <2>2 DEF UpdateSource, SourceTypeOK, Present, task, notes
<1>3. ASSUME NEW s \in Sources, DeleteSource(s)
      PROVE  SourceTypeOK'
  BY <1>3 DEF DeleteSource, SourceTypeOK, Present, task, notes
<1>4. ASSUME NEW s \in Sources, RotateSourceKey(s)
      PROVE  SourceTypeOK'
  BY <1>4 DEF RotateSourceKey, SourceTypeOK, Present, task, notes
<1>5. ASSUME NEW s \in Sources, RoundStarts(s)
      PROVE  SourceTypeOK'
  BY <1>5 DEF RoundStarts, Enter, SourceTypeOK, Present, Selected, sourceRow, access, notes
<1>6. ASSUME NEW s \in Sources, RoundContinues(s)
      PROVE  SourceTypeOK'
  <2>1. todo' \subseteq Sources
    BY <1>6 DEF RoundContinues, SourceTypeOK
  <2>2. current' \in Sources \cup {NoSource} /\ loaded' \in Statuses \cup {"unreadable"}
    BY <1>6 DEF RoundContinues, Enter, SourceTypeOK
  <2>3. QED
    BY <1>6, <2>1, <2>2 DEF RoundContinues, SourceTypeOK, Present, sourceRow, access, notes
<1>7. ASSUME NEW s \in Sources, NEW r \in SourceRequests, SourceFetchCalls(r, s)
      PROVE  SourceTypeOK'
  BY <1>7 DEF SourceFetchCalls, SourceTypeOK, Present, sourceRow, access, task, notes
<1>8. ASSUME NEW r \in SourceRequests, SourceFetchRecords(r)
      PROVE  SourceTypeOK'
  <2>1. calling[r] \in Sources
    BY <1>8 DEF SourceFetchRecords, SourceTypeOK
  <2>2. /\ sourceStatus' \in [Sources -> Statuses]
        /\ last' \in [Sources -> Statuses]
        /\ crossed' \subseteq Sources
    BY <1>8, <2>1, RecordTypes DEF SourceFetchRecords
  <2>3. QED
    BY <1>8, <2>2 DEF SourceFetchRecords, SourceTypeOK, Present, access, task
<1>9. CASE RoundRecords
  <2>1. current \in Sources
    BY <1>9 DEF RoundRecords, SourceTypeOK
  <2>2. /\ sourceStatus' \in [Sources -> Statuses]
        /\ last' \in [Sources -> Statuses]
        /\ crossed' \subseteq Sources
    BY <1>9, <2>1, RecordTypes DEF RoundRecords, Outcome
  <2>3. QED
    BY <1>9, <2>2 DEF RoundRecords, SourceTypeOK, Present, access, Statuses
<1>10. CASE RecordingFails \/ SourceRoundLost
  BY <1>10
  DEF RecordingFails, SourceRoundLost, SourceTypeOK, Present, sourceRow, access, notes, Statuses
<1>11. CASE UNCHANGED sourceVars
  BY <1>11 DEF sourceVars, sourceRow, access, task, notes, SourceTypeOK, Present
<1>12. QED
  BY <1>1, <1>2, <1>3, <1>4, <1>5, <1>6, <1>7, <1>8, <1>9, <1>10, <1>11 DEF SourceNext

(* Every variable of the sources keeps its type, and no two sources of one *)
(* province exist at a time (create_source).                               *)
THEOREM SourcesTypeCorrect == SourceSpec => []SourceTypeOK
<1>1. SourceInit => SourceTypeOK
  BY SourceBegins
<1>2. QED
  BY <1>1, SourceTypeStep, PTL DEF SourceSpec

-----------------------------------------------------------------------------
(* A failure is recorded whole while the task calls nobody, or its source. *)
LEMMA FailureSafe ==
  ASSUME SourceTypeOK, SourceSafe, NEW s \in Sources, RecordFailure(s)
  PROVE  StatusIsLatest'
BY DEF RecordFailure, SourceSafe, StatusIsLatest, SourceTypeOK, notes

(* A success is recorded whole, or the column already says so.             *)
LEMMA SuccessSafe ==
  ASSUME SourceTypeOK, SourceSafe, current \in Sources, loaded # "unreadable",
         RecordSuccess(current)
  PROVE  StatusIsLatest'
<1> USE MarketSourcesAssumption
DEF RecordSuccess, SourceSafe, StatusIsLatest, CopyHolds, SourceTypeOK, notes
<1>1. CASE ~Present(current)
  BY <1>1
<1>2. CASE Present(current) /\ loaded = "success"
  BY <1>2
<1>3. CASE Present(current) /\ loaded # "success"
  BY <1>3
<1>4. QED
  BY <1>1, <1>2, <1>3

(* Every step keeps the status the latest.                                 *)
LEMMA SourceSafeStep == SourceTypeOK /\ SourceSafe /\ [SourceNext]_sourceVars => SourceSafe'
<1> SUFFICES ASSUME SourceTypeOK, SourceSafe, [SourceNext]_sourceVars
             PROVE  SourceSafe'
  OBVIOUS
<1> USE MarketSourcesAssumption
<1>1. ASSUME UNCHANGED <<sourceStatus, task, notes>>
      PROVE  SourceSafe'
  BY <1>1 DEF SourceSafe, StatusIsLatest, CopyHolds, task, notes
<1>2. ASSUME NEW s \in Sources,
             CreateSource(s) \/ UpdateSource(s) \/ DeleteSource(s) \/ RotateSourceKey(s)
      PROVE  SourceSafe'
  BY <1>1, <1>2 DEF CreateSource, UpdateSource, DeleteSource, RotateSourceKey
<1>3. ASSUME NEW s \in Sources, NEW r \in SourceRequests, SourceFetchCalls(r, s)
      PROVE  SourceSafe'
  BY <1>1, <1>3 DEF SourceFetchCalls, sourceRow
<1>4. ASSUME NEW s \in Sources, Enter(s), UNCHANGED <<sourceStatus, notes>>
      PROVE  SourceSafe'
  BY <1>4 DEF Enter, SourceSafe, StatusIsLatest, CopyHolds, notes
<1>5. ASSUME NEW s \in Sources, RoundStarts(s)
      PROVE  SourceSafe'
  BY <1>4, <1>5 DEF RoundStarts, sourceRow
<1>6. ASSUME NEW s \in Sources, RoundContinues(s)
      PROVE  SourceSafe'
  <2>1. CASE Present(s) /\ ~Bare(s)
    BY <1>4, <1>6, <2>1 DEF RoundContinues, sourceRow
  <2>2. CASE ~(Present(s) /\ ~Bare(s))
    BY <1>6, <2>2 DEF RoundContinues, SourceSafe, StatusIsLatest, CopyHolds, sourceRow, notes
  <2>3. QED
    BY <2>1, <2>2
<1>7. ASSUME NEW r \in SourceRequests, SourceFetchRecords(r)
      PROVE  SourceSafe'
  <2>1. calling[r] \in Sources /\ UNCHANGED task
    BY <1>7 DEF SourceFetchRecords, SourceTypeOK
  <2>2. CASE UNCHANGED <<sourceStatus, notes>>
    BY <1>1, <2>1, <2>2
  <2>3. ASSUME NEW o \in {"success", "failed"}, UpdateFetchStatus(calling[r], o)
        PROVE  SourceSafe'
    <3> DEFINE s == calling[r]
    <3>1. CASE ~Present(s)
      BY <1>1, <2>1, <2>3, <3>1 DEF UpdateFetchStatus
    <3>2. CASE Present(s) /\ s = current
      BY <2>1, <2>3, <3>2
      DEF UpdateFetchStatus, SourceSafe, StatusIsLatest, CopyHolds, SourceTypeOK, task
    <3>3. CASE Present(s) /\ s # current
      BY <2>1, <2>3, <3>3
      DEF UpdateFetchStatus, SourceSafe, StatusIsLatest, CopyHolds, SourceTypeOK, task
    <3>4. QED
      BY <3>1, <3>2, <3>3
  <2>4. QED
    BY <1>7, <2>2, <2>3 DEF SourceFetchRecords
<1>8. CASE RoundRecords
  <2>1. current \in Sources /\ current' = NoSource
    BY <1>8 DEF RoundRecords, SourceTypeOK
  <2>2. StatusIsLatest'
    BY <1>8, <2>1, FailureSafe, SuccessSafe DEF RoundRecords, Outcome
  <2>3. QED
    BY <2>1, <2>2 DEF SourceSafe, CopyHolds
<1>9. CASE RecordingFails \/ SourceRoundLost
  BY <1>9
  DEF RecordingFails, SourceRoundLost, SourceSafe, StatusIsLatest, CopyHolds, sourceRow, notes
<1>10. CASE UNCHANGED sourceVars
  BY <1>1, <1>10 DEF sourceVars, sourceRow
<1>11. QED
  BY <1>2, <1>3, <1>5, <1>6, <1>7, <1>8, <1>9, <1>10 DEF SourceNext

(* last_fetch_status tells the latest recorded fetch, unless a request has *)
(* recorded one while the task was calling the same source.                *)
THEOREM StatusStaysLatest == SourceSpec => []StatusIsLatest
<1>1. SourceInit => SourceTypeOK
  BY SourceBegins
<1>2. SourceInit => SourceSafe
  BY DEF SourceInit, SourceSafe, StatusIsLatest, CopyHolds
<1>3. SourceSafe => StatusIsLatest
  BY DEF SourceSafe
<1>4. QED
  BY <1>1, <1>2, <1>3, SourceTypeStep, SourceSafeStep, PTL DEF SourceSpec

(***************************************************************************)
(* Predictions.                                                            *)
(***************************************************************************)

USE PredictionAssumption DEF PredictionAssumption

PredictionSafe == SuccessIsWhole /\ PredictionsHaveModels

-----------------------------------------------------------------------------
(* What one answer does.                                                   *)

(* An answer that names no period twice and counts as a success names them *)
(* all: a count alone decides, and it is enough.                           *)
LEMMA SuccessNamesAll ==
  ASSUME NEW a \in Answers, ~Repeats(a), FetchStatus(a) = "success"
  PROVE  Named(a) = DayPeriods
<1> DEFINE V == ValidRecords(a)
           f == [i \in V |-> a[i]]
<1>1. V # {} /\ Cardinality(V) = Cardinality(DayPeriods)
  BY DEF FetchStatus
<1>2. f \in Injection(V, DayPeriods)
  BY DEF Injection, IsInjective, Repeats, ValidRecords
<1>3. f \in Surjection(V, DayPeriods)
  BY <1>1, <1>2, FS_Injection
<1>4. \A p \in DayPeriods : \E i \in V : a[i] = p
  BY <1>3 DEF Surjection
<1>5. QED
  BY <1>4 DEF Named, ValidRecords

(* The outcome of a fetch keeps the types of what it writes.               *)
LEMMA OutcomeTypes ==
  ASSUME PredictionTypeOK, NEW m \in Models, NEW d \in Dates, FetchStores(m, d) \/ FetchFails(m, d)
  PROVE  /\ fetched' \in [Models -> {"none", "success", "partial", "failed"}]
         /\ fetchDate' \in [Models -> Dates]
         /\ stored' \in [Models -> [Dates -> [DayPeriods -> {"none", "latest", "earlier"}]]]
<1>1. CASE FetchFails(m, d)
  BY <1>1 DEF PredictionTypeOK, FetchFails, WriteFetch
<1>2. ASSUME NEW a \in Answers, UpsertPredictions(m, d, a), WriteFetch(m, d, FetchStatus(a))
      PROVE  /\ fetched' \in [Models -> {"none", "success", "partial", "failed"}]
             /\ fetchDate' \in [Models -> Dates]
             /\ stored' \in [Models -> [Dates -> [DayPeriods -> {"none", "latest", "earlier"}]]]
  <2>1. FetchStatus(a) \in {"success", "partial", "failed"}
    BY DEF FetchStatus
  <2>2. fetched' \in [Models -> {"none", "success", "partial", "failed"}]
        /\ fetchDate' \in [Models -> Dates]
    BY <1>2, <2>1 DEF PredictionTypeOK, WriteFetch
  <2> DEFINE new == [p \in DayPeriods |-> IF p \in Named(a) THEN "latest"
                             ELSE IF stored[m][d][p] = "none" THEN "none" ELSE "earlier"]
  <2>3. new \in [DayPeriods -> {"none", "latest", "earlier"}]
    OBVIOUS
  <2>4. stored' = [stored EXCEPT ![m][d] = new]
    BY <1>2 DEF UpsertPredictions
  <2> HIDE DEF new
  <2>5. stored' \in [Models -> [Dates -> [DayPeriods -> {"none", "latest", "earlier"}]]]
    BY <2>3, <2>4 DEF PredictionTypeOK
  <2>6. QED
    BY <2>2, <2>5
<1>3. QED
  BY <1>1, <1>2 DEF FetchStores

(* What a fetch stores stays whole, belongs to a model and removes nothing.*)
LEMMA OutcomeSafe ==
  ASSUME PredictionTypeOK, PredictionSafe, NEW m \in Models, NEW d \in Dates, UNCHANGED exists,
         FetchStores(m, d) \/ FetchFails(m, d)
  PROVE  /\ PredictionSafe'
         /\ \A n \in Models, e \in Dates, p \in DayPeriods :
              stored[n][e][p] # "none" => stored'[n][e][p] # "none"
<1>1. CASE FetchFails(m, d)
  <2>1. UNCHANGED <<exists, stored>>
    BY <1>1 DEF FetchFails
  <2>2. \A n \in Models :
          fetched'[n] = "success" => fetched[n] = "success" /\ fetchDate'[n] = fetchDate[n]
    BY <1>1 DEF PredictionTypeOK, FetchFails, WriteFetch
  <2>3. SuccessIsWhole'
    BY <2>1, <2>2 DEF PredictionSafe, SuccessIsWhole
  <2>4. PredictionsHaveModels'
    BY <2>1 DEF PredictionSafe, PredictionsHaveModels, HasPredictions
  <2>5. QED
    BY <2>1, <2>3, <2>4 DEF PredictionSafe
<1>2. ASSUME NEW a \in Answers, UpsertFits(m, a), UpsertPredictions(m, d, a),
             WriteFetch(m, d, FetchStatus(a))
      PROVE  /\ PredictionSafe'
             /\ \A n \in Models, e \in Dates, p \in DayPeriods :
                  stored[n][e][p] # "none" => stored'[n][e][p] # "none"
  <2> DEFINE new == [p \in DayPeriods |-> IF p \in Named(a) THEN "latest"
                             ELSE IF stored[m][d][p] = "none" THEN "none" ELSE "earlier"]
  <2>1. stored' = [stored EXCEPT ![m][d] = new]
    BY <1>2 DEF UpsertPredictions
  <2>2. /\ \A p \in DayPeriods : stored[m][d][p] # "none" => new[p] # "none"
        /\ FetchStatus(a) = "success" => \A p \in DayPeriods : new[p] = "latest"
    BY <1>2, SuccessNamesAll DEF UpsertFits
  <2> HIDE DEF new
  <2>3. /\ \A n \in Models : n # m => stored'[n] = stored[n]
        /\ \A e \in Dates : e # d => stored'[m][e] = stored[m][e]
        /\ stored'[m][d] = new
    BY <2>1 DEF PredictionTypeOK
  <2>4. /\ fetched' = [fetched EXCEPT ![m] = FetchStatus(a)]
        /\ fetchDate' = [fetchDate EXCEPT ![m] = d]
        /\ exists[m] = "yes"
    BY <1>2 DEF WriteFetch, UpsertFits
  <2>5. SuccessIsWhole'
    BY <2>2, <2>3, <2>4 DEF PredictionTypeOK, PredictionSafe, SuccessIsWhole
  <2>6. PredictionsHaveModels'
    <3> SUFFICES ASSUME NEW n \in Models, n # m, HasPredictions(n)'
                 PROVE  exists'[n] = "yes"
      BY <2>4 DEF PredictionsHaveModels
    <3>1. HasPredictions(n)
      BY <2>3 DEF HasPredictions
    <3>2. QED
      BY <3>1 DEF PredictionSafe, PredictionsHaveModels
  <2>7. \A n \in Models, e \in Dates, p \in DayPeriods :
           stored[n][e][p] # "none" => stored'[n][e][p] # "none"
    BY <2>2, <2>3
  <2>8. QED
    BY <2>5, <2>6, <2>7 DEF PredictionSafe
<1>3. QED
  BY <1>1, <1>2 DEF FetchStores

-----------------------------------------------------------------------------
(* Types.                                                                  *)

(* A round without findings is a round.                                   *)
LEMMA NobodyTyped == Nobody \in UNION {[M -> Findings] : M \in SUBSET Models}
<1>1. Nobody \in [{} -> Findings]
  BY DEF Nobody
<1>2. QED
  BY <1>1

(* Every step keeps every variable in its type.                            *)
LEMMA PredictionTypeStep ==
  ASSUME PredictionTypeOK, [PredictionNext]_predictionVars
  PROVE  PredictionTypeOK'
<1> USE DEF PredictionTypeOK, row, work, Request, IdleReq, Findings, HealthCheck, StatusOf
<1>1. CASE UNCHANGED predictionVars
  BY <1>1 DEF predictionVars
<1>2. CASE RotateKey
  BY <1>2 DEF RotateKey
<1>3. CASE RoundLost
  <2>1. ASSUME NEW h \in HealthRounds, health' = [health EXCEPT ![h] = Nobody], UNCHANGED fetch
        PROVE  PredictionTypeOK'
    BY <1>3, <2>1, NobodyTyped DEF RoundLost
  <2>2. ASSUME NEW f \in FetchRounds, fetch' = [fetch EXCEPT ![f] = {}], UNCHANGED health
        PROVE  PredictionTypeOK'
    BY <1>3, <2>2 DEF RoundLost
  <2>3. QED
    BY <1>3, <2>1, <2>2 DEF RoundLost
<1>4. ASSUME NEW m \in Models, CreateModel(m)
      PROVE  PredictionTypeOK'
  BY <1>4 DEF CreateModel
<1>5. ASSUME NEW m \in Models, UpdateModel(m)
      PROVE  PredictionTypeOK'
  BY <1>5 DEF UpdateModel
<1>6. ASSUME NEW m \in Models, DeleteModel(m)
      PROVE  PredictionTypeOK'
  BY <1>6 DEF DeleteModel
<1>7. ASSUME NEW m \in Models, EndpointChanges(m)
      PROVE  PredictionTypeOK'
  BY <1>7 DEF EndpointChanges
<1>8. ASSUME NEW r \in PredictionRequests, NEW m \in Models, TestCalls(r, m)
      PROVE  PredictionTypeOK'
  BY <1>8 DEF TestCalls
<1>9. ASSUME NEW r \in PredictionRequests, NEW m \in Models, NEW d \in Dates, FetchCalls(r, m, d)
      PROVE  PredictionTypeOK'
  BY <1>9 DEF FetchCalls
<1>10. ASSUME NEW r \in PredictionRequests, TestRecords(r)
       PROVE  PredictionTypeOK'
  BY <1>10 DEF TestRecords, WriteStatus
<1>11. ASSUME NEW r \in PredictionRequests, FetchRecords(r)
       PROVE  PredictionTypeOK'
  <2>1. modelReq[r].model \in Models /\ modelReq[r].date \in Dates
    BY <1>11 DEF FetchRecords
  <2>2. /\ fetched' \in [Models -> {"none", "success", "partial", "failed"}]
        /\ fetchDate' \in [Models -> Dates]
        /\ stored' \in [Models -> [Dates -> [DayPeriods -> {"none", "latest", "earlier"}]]]
    BY <1>11, <2>1, OutcomeTypes DEF FetchRecords
  <2>3. QED
    BY <1>11, <2>2 DEF FetchRecords
<1>12. ASSUME NEW h \in HealthRounds, HealthCalls(h)
       PROVE  PredictionTypeOK'
  <2> DEFINE found == [m \in Checked |-> HealthCheck(m)]
  <2>1. Checked \in SUBSET Models /\ found \in [Checked -> Findings]
    BY DEF Checked
  <2>2. found \in UNION {[M -> Findings] : M \in SUBSET Models}
    BY <2>1
  <2> HIDE DEF found
  <2>3. QED
    BY <1>12, <2>2 DEF HealthCalls, found
<1>13. ASSUME NEW h \in HealthRounds, NEW m \in Models, HealthRecords(h, m)
       PROVE  PredictionTypeOK'
  <2> DEFINE rest == [n \in DOMAIN health[h] \ {m} |-> health[h][n]]
  <2>1. PICK M \in SUBSET Models : health[h] \in [M -> Findings]
    OBVIOUS
  <2>2. M \ {m} \in SUBSET Models /\ rest \in [M \ {m} -> Findings]
    BY <2>1
  <2>3. rest \in UNION {[N -> Findings] : N \in SUBSET Models}
    BY <2>2
  <2>4. health' = [health EXCEPT ![h] = rest]
    BY <1>13 DEF HealthRecords
  <2> HIDE DEF rest
  <2>5. QED
    BY <1>13, <2>3, <2>4, ZenonT(40) DEF HealthRecords, WriteStatus
<1>14. ASSUME NEW f \in FetchRounds, FetchRoundCalls(f)
       PROVE  PredictionTypeOK'
  BY <1>14 DEF FetchRoundCalls, Fetched
<1>15. ASSUME NEW f \in FetchRounds, NEW m \in Models, FetchRoundRecords(f, m)
       PROVE  PredictionTypeOK'
  BY <1>15, OutcomeTypes DEF FetchRoundRecords
<1>16. QED
  BY <1>1, <1>2, <1>3, <1>4, <1>5, <1>6, <1>7, <1>8, <1>9, <1>10, <1>11,
     <1>12, <1>13, <1>14, <1>15
  DEF PredictionNext

(* The models' state keeps its type, and no model is left unwatched.       *)
THEOREM PredictionsTypeCorrect == PredictionSpec => []PredictionTypeOK
<1>1. PredictionInit => PredictionTypeOK
  BY NobodyTyped DEF PredictionInit, PredictionTypeOK, Request, IdleReq
<1>2. QED
  BY <1>1, PredictionTypeStep, PTL DEF PredictionSpec

-----------------------------------------------------------------------------
(* Safety.                                                                 *)

(* Every step keeps what is stored: whole, with a model and in place.      *)
LEMMA PredictionSafeStep ==
  ASSUME PredictionTypeOK, PredictionSafe, [PredictionNext]_predictionVars
  PROVE  /\ PredictionSafe'
         /\ \A n \in Models, e \in Dates, p \in DayPeriods :
              stored[n][e][p] # "none" => stored'[n][e][p] # "none"
<1> DEFINE Goal ==
      /\ PredictionSafe'
      /\ \A n \in Models, e \in Dates, p \in DayPeriods :
           stored[n][e][p] # "none" => stored'[n][e][p] # "none"
<1>1. ASSUME UNCHANGED <<exists, fetched, fetchDate, stored>>
      PROVE  Goal
  BY <1>1 DEF PredictionSafe, SuccessIsWhole, PredictionsHaveModels, HasPredictions
<1>2. CASE UNCHANGED predictionVars \/ RotateKey \/ RoundLost
  BY <1>1, <1>2 DEF predictionVars, row, RotateKey, RoundLost
<1>3. ASSUME NEW m \in Models, CreateModel(m)
      PROVE  Goal
  BY <1>3
  DEF PredictionTypeOK, CreateModel, PredictionSafe, SuccessIsWhole, PredictionsHaveModels,
      HasPredictions
<1>4. ASSUME NEW m \in Models, UpdateModel(m) \/ EndpointChanges(m)
      PROVE  Goal
  BY <1>1, <1>4 DEF UpdateModel, EndpointChanges, row
<1>5. ASSUME NEW m \in Models, DeleteModel(m)
      PROVE  Goal
  BY <1>5
  DEF PredictionTypeOK, DeleteModel, PredictionSafe, SuccessIsWhole, PredictionsHaveModels,
      HasPredictions
<1>6. ASSUME NEW r \in PredictionRequests, NEW m \in Models,
             TestCalls(r, m) \/ \E d \in Dates : FetchCalls(r, m, d)
      PROVE  Goal
  BY <1>1, <1>6 DEF TestCalls, FetchCalls, row
<1>7. ASSUME NEW r \in PredictionRequests, TestRecords(r)
      PROVE  Goal
  BY <1>1, <1>7 DEF TestRecords
<1>8. ASSUME NEW r \in PredictionRequests, FetchRecords(r)
      PROVE  Goal
  <2>1. modelReq[r].model \in Models /\ modelReq[r].date \in Dates
    BY <1>8 DEF PredictionTypeOK, Request, IdleReq, FetchRecords
  <2>2. CASE UNCHANGED <<fetched, fetchDate, stored>>
    BY <1>1, <1>8, <2>2 DEF FetchRecords
  <2>3. CASE \/ FetchStores(modelReq[r].model, modelReq[r].date)
             \/ FetchFails(modelReq[r].model, modelReq[r].date)
    BY <1>8, <2>1, <2>3, OutcomeSafe DEF FetchRecords
  <2>4. QED
    BY <1>8, <2>2, <2>3 DEF FetchRecords
<1>9. ASSUME NEW h \in HealthRounds,
             HealthCalls(h) \/ \E m \in Models : HealthRecords(h, m)
      PROVE  Goal
  BY <1>1, <1>9 DEF HealthCalls, HealthRecords, row
<1>10. ASSUME NEW f \in FetchRounds, FetchRoundCalls(f)
       PROVE  Goal
  BY <1>1, <1>10 DEF FetchRoundCalls, row
<1>11. ASSUME NEW f \in FetchRounds, NEW m \in Models, FetchRoundRecords(f, m)
       PROVE  Goal
  BY <1>11, OutcomeSafe DEF FetchRoundRecords
<1>12. QED
  BY <1>2, <1>3, <1>4, <1>5, <1>6, <1>7, <1>8, <1>9, <1>10, <1>11 DEF PredictionNext

(* The invariants hold at the start and after every step.                  *)
LEMMA PredictionInvariance == PredictionSpec => [](PredictionTypeOK /\ PredictionSafe)
<1>1. PredictionInit => PredictionSafe
  BY DEF PredictionInit, PredictionSafe, SuccessIsWhole, PredictionsHaveModels, HasPredictions
<1>2. PredictionTypeOK /\ PredictionSafe /\ [PredictionNext]_predictionVars => PredictionSafe'
  BY PredictionSafeStep
<1>3. QED
  BY <1>1, <1>2, PredictionsTypeCorrect, PTL DEF PredictionSpec

(* A model whose last fetch succeeded has the whole day of that one answer.*)
THEOREM SuccessesAreWhole == PredictionSpec => []SuccessIsWhole
<1>1. PredictionSafe => SuccessIsWhole
  BY DEF PredictionSafe
<1>2. QED
  BY <1>1, PredictionInvariance, PTL

(* No prediction is without its model.                                     *)
THEOREM NoOrphans == PredictionSpec => []PredictionsHaveModels
<1>1. PredictionSafe => PredictionsHaveModels
  BY DEF PredictionSafe
<1>2. QED
  BY <1>1, PredictionInvariance, PTL

(* No step takes a stored prediction away.                                 *)
THEOREM NothingIsUnstored == PredictionSpec => PredictionsStay
<1>1. PredictionTypeOK /\ PredictionSafe /\ [PredictionNext]_predictionVars =>
        [\A m \in Models, d \in Dates, p \in DayPeriods :
           stored[m][d][p] # "none" => stored'[m][d][p] # "none"]_predictionVars
  BY PredictionSafeStep
<1>2. QED
  BY <1>1, PredictionInvariance, PTL DEF PredictionSpec, PredictionsStay
=============================================================================
