---------------------------- MODULE MarketCache ----------------------------
(***************************************************************************)
(* The clearing prices of one province and trading date: the database, the *)
(* Redis entry beside it, and everybody who writes either of them          *)
(* (services/market_data_service.py, repositories/market_data.py,          *)
(* tasks/market_data_tasks.py, api/v1/market_data.py).                     *)
(*                                                                         *)
(* A fetch upserts what the source answered (and then holds those rows),   *)
(* sets the Redis entry, and commits when its request ends.  The upload of *)
(* a file and the periodic task write the database only.  get_market_data  *)
(* looks in Redis, then in the database, whose answer it puts into Redis,  *)
(* and then fetches; it belongs to the service and no route calls it yet.  *)
(*                                                                         *)
(* A price is the number of the write that brought it; 0 is no price.      *)
(***************************************************************************)
EXTENDS Integers

CONSTANTS
  Periods,   \* the periods of the day: 96 in the code
  Requests,  \* requests that fetch or read
  MaxWrites, \* bound: answers and uploads
  NoEntry    \* Redis has no entry for the day

ASSUME MarketCacheAssumption ==
  /\ MaxWrites \in Nat
  /\ NoEntry \notin [Periods -> 0 .. MaxWrites]

Prices == 0 .. MaxWrites
Days == [Periods -> Prices]
EmptyDay == [p \in Periods |-> 0]

VARIABLES
  db,     \* the committed prices
  cache,  \* the Redis entry
  writes, \* answers and uploads so far
  req,    \* where each request stands
  day,    \* the prices a request has been given, by the source or the database
  aside   \* history: which ways around a fetch have been taken

vars == <<db, cache, writes, req, day, aside>>

(* A fetch between its upsert and the end of its request.                  *)
Holders == {r \in Requests : req[r] \in {"upserted", "cached"}}

Priced(d) == {p \in Periods : d[p] # 0}

(* The rows of an upsert that overlaps an open one are locked.             *)
Unlocked(P) == \A r \in Holders : P \cap Priced(day[r]) = {}

Overlay(d, e) == [p \in Periods |-> IF e[p] # 0 THEN e[p] ELSE d[p]]

(* What a write brings: a new price for each of some periods.              *)
Batch(P) == [p \in Periods |-> IF p \in P THEN writes + 1 ELSE 0]

Init ==
  /\ db = EmptyDay
  /\ cache = NoEntry
  /\ writes = 0
  /\ req = [r \in Requests |-> "idle"]
  /\ day = [r \in Requests |-> EmptyDay]
  /\ aside = {}

-----------------------------------------------------------------------------
(* fetch_market_data, from the route or from a read that found nothing.    *)

(* Slip: the entry is set before the rows are locked.                      *)
UpsertUnlocked(r) ==
  /\ req[r] \in {"idle", "nothing"}
  /\ writes < MaxWrites
  /\ writes' = writes + 1
  /\ \E P \in SUBSET Periods : day' = [day EXCEPT ![r] = Batch(P)]
  /\ req' = [req EXCEPT ![r] = "upserted"]
  /\ UNCHANGED <<db, cache, aside>>

(* The source answers for some of the periods (or for none) and bulk_upsert *)
(* writes them, once no open upsert holds one of the rows.                 *)
Upsert(r) ==
  /\ req[r] \in {"idle", "nothing"}
  /\ writes < MaxWrites
  /\ writes' = writes + 1
  /\ \E P \in SUBSET Periods :
       /\ Unlocked(P)
       /\ day' = [day EXCEPT ![r] = Batch(P)]
  /\ req' = [req EXCEPT ![r] = "upserted"]
  /\ UNCHANGED <<db, cache, aside>>

(* _set_cache replaces the entry by this answer alone, before the commit.  *)
SetCache(r) ==
  /\ req[r] = "upserted"
  /\ cache' = day[r]
  /\ req' = [req EXCEPT ![r] = "cached"]
  /\ UNCHANGED <<db, writes, day, aside>>

(* Redis cannot be reached: the entry stays as it is.                      *)
CacheFails(r) ==
  /\ req[r] = "upserted"
  /\ req' = [req EXCEPT ![r] = "cached"]
  /\ aside' = aside \cup {"redis"}
  /\ UNCHANGED <<db, cache, writes, day>>

Commit(r) ==
  /\ req[r] = "cached"
  /\ db' = Overlay(db, day[r])
  /\ req' = [req EXCEPT ![r] = "idle"]
  /\ day' = [day EXCEPT ![r] = EmptyDay]
  /\ UNCHANGED <<cache, writes, aside>>

(* The source fails, a row is refused by the database, or the request dies: *)
(* the transaction is rolled back, the Redis entry is not.                 *)
RollBack(r) ==
  /\ req[r] # "idle"
  /\ req' = [req EXCEPT ![r] = "idle"]
  /\ day' = [day EXCEPT ![r] = EmptyDay]
  /\ aside' = IF req[r] = "cached" THEN aside \cup {"rollback"} ELSE aside
  /\ UNCHANGED <<db, cache, writes>>

-----------------------------------------------------------------------------
(* get_market_data.  A hit changes nothing.                                *)

(* There is no entry, or Redis cannot be asked for it.                     *)
Miss(r) ==
  /\ req[r] = "idle"
  /\ req' = [req EXCEPT ![r] = "missed"]
  /\ UNCHANGED <<db, cache, writes, day, aside>>

(* get_by_province_date: what it finds is to be put into Redis; if it      *)
(* finds nothing, the read goes on as a fetch.                             *)
ReadPrices(r) ==
  /\ req[r] = "missed"
  /\ IF db = EmptyDay
     THEN req' = [req EXCEPT ![r] = "nothing"] /\ UNCHANGED day
     ELSE req' = [req EXCEPT ![r] = "filling"] /\ day' = [day EXCEPT ![r] = db]
  /\ UNCHANGED <<db, cache, writes, aside>>

(* _set_cache_raw: a fill is aside when a fetch has overtaken it.          *)
Fill(r) ==
  /\ req[r] = "filling"
  /\ cache' = day[r]
  /\ aside' = IF day[r] # db \/ Holders # {} THEN aside \cup {"fill"} ELSE aside
  /\ req' = [req EXCEPT ![r] = "idle"]
  /\ day' = [day EXCEPT ![r] = EmptyDay]
  /\ UNCHANGED <<db, writes>>

-----------------------------------------------------------------------------
(* Writers that leave Redis alone, each in one transaction.                *)

(* upload_market_data and import_market_data_from_records: rows that do    *)
(* not parse are skipped, the others stored together.                      *)
Upload ==
  /\ writes < MaxWrites
  /\ \E P \in SUBSET Periods \ {{}} :
       /\ Unlocked(P)
       /\ db' = Overlay(db, Batch(P))
  /\ writes' = writes + 1
  /\ aside' = aside \cup {"upload"}
  /\ UNCHANGED <<cache, req, day>>

(* fetch_market_data_periodic, for this province.                          *)
PeriodicFetch ==
  /\ writes < MaxWrites
  /\ \E P \in SUBSET Periods :
       /\ Unlocked(P)
       /\ db' = Overlay(db, Batch(P))
  /\ writes' = writes + 1
  /\ aside' = aside \cup {"periodic"}
  /\ UNCHANGED <<cache, req, day>>

(* Slip: an entry with prices is kept.                                     *)
ExpireEmpty ==
  /\ cache # NoEntry
  /\ cache = EmptyDay
  /\ cache' = NoEntry
  /\ UNCHANGED <<db, writes, req, day, aside>>

(* Every entry is set with a time to live (setex).                         *)
Expire ==
  /\ cache # NoEntry
  /\ cache' = NoEntry
  /\ UNCHANGED <<db, writes, req, day, aside>>

-----------------------------------------------------------------------------
(* What a request does once it has begun.                                  *)
Proceed(r) == SetCache(r) \/ Commit(r) \/ ReadPrices(r) \/ Fill(r) \/ RollBack(r)

Next ==
  \/ \E r \in Requests : Upsert(r) \/ Miss(r) \/ CacheFails(r) \/ Proceed(r)
  \/ Upload \/ PeriodicFetch \/ Expire

Spec == Init /\ [][Next]_vars

(* Requests end, and Redis removes an entry whose time has run out.        *)
Fairness == WF_vars(Expire) /\ \A r \in Requests : WF_vars(Proceed(r))

FairSpec == Spec /\ Fairness

-----------------------------------------------------------------------------
(* Properties.                                                             *)

(* Every variable stays in the set the code and the schema give it, and a  *)
(* request has prices in hand only between a read or an answer and its end. *)
TypeOK ==
  /\ db \in Days
  /\ cache \in Days \cup {NoEntry}
  /\ writes \in Prices
  /\ req \in [Requests -> {"idle", "missed", "nothing", "filling", "upserted", "cached"}]
  /\ day \in [Requests -> Days]
  /\ aside \subseteq {"redis", "rollback", "fill", "upload", "periodic"}
  /\ \A r \in Requests : req[r] \in {"idle", "missed", "nothing"} => day[r] = EmptyDay

(* The entry shows a price that is neither stored nor about to be.         *)
Stale(p) ==
  /\ cache # NoEntry
  /\ cache[p] # 0
  /\ cache[p] # db[p]
  /\ ~\E r \in Holders : day[r][p] = cache[p]

(* Fetches agree: as long as prices come from fetches whose requests       *)
(* succeed, Redis never shows a price that the database does not have or   *)
(* is just given, because the entry is set while the rows are locked.      *)
FetchesAgree == aside = {} => \A p \in Periods : ~Stale(p)

(* Prices stay: whichever writers meet, and whichever requests are rolled  *)
(* back, a stored price is only ever replaced by another one.              *)
PricesStay == [][\A p \in Periods : db[p] # 0 => db'[p] # 0]_vars

(* Staleness ends: when nobody writes any more, Redis shows nothing but    *)
(* the stored day from some time on, although uploads, the periodic task,  *)
(* overtaken fills and partial answers leave other days in it.             *)
StalenessEnds == <>[](cache \in {NoEntry, db})
=============================================================================
