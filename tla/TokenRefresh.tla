---------------------------- MODULE TokenRefresh ----------------------------
(***************************************************************************)
(* The HTTP client of the web frontend: requests that meet an expired      *)
(* access token share one refresh and are sent again, once                 *)
(* (api/client.ts, stores/auth.ts, services/auth_service.py).              *)
(*                                                                         *)
(* Tokens are numbered as they are issued and expire in that order.        *)
(***************************************************************************)
EXTENDS Naturals

CONSTANTS Requests, None

VARIABLES
  issued,   \* tokens the server has issued so far
  live,     \* the oldest token that has not expired
  token,    \* the token of the local storage
  stage,    \* of every request
  sentWith, \* the token it was sent with
  retried,  \* requests with _retry
  leader,   \* the request that refreshes: isRefreshing
  away      \* the browser is on its way to the login page

vars == <<issued, live, token, stage, sentWith, retried, leader, away>>

Settled == {"done", "failed"}
Queue == {r \in Requests : stage[r] = "queued"}    \* pendingRequests

Init ==
  /\ issued = 1
  /\ live = 1
  /\ token = 1
  /\ stage = [r \in Requests |-> "idle"]
  /\ sentWith = [r \in Requests |-> None]
  /\ retried = {}
  /\ leader = None
  /\ away = FALSE

Expire ==
  /\ live <= issued
  /\ live' = live + 1
  /\ UNCHANGED <<issued, token, stage, sentWith, retried, leader, away>>

Send(r) ==
  /\ ~away
  /\ stage[r] = "idle"
  /\ stage' = [stage EXCEPT ![r] = "sent"]
  /\ sentWith' = [sentWith EXCEPT ![r] = token]
  /\ UNCHANGED <<issued, live, token, retried, leader, away>>

ToLogin == token' = None /\ away' = TRUE

Succeeds(r) ==
  /\ sentWith[r] # None
  /\ sentWith[r] >= live
  /\ stage' = [stage EXCEPT ![r] = "done"]
  /\ UNCHANGED <<token, retried, leader, away>>

\* Any error but a 401, a timeout, or a token that has expired once more.
Fails(r) ==
  /\ stage' = [stage EXCEPT ![r] = "failed"]
  /\ UNCHANGED <<token, retried, leader, away>>

\* A 401 of another kind: no token, an invalid one, or a refused user.
Unauthorized(r) ==
  /\ stage' = [stage EXCEPT ![r] = "failed"]
  /\ ToLogin
  /\ UNCHANGED <<retried, leader>>

\* The first one refreshes, the others wait.
MeetsExpired(r) ==
  /\ sentWith[r] # None
  /\ sentWith[r] < live
  /\ r \notin retried
  /\ retried' = retried \union {r}
  /\ IF leader = None
     THEN leader' = r /\ stage' = [stage EXCEPT ![r] = "refreshing"]
     ELSE stage' = [stage EXCEPT ![r] = "queued"] /\ UNCHANGED leader
  /\ UNCHANGED <<token, away>>

Answer(r) ==
  /\ stage[r] = "sent"
  /\ Succeeds(r) \/ Fails(r) \/ Unauthorized(r) \/ MeetsExpired(r)
  /\ UNCHANGED <<issued, live, sentWith>>

\* Slip: the queue is emptied and its requests are not rejected.
RejectLeader == stage' = [stage EXCEPT ![leader] = "failed"]

\* onRefreshFailed, and the rejection of the leader.
RejectAll == stage' = [r \in Requests |-> IF r \in Queue \union {leader} THEN "failed" ELSE stage[r]]

RefreshFails ==
  /\ leader # None
  /\ RejectAll
  /\ ToLogin
  /\ leader' = None
  /\ UNCHANGED <<issued, live, sentWith, retried>>

\* onRefreshed, and the leader's own request.
RefreshSucceeds == LET again == Queue \union {leader} IN
  /\ leader # None
  /\ issued' = issued + 1
  /\ token' = issued'
  /\ stage' = [r \in Requests |-> IF r \in again THEN "sent" ELSE stage[r]]
  /\ sentWith' = [r \in Requests |-> IF r \in again THEN issued' ELSE sentWith[r]]
  /\ leader' = None
  /\ UNCHANGED <<live, retried, away>>

\* clearAuth, at the end of a logout.
LogOut ==
  /\ token # None
  /\ token' = None
  /\ UNCHANGED <<issued, live, stage, sentWith, retried, leader, away>>

Next ==
  \/ Expire \/ LogOut \/ RefreshFails \/ RefreshSucceeds
  \/ \E r \in Requests : Send(r) \/ Answer(r)

Spec == Init /\ [][Next]_vars

\* Both clients have a timeout.
Fairness ==
  /\ WF_vars(RefreshFails \/ RefreshSucceeds)
  /\ \A r \in Requests : WF_vars(Answer(r))

FairSpec == Spec /\ Fairness

-----------------------------------------------------------------------------
\* Every request that is sent is answered or rejected in the end: whoever
\* comes to the queue while a refresh is under way is sent again or rejected
\* with it, also when tokens expire once more, answers of one refresh come
\* after the next and the refresh itself fails.
RequestsSettle == \A r \in Requests : stage[r] = "sent" ~> stage[r] \in Settled
=============================================================================
