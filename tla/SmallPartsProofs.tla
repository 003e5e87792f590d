-------------------------- MODULE SmallPartsProofs --------------------------
(***************************************************************************)
(* Safety of the small parts, for any number of users, provinces, jobs and *)
(* requests.                                                               *)
(***************************************************************************)
EXTENDS MCSmallParts, FiniteSetTheorems, TLAPS

(* Whoever waits for a refresh waits for the leader's.                     *)
NobodyWaitsAlone ==
  /\ \A r \in Sent : stage[r] = "refreshing" <=> leader = r
  /\ \A r \in Sent : stage[r] = "queued" => leader # None

-----------------------------------------------------------------------------
(* Accounts.  A request that is about to write never takes the rights of   *)
(* an administrator from the one who asked for it (Considerate).           *)

Stages == {"idle", "authorized", "create", "toggle", "assign"}

AccountRequest ==
  [stage : Stages, by : Users \union {None}, target : Users \union {None},
   to : Roles \union BOOLEAN \union {None}]

AccountsTyped ==
  /\ exists \subseteq Users
  /\ role \in [Users -> Roles]
  /\ active \in [Users -> BOOLEAN]
  /\ req \in [Requests -> AccountRequest]
  /\ late \in BOOLEAN

ConsiderateOf(q) ==
  /\ q.stage = "toggle" => q.target # q.by /\ q.to \in BOOLEAN
  /\ q.stage = "assign" => (q.target = q.by => q.to = "admin")
  /\ q.stage \in {"create", "assign"} => q.to \in Roles
  /\ q.stage \in {"create", "toggle", "assign"} => q.target \in Users

Considerate == \A r \in Requests : ConsiderateOf(req[r])

AccountsSafe == AccountsTyped /\ Considerate /\ AdministratorRemains

(* The initial accounts are safe: somebody can log in.                     *)
LEMMA AccountsBegin == Accounts!Init => AccountsSafe
<1> SUFFICES ASSUME Accounts!Init
             PROVE  AccountsSafe
  OBVIOUS
<1>1. AccountsTyped
  BY DEF Accounts!Init, Accounts!Idle, AccountsTyped, AccountRequest, Stages
<1>2. Considerate
  BY DEF Accounts!Init, Accounts!Idle, Considerate, ConsiderateOf
<1>3. AdministratorRemains
  BY DEF Accounts!Init, AdministratorRemains, Accounts!AdministratorRemains
<1>4. QED
  BY <1>1, <1>2, <1>3 DEF AccountsSafe

(* A step that changes one request only.                                   *)
LEMMA AccountsQuiet ==
  ASSUME AccountsSafe, NEW r \in Requests, NEW q \in AccountRequest,
         req' = [req EXCEPT ![r] = q],
         UNCHANGED <<exists, role, active, late>>,
         ConsiderateOf(q)
  PROVE  AccountsSafe'
<1>1. AccountsTyped'
  BY DEF AccountsSafe, AccountsTyped
<1>2. Considerate'
  BY DEF AccountsSafe, AccountsTyped, Considerate
<1>3. AdministratorRemains'
  BY
  DEF AccountsSafe, AdministratorRemains, Accounts!AdministratorRemains,
      Accounts!Administrator
<1>4. QED
  BY <1>1, <1>2, <1>3 DEF AccountsSafe

(* Every step keeps an administrator, unless a late one has been written.  *)
LEMMA AccountsStep == AccountsSafe /\ [Accounts!Next]_accountsVars => AccountsSafe'
<1> SUFFICES ASSUME AccountsSafe, [Accounts!Next]_accountsVars
             PROVE  AccountsSafe'
  OBVIOUS
<1>1. CASE UNCHANGED accountsVars
  BY <1>1 DEF accountsVars, AccountsSafe, AccountsTyped, Considerate, AdministratorRemains,
              Accounts!AdministratorRemains, Accounts!Administrator
<1>2. ASSUME NEW r \in Requests, Accounts!Authorize(r)
      PROVE  AccountsSafe'
  <2>1. PICK u \in Users : req' = [req EXCEPT ![r] = [@ EXCEPT !.stage = "authorized", !.by = u]]
    BY <1>2 DEF Accounts!Authorize, AccountsSafe, AccountsTyped, AccountRequest
  <2> DEFINE q == [req[r] EXCEPT !.stage = "authorized", !.by = u]
  <2>2. q \in AccountRequest /\ q.stage = "authorized"
    BY DEF AccountsSafe, AccountsTyped, AccountRequest, Stages
  <2>3. ConsiderateOf(q)
    BY <2>2 DEF ConsiderateOf
  <2>4. QED
    BY <1>2, <2>1, <2>2, <2>3, AccountsQuiet DEF Accounts!Authorize
<1>3. ASSUME NEW r \in Requests, NEW t \in Users, NEW st \in {"create", "toggle", "assign"},
             NEW to \in Roles \union BOOLEAN, Accounts!Prepare(r, t, st, to),
             st = "toggle" => t # req[r].by /\ to \in BOOLEAN,
             st = "assign" => (t = req[r].by => to = "admin"),
             st # "toggle" => to \in Roles
      PROVE  AccountsSafe'
  <2> DEFINE q == [req[r] EXCEPT !.stage = st, !.target = t, !.to = to]
  <2>1. req' = [req EXCEPT ![r] = q]
    BY <1>3 DEF Accounts!Prepare, AccountsSafe, AccountsTyped, AccountRequest
  <2>2. q \in AccountRequest
    BY DEF AccountsSafe, AccountsTyped, AccountRequest, Stages
  <2>3. q.stage = st /\ q.target = t /\ q.to = to /\ q.by = req[r].by
    BY DEF AccountsSafe, AccountsTyped, AccountRequest
  <2>4. ConsiderateOf(q)
    BY <1>3, <2>3 DEF ConsiderateOf
  <2>5. QED
    BY <1>3, <2>1, <2>2, <2>4, AccountsQuiet DEF Accounts!Prepare
<1>4. ASSUME NEW r \in Requests,
             Accounts!ToCreate(r) \/ Accounts!ToToggle(r) \/ Accounts!ToAssign(r)
      PROVE  AccountsSafe'
  <2>1. exists \subseteq Users
    BY DEF AccountsSafe, AccountsTyped
  <2>2. CASE Accounts!ToCreate(r)
    BY <1>3, <2>2 DEF Accounts!ToCreate
  <2>3. CASE Accounts!ToToggle(r)
    BY <1>3, <2>1, <2>3 DEF Accounts!ToToggle
  <2>4. CASE Accounts!ToAssign(r)
    BY <1>3, <2>1, <2>4 DEF Accounts!ToAssign
  <2>5. QED
    BY <1>4, <2>2, <2>3, <2>4
<1>5. ASSUME NEW r \in Requests, Accounts!Refuse(r)
      PROVE  AccountsSafe'
  <2>1. Accounts!Idle \in AccountRequest /\ ConsiderateOf(Accounts!Idle)
    BY DEF AccountRequest, Stages, Accounts!Idle, ConsiderateOf
  <2>2. QED
    BY <1>5, <2>1, AccountsQuiet DEF Accounts!Refuse, Accounts!Ends
<1>6. ASSUME NEW r \in Requests, Accounts!Write(r)
      PROVE  AccountsSafe'
  <2>1. /\ req' = [req EXCEPT ![r] = Accounts!Idle]
        /\ req[r] \in AccountRequest /\ ConsiderateOf(req[r])
        /\ late' = (late \/ ~Accounts!Administrator(req[r].by))
    BY <1>6 DEF Accounts!Write, Accounts!Ends, AccountsSafe, AccountsTyped, Considerate
  <2>2. Accounts!Idle \in AccountRequest /\ ConsiderateOf(Accounts!Idle)
    BY DEF AccountRequest, Stages, Accounts!Idle, ConsiderateOf
  <2>3. req' \in [Requests -> AccountRequest] /\ Considerate'
    BY <2>1, <2>2 DEF AccountsSafe, AccountsTyped, Considerate
  <2>4. late' \in BOOLEAN
    BY <2>1
  <2>5. CASE Accounts!Create(r)
    <3>1. AccountsTyped'
      BY <2>1, <2>3, <2>4, <2>5 DEF Accounts!Create, ConsiderateOf, AccountsSafe, AccountsTyped
    <3>2. ASSUME NEW u \in Users, Accounts!Administrator(u)
          PROVE  Accounts!Administrator(u)'
      BY <2>5, <3>2 DEF Accounts!Create, Accounts!Administrator, AccountsSafe, AccountsTyped
    <3>3. QED
      BY <2>1, <2>3, <3>1, <3>2
      DEF AccountsSafe, AdministratorRemains, Accounts!AdministratorRemains
  <2>6. CASE Accounts!Toggle(r) \/ Accounts!Assign(r)
    <3>1. AccountsTyped'
      BY <2>1, <2>3, <2>4, <2>6
      DEF Accounts!Toggle, Accounts!Assign, ConsiderateOf, AccountsSafe, AccountsTyped
    <3>2. ASSUME NEW u \in Users, u = req[r].by, Accounts!Administrator(u)
          PROVE  Accounts!Administrator(u)'
      BY <2>1, <2>6, <3>2
      DEF Accounts!Toggle, Accounts!Assign, Accounts!Administrator, ConsiderateOf,
          AccountsSafe, AccountsTyped
    <3>3. Accounts!Administrator(req[r].by) => req[r].by \in Users
      BY DEF Accounts!Administrator, AccountsSafe, AccountsTyped
    <3>4. late' \/ \E u \in Users : Accounts!Administrator(u)'
      BY <2>1, <3>2, <3>3
    <3>5. QED
      BY <2>3, <3>1, <3>4 DEF AccountsSafe, AdministratorRemains, Accounts!AdministratorRemains
  <2>7. QED
    BY <1>6, <2>5, <2>6 DEF Accounts!Write
<1>7. QED
  BY <1>1, <1>2, <1>4, <1>5, <1>6 DEF Accounts!Next, accountsVars, Accounts!vars

\* An administrator that can log in remains, as long as each was one when his
\* request was written (toggle_active, assign_role).
THEOREM AdministratorsRemain == FairSpec => []AdministratorRemains
<1>1. Init => AccountsSafe
  BY AccountsBegin DEF Init
<1>2. AccountsSafe /\ [Next]_vars => AccountsSafe'
  BY AccountsStep DEF Next, vars, accountsVars
<1>3. AccountsSafe => AdministratorRemains
  BY DEF AccountsSafe
<1>4. QED
  BY <1>1, <1>2, <1>3, PTL DEF FairSpec
-----------------------------------------------------------------------------
(* The rule page.  Beside the form and the rules of the server, the list   *)
(* that the page has loaded and the values it is saving belong to their    *)
(* province.                                                               *)

FormTyped ==
  /\ stored \in [Provinces -> Form!Values]
  /\ rules \in [Provinces -> Form!Values]
  /\ formVersion \in Nat
  /\ asked \subseteq [province : Provinces, version : Nat]
  /\ saving \in {None} \union [province : Provinces \union {None}, values : Form!Values]
  /\ selected \in Form!Values
  /\ form \in Form!Values

ListsBelong ==
  /\ \A p \in Provinces : rules[p] \in {p, None}
  /\ saving # None => saving.values = saving.province

FormSafe == FormTyped /\ ValuesBelong /\ (~mixed => ListsBelong)

(* The page begins with an empty form.                                     *)
LEMMA FormBegins == Form!Init => FormSafe
BY DEF Form!Init, Form!Values, FormSafe, FormTyped, ListsBelong, ValuesBelong, Form!ValuesBelong

(* Whatever is selected, entered, saved or answered, in any order.         *)
LEMMA FormStep == FormSafe /\ [Form!Next]_formVars => FormSafe'
<1> SUFFICES ASSUME FormSafe, [Form!Next]_formVars
             PROVE  FormSafe'
  OBVIOUS
<1> USE DEF FormSafe, FormTyped, ListsBelong, ValuesBelong, Form!ValuesBelong, Form!Awaited,
            Form!Values
<1>1. CASE UNCHANGED formVars
  BY <1>1 DEF formVars
<1>2. CASE Form!OthersWrite
  BY <1>2 DEF Form!OthersWrite
<1>3. CASE Form!RulesLoaded
  BY <1>3 DEF Form!RulesLoaded
<1>4. ASSUME NEW p \in Provinces, Form!SelectProvince(p)
      PROVE  FormSafe'
  <2>1. CASE rules[p] # None
    BY <1>4, <2>1 DEF Form!SelectProvince
  <2>2. CASE rules[p] = None
    BY <1>4, <2>2 DEF Form!SelectProvince
  <2>3. QED
    BY <2>1, <2>2
<1>5. ASSUME NEW c \in asked, Form!DefaultsCome(c)
      PROVE  FormSafe'
  <2>1. c = [province |-> c.province, version |-> c.version] /\ c.province \in Provinces
    OBVIOUS
  <2>2. CASE c.version = formVersion
    BY <1>5, <2>1, <2>2 DEF Form!DefaultsCome
  <2>3. CASE c.version # formVersion
    BY <1>5, <2>1, <2>3 DEF Form!DefaultsCome
  <2>4. QED
    BY <2>2, <2>3
<1>6. CASE Form!Enter
  BY <1>6 DEF Form!Enter
<1>7. CASE Form!Save
  BY <1>7 DEF Form!Save
<1>8. CASE Form!Saved
  BY <1>8 DEF Form!Saved
<1>9. CASE Form!SaveFails
  BY <1>9 DEF Form!SaveFails
<1>10. QED
  BY <1>1, <1>2, <1>3, <1>4, <1>5, <1>6, <1>7, <1>8, <1>9
  DEF Form!Next, formVars

(* The form that waits for nothing, and every rule of the server, hold the *)
(* values of their province, until defaults reach a form filled meanwhile  *)
(* or a form is saved before its defaults have come (selectProvince,       *)
(* saveRule).                                                              *)
THEOREM ValuesStayWithProvince == FairSpec => []ValuesBelong
<1>1. Init => FormSafe
  BY FormBegins DEF Init
<1>2. FormSafe /\ [Next]_vars => FormSafe'
  BY FormStep DEF Next, vars, formVars
<1>3. FormSafe => ValuesBelong
  BY DEF FormSafe
<1>4. QED
  BY <1>1, <1>2, <1>3, PTL DEF FairSpec

-----------------------------------------------------------------------------
(* The HTTP client.  Who waits for a refresh waits for the leader's.       *)

Waiting == {"queued", "refreshing"}

ClientTyped ==
  /\ stage \in [Sent -> {"idle", "sent"} \union Waiting \union Client!Settled]
  /\ leader \in Sent \union {None}

ClientSafe == ClientTyped /\ NobodyWaitsAlone

(* No request waits in the beginning.                                      *)
LEMMA ClientBegins == Client!Init => ClientSafe
BY SmallPartsAssumption
DEF Client!Init, ClientSafe, ClientTyped, NobodyWaitsAlone, Waiting

(* Whatever answers come, in any order.                                    *)
LEMMA ClientStep == ClientSafe /\ [Client!Next]_clientVars => ClientSafe'
<1> SUFFICES ASSUME ClientSafe, [Client!Next]_clientVars
             PROVE  ClientSafe'
  OBVIOUS
<1> USE SmallPartsAssumption
        DEF ClientSafe, ClientTyped, NobodyWaitsAlone, Waiting, Client!Settled
<1>1. ASSUME UNCHANGED <<stage, leader>>
      PROVE  ClientSafe'
  BY <1>1
<1>2. CASE Client!Expire \/ Client!LogOut \/ UNCHANGED clientVars
  BY <1>1, <1>2 DEF Client!Expire, Client!LogOut, clientVars
<1>3. CASE Client!RefreshFails
  BY <1>3 DEF Client!RefreshFails, Client!RejectAll, Client!Queue
<1>4. CASE Client!RefreshSucceeds
  BY <1>4 DEF Client!RefreshSucceeds, Client!Queue
<1>5. ASSUME NEW r \in Sent, Client!Send(r)
      PROVE  ClientSafe'
  BY <1>5 DEF Client!Send
<1>6. ASSUME NEW r \in Sent, Client!Answer(r)
      PROVE  ClientSafe'
  <2>1. CASE Client!Succeeds(r) \/ Client!Fails(r) \/ Client!Unauthorized(r)
    BY <1>6, <2>1 DEF Client!Answer, Client!Succeeds, Client!Fails, Client!Unauthorized
  <2>2. CASE Client!MeetsExpired(r)
    BY <1>6, <2>2 DEF Client!Answer, Client!MeetsExpired
  <2>3. QED
    BY <1>6, <2>1, <2>2 DEF Client!Answer
<1>7. QED
  BY <1>2, <1>3, <1>4, <1>5, <1>6 DEF Client!Next, clientVars

(* Whoever waits for a refresh waits for one that is under way, and there  *)
(* is one at a time (isRefreshing, pendingRequests): what RequestsSettle   *)
(* needs beside fairness.                                                  *)
THEOREM RefreshesAreShared == FairSpec => []NobodyWaitsAlone
<1>1. Init => ClientSafe
  BY ClientBegins DEF Init
<1>2. ClientSafe /\ [Next]_vars => ClientSafe'
  BY ClientStep DEF Next, vars, clientVars
<1>3. ClientSafe => NobodyWaitsAlone
  BY DEF ClientSafe
<1>4. QED
  BY <1>1, <1>2, <1>3, PTL DEF FairSpec
-----------------------------------------------------------------------------
(* The import page.  The poll under way is told by its version, so that no *)
(* call may be ahead of the page's (NotAhead); and the timer that is set   *)
(* is the one the page knows, so that it can stop it (Chain).              *)

Statuses == {"none", "active"} \union Polling!Terminal
ServerRows == [Jobs -> [status : Statuses, age : Nat]]
Snapshots == [job : Jobs, status : Statuses, age : Nat]
Calls ==
  [kind : {"upload", "poll", "cancel", "resume"}, job : Jobs \union {Nothing}, version : Nat,
   answer : Snapshots \union {Nothing, Refused}]

PollingTyped ==
  /\ server \in ServerRows
  /\ shown \in Snapshots \union {Nothing}
  /\ version \in Nat
  /\ calls \subseteq Calls
  /\ \A c \in calls : c.kind # "upload" => c.job \in Jobs

NotAhead == \A c \in calls : c.kind = "poll" => c.version <= version

\* The polls of the chain that goes on.
Polls == {c \in Polling!CallOf("poll") : c.version = version}

Chain ==
  /\ ~polling => timers = {}
  /\ polling =>
       \/ /\ timers = {timer} /\ Polls = {}
          /\ timer \in {[version |-> version, job |-> j] : j \in Jobs}
       \/ timers = {} /\ \E c \in Polls : Polls = {c}

PollingSafe == PollingTyped /\ NotAhead /\ Chain

(* One timer and no poll, or one poll and no timer, make one.              *)
LEMMA ChainIsOne == Chain => OnePoller
<1> SUFFICES ASSUME Chain
             PROVE  OnePoller
  OBVIOUS
<1>1. Cardinality({}) = 0
  BY FS_EmptySet
<1>2. \A x : Cardinality({x}) = 1
  BY FS_Singleton
<1>3. ASSUME polling
      PROVE  /\ timers \subseteq {[version |-> version, job |-> j] : j \in Jobs}
             /\ Cardinality(timers) + Cardinality(Polls) = 1
  <2>1. CASE /\ timers = {timer} /\ Polls = {}
             /\ timer \in {[version |-> version, job |-> j] : j \in Jobs}
    <3>1. Cardinality(timers) = 1 /\ Cardinality(Polls) = 0
      BY <1>1, <1>2, <2>1
    <3>2. QED
      BY <2>1, <3>1
  <2>2. CASE timers = {} /\ \E c \in Polls : Polls = {c}
    <3>1. Cardinality(timers) = 0 /\ Cardinality(Polls) = 1
      BY <1>1, <1>2, <2>2
    <3>2. QED
      BY <2>2, <3>1
  <2>3. QED
    BY <1>3, <2>1, <2>2 DEF Chain
<1>4. /\ Polling!Cardinality(timers) = Cardinality(timers)
      /\ Polling!Cardinality(Polls) = Cardinality(Polls)
  BY DEF Polling!Cardinality, Cardinality
<1>5. QED
  BY <1>3, <1>4 DEF Chain, Polls, OnePoller, Polling!OnePoller

(* The page begins without a job.                                          *)
LEMMA PollingBegins == Polling!Init => PollingSafe
BY DEF Polling!Init, PollingSafe, PollingTyped, NotAhead, Chain, ServerRows, Statuses

(* A step that leaves the chain alone, and no poll of it either.           *)
LEMMA ChainKept ==
  ASSUME PollingSafe, PollingTyped', UNCHANGED <<polling, version, timers, timer>>,
         \A c \in calls' : c.kind = "poll" => c.version <= version,
         Polls' = Polls
  PROVE  PollingSafe'
BY DEF PollingSafe, NotAhead, Chain

(* Stopping leaves no timer.                                               *)
LEMMA ChainStopped ==
  ASSUME PollingSafe, PollingTyped', calls' \subseteq calls, Polling!StopPolling, UNCHANGED version
  PROVE  PollingSafe'
BY DEF PollingSafe, NotAhead, Chain, Polling!StopPolling

(* Starting leaves one timer, and calls of older versions.                 *)
LEMMA ChainStarted ==
  ASSUME PollingSafe, PollingTyped', calls' \subseteq calls,
         NEW j \in Jobs, Polling!StartPolling(j)
  PROVE  PollingSafe'
<1>1. version \in Nat /\ version' = version + 1
  BY DEF PollingSafe, PollingTyped, Polling!StartPolling
<1>2. \A c \in calls' : c.kind = "poll" => c.version <= version /\ c.version \in Nat
  BY DEF PollingSafe, PollingTyped, NotAhead, Calls
<1>3. NotAhead'
  BY <1>1, <1>2 DEF NotAhead
<1>4. Polls' = {}
  BY <1>1, <1>2 DEF Polls, Polling!CallOf
<1>5. timers' = {timer'} /\ timer' = [version |-> version', job |-> j] /\ polling' = TRUE
  BY <1>1 DEF PollingSafe, Chain, Polling!StartPolling
<1>6. QED
  BY <1>3, <1>4, <1>5 DEF PollingSafe, Chain

(* The poll of the chain is answered, and the timer is set again.          *)
LEMMA ChainContinues ==
  ASSUME PollingSafe, PollingTyped', NEW c \in calls, c.kind = "poll", calls' = calls \ {c},
         Polling!Reschedule(c), UNCHANGED version
  PROVE  PollingSafe'
<1>1. NotAhead'
  BY DEF PollingSafe, NotAhead
<1>2. CASE polling /\ c.version = version
  <2>1. Polls' = {} /\ timers = {}
    BY <1>2 DEF PollingSafe, Chain, Polls, Polling!CallOf
  <2>2. c.job \in Jobs
    BY DEF PollingSafe, PollingTyped
  <2>3. QED
    BY <1>1, <1>2, <2>1, <2>2 DEF PollingSafe, Chain, Polling!Reschedule, Polling!SetTimer
<1>3. CASE polling /\ c.version # version
  <2>1. Polls' = Polls
    BY <1>3 DEF Polls, Polling!CallOf
  <2>2. QED
    BY <1>1, <1>3, <2>1, ChainKept DEF PollingSafe, NotAhead, Polling!Reschedule
<1>4. CASE ~polling
  BY <1>1, <1>4 DEF PollingSafe, Chain, Polling!Reschedule
<1>5. QED
  BY <1>2, <1>3, <1>4

(* The server answers a call, which stays the call it was.                 *)
LEMMA ChainServed ==
  ASSUME PollingSafe, NEW c \in calls, Polling!Serves(c)
  PROVE  PollingSafe'
<1>1. PICK a \in Snapshots \union {Nothing, Refused} :
        /\ calls' = (calls \ {c}) \union {[c EXCEPT !.answer = a]}
        /\ server' \in ServerRows
  <2> USE DEF Snapshots, ServerRows, Statuses, Polling!Terminal, Polling!ReplyTo
  <2>1. /\ server \in ServerRows
        /\ c.kind # "upload" => c.job \in Jobs
    BY DEF PollingSafe, PollingTyped
  <2>2. ASSUME NEW j \in Jobs, NEW st \in Statuses, Polling!ReplyChanged(c, j, st)
        PROVE  \E a \in Snapshots \union {Nothing, Refused} :
                 /\ calls' = (calls \ {c}) \union {[c EXCEPT !.answer = a]}
                 /\ server' \in ServerRows
    <3>1. server[j].age + 1 \in Nat
      BY <2>1
    <3>2. server' \in ServerRows
      BY <2>1, <2>2, <3>1 DEF Polling!ReplyChanged, Polling!Changes
    <3>3. QED
      BY <2>2, <3>1, <3>2 DEF Polling!ReplyChanged
  <2>3. CASE Polling!ServesUpload(c)
    BY <2>2, <2>3 DEF Polling!ServesUpload
  <2>4. CASE Polling!ServesPoll(c)
    <3>1. Polling!Snapshot(c.job) \in Snapshots
      BY <2>1, <2>4 DEF Polling!ServesPoll, Polling!Snapshot
    <3>2. QED
      BY <2>1, <2>4, <3>1 DEF Polling!ServesPoll
  <2>5. CASE Polling!ServesCancel(c)
    BY <2>1, <2>2, <2>5 DEF Polling!ServesCancel
  <2>6. CASE Polling!ServesResume(c)
    BY <2>1, <2>2, <2>6 DEF Polling!ServesResume
  <2>7. CASE Polling!Refuses(c)
    BY <2>1, <2>7 DEF Polling!Refuses
  <2>8. QED
    BY <2>3, <2>4, <2>5, <2>6, <2>7 DEF Polling!Serves
<1> DEFINE d == [c EXCEPT !.answer = a]
<1>2. d \in Calls /\ d.kind = c.kind /\ d.job = c.job /\ d.version = c.version
  BY DEF PollingSafe, PollingTyped, Calls
<1>3. UNCHANGED <<open, shown, polling, version, errors, timers, timer, astray>>
  BY DEF Polling!Serves, Polling!page
<1>4. PollingTyped' /\ NotAhead'
  BY <1>1, <1>2, <1>3 DEF PollingSafe, PollingTyped, NotAhead
<1>5. CASE c \in Polls
  <2>1. Polls' = (Polls \ {c}) \union {d}
    BY <1>1, <1>2, <1>3, <1>5 DEF Polls, Polling!CallOf
  <2>2. QED
    BY <1>3, <1>4, <1>5, <2>1 DEF PollingSafe, Chain
<1>6. CASE c \notin Polls
  <2>1. Polls' = Polls
    BY <1>1, <1>2, <1>3, <1>6 DEF Polls, Polling!CallOf
  <2>2. QED
    BY <1>3, <1>4, <2>1 DEF PollingSafe, Chain
<1>7. QED
  BY <1>5, <1>6

(* Every step of the page, of its user and of the server.                  *)
LEMMA PollingStep == PollingSafe /\ [Polling!Next]_pollingVars => PollingSafe'
<1> SUFFICES ASSUME PollingSafe, [Polling!Next]_pollingVars
             PROVE  PollingSafe'
  OBVIOUS
<1>1. CASE UNCHANGED pollingVars
  BY <1>1 DEF pollingVars, PollingSafe, PollingTyped, NotAhead, Chain, Polls, Polling!CallOf
<1>2. ASSUME NEW j \in Jobs, Polling!JobEnds(j) \/ Polling!JobGoesOn(j)
      PROVE  PollingSafe'
  <2>1. PICK s \in Statuses : Polling!Changes(j, s)
    BY <1>2 DEF Polling!JobEnds, Polling!JobGoesOn, Statuses, Polling!Terminal
  <2>2. server' \in ServerRows
    BY <2>1 DEF Polling!Changes, PollingSafe, PollingTyped, ServerRows
  <2>3. UNCHANGED <<shown, polling, version, timers, timer, calls>>
    BY <1>2 DEF Polling!JobEnds, Polling!JobGoesOn, Polling!page
  <2>4. QED
    BY <2>2, <2>3 DEF PollingSafe, PollingTyped, NotAhead, Chain, Polls, Polling!CallOf
<1>3. ASSUME NEW c \in calls, Polling!Serves(c)
      PROVE  PollingSafe'
  BY <1>3, ChainServed
<1>4. ASSUME NEW c \in calls, calls' = calls \ {c}, UNCHANGED <<server, version>>,
             shown' \in Snapshots \union {Nothing}
      PROVE  PollingTyped'
  BY <1>4 DEF PollingSafe, PollingTyped
<1>5. ASSUME NEW c \in calls, Polling!Answered(c)
      PROVE  c.answer \in Snapshots /\ c.answer.job \in Jobs
  BY <1>5 DEF Polling!Answered, PollingSafe, PollingTyped, Calls, Snapshots
<1>6. ASSUME NEW c \in calls, Polling!PollAnswered(c)
      PROVE  PollingSafe'
  <2>1. PollingTyped'
    BY <1>4, <1>5, <1>6 DEF Polling!PollAnswered, Polling!page, PollingSafe, PollingTyped
  <2>2. CASE c.version # version
    <3>1. Polls' = Polls
      BY <1>6, <2>2 DEF Polling!PollAnswered, Polling!page, Polls, Polling!CallOf
    <3>2. QED
      BY <1>6, <2>1, <2>2, <3>1, ChainKept
      DEF Polling!PollAnswered, Polling!page, PollingSafe, NotAhead
  <2>3. CASE c.version = version
    BY <1>6, <2>1, <2>3, ChainStopped, ChainContinues DEF Polling!PollAnswered
  <2>4. QED
    BY <2>2, <2>3
<1>7. ASSUME NEW c \in calls, Polling!PollFails(c)
      PROVE  PollingSafe'
  <2>1. PollingTyped'
    BY <1>4, <1>7 DEF Polling!PollFails, PollingSafe, PollingTyped
  <2>2. QED
    BY <1>7, <2>1, ChainStopped, ChainContinues DEF Polling!PollFails
<1>8. ASSUME NEW c \in calls, Polling!UploadAnswered(c) \/ Polling!ResumeAnswered(c)
      PROVE  PollingSafe'
  <2>1. /\ Polling!StartPolling(c.answer.job) /\ calls' = calls \ {c}
        /\ shown' = c.answer /\ UNCHANGED server /\ c.answer \in Snapshots /\ c.answer.job \in Jobs
    BY <1>5, <1>8 DEF Polling!UploadAnswered, Polling!ResumeAnswered
  <2>2. PollingTyped'
    BY <2>1 DEF Polling!StartPolling, PollingSafe, PollingTyped
  <2>3. QED
    BY <2>1, <2>2, ChainStarted
<1>9. ASSUME NEW c \in calls, Polling!CancelAnswered(c)
      PROVE  PollingSafe'
  <2>1. PollingTyped'
    BY <1>4, <1>5, <1>9 DEF Polling!CancelAnswered
  <2>2. QED
    BY <1>9, <2>1, ChainStopped DEF Polling!CancelAnswered
<1>10. ASSUME NEW c \in calls, Polling!CallFails(c)
       PROVE  PollingSafe'
  <2>1. PollingTyped'
    BY <1>4, <1>10 DEF Polling!CallFails, PollingSafe, PollingTyped
  <2>2. Polls' = Polls
    BY <1>10 DEF Polling!CallFails, Polls, Polling!CallOf
  <2>3. QED
    BY <1>10, <2>1, <2>2, ChainKept DEF Polling!CallFails, PollingSafe, NotAhead
<1>11. ASSUME NEW t \in timers, Polling!TimerFires(t)
       PROVE  PollingSafe'
  <2>1. polling /\ t = timer /\ timers = {timer} /\ Polls = {}
        /\ t \in {[version |-> version, job |-> j] : j \in Jobs}
    BY DEF PollingSafe, Chain
  <2> DEFINE c == Polling!Call("poll", t.job, t.version)
  <2>2. /\ c \in Calls /\ c.kind = "poll" /\ c.job \in Jobs /\ c.version = version
        /\ version \in Nat
    BY <2>1 DEF Polling!Call, Calls, PollingSafe, PollingTyped
  <2>3. calls' = calls \union {c} /\ timers' = {}
        /\ UNCHANGED <<server, open, shown, polling, version, errors, timer, astray>>
    BY <1>11, <2>1 DEF Polling!TimerFires
  <2>4. PollingTyped' /\ NotAhead'
    BY <2>2, <2>3 DEF PollingSafe, PollingTyped, NotAhead
  <2>5. Polls' = {c}
    BY <2>1, <2>2, <2>3 DEF Polls, Polling!CallOf
  <2>6. QED
    BY <2>1, <2>3, <2>4, <2>5 DEF PollingSafe, Chain
<1>12. ASSUME NEW kind \in {"upload", "cancel", "resume"}, NEW j \in Jobs \union {Nothing},
              kind # "upload" => j \in Jobs, Polling!Sends(kind, j)
       PROVE  PollingSafe'
  <2> DEFINE c == Polling!Call(kind, j, 0)
  <2>1. c \in Calls /\ c.kind = kind /\ c.job = j
    BY DEF Polling!Call, Calls
  <2>2. PollingTyped'
    BY <1>12, <2>1 DEF Polling!Sends, Polling!page, PollingSafe, PollingTyped
  <2>3. Polls' = Polls
    BY <1>12, <2>1 DEF Polling!Sends, Polling!page, Polls, Polling!CallOf
  <2>4. QED
    BY <1>12, <2>1, <2>2, <2>3, ChainKept DEF Polling!Sends, Polling!page, PollingSafe, NotAhead
<1>13. CASE Polling!Upload \/ Polling!ClickCancel \/ Polling!ClickResume
  <2>1. shown # Nothing => shown.job \in Jobs
    BY DEF PollingSafe, PollingTyped, Snapshots
  <2>2. QED
    BY <1>12, <1>13, <2>1 DEF Polling!Upload, Polling!ClickCancel, Polling!ClickResume
<1>14. CASE Polling!Reset \/ Polling!Leave
  <2>1. PollingTyped' /\ Polling!StopPolling /\ UNCHANGED <<version, calls>>
    BY <1>14 DEF Polling!Reset, Polling!Leave, PollingSafe, PollingTyped
  <2>2. QED
    BY <2>1, ChainStopped
<1>15. QED
  BY <1>1, <1>2, <1>3, <1>6, <1>7, <1>8, <1>9, <1>10, <1>11, <1>13, <1>14
  DEF Polling!Next, Polling!Settles, pollingVars

(* While the page polls, one timer or one call of its version goes on,     *)
(* never both and never two, whatever chains were stopped or started       *)
(* before, and a page that does not poll has no timer left (startPolling,  *)
(* stopPolling and the end of pollOnce).                                   *)
THEOREM OnePollerAtATime == FairSpec => []OnePoller
<1>1. Init => PollingSafe
  BY PollingBegins DEF Init
<1>2. PollingSafe /\ [Next]_vars => PollingSafe'
  BY PollingStep DEF Next, vars, pollingVars
<1>3. PollingSafe => OnePoller
  BY ChainIsOne DEF PollingSafe
<1>4. QED
  BY <1>1, <1>2, <1>3, PTL DEF FairSpec
=============================================================================
