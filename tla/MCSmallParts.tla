---------------------------- MODULE MCSmallParts ----------------------------
(***************************************************************************)
(* Four parts that share no state with each other, one of which is chosen  *)
(* in the beginning: the import page, the rule page, the HTTP client and   *)
(* the accounts.  One job, two provinces, three requests of the client,    *)
(* and three users with two requests at a time.                            *)
(***************************************************************************)
EXTENDS Naturals

CONSTANTS
  Jobs, Nothing, Refused, MAX_POLL_ERRORS, MaxAge,
  Provinces, None, MaxVersion,
  Sent,
  Users, Roles, Requests

\* What stands for nobody is no request.
ASSUME SmallPartsAssumption == None \notin Sent

VARIABLES
  part,
  server, open, shown, polling, version, errors, timers, timer, calls, astray,
  stored, rules, loading, selected, form, formVersion, asked, saving, mixed,
  issued, live, token, stage, sentWith, retried, leader, away,
  exists, role, active, req, late

Polling  == INSTANCE ImportPolling
Form     == INSTANCE RuleForm WITH version <- formVersion
Client   == INSTANCE TokenRefresh WITH Requests <- Sent
Accounts == INSTANCE Accounts

pollingVars  == <<server, open, shown, polling, version, errors, timers, timer, calls, astray>>
formVars     == <<stored, rules, loading, selected, form, formVersion, asked, saving, mixed>>
clientVars   == <<issued, live, token, stage, sentWith, retried, leader, away>>
accountsVars == <<exists, role, active, req, late>>

vars == <<part, pollingVars, formVars, clientVars, accountsVars>>

\* A part that is not chosen stays in one initial state.
Init ==
  /\ part \in {"polling", "form", "client", "accounts"}
  /\ Polling!Init
  /\ Form!Init
  /\ part # "form" => stored = [p \in Provinces |-> None]
  /\ Client!Init
  /\ Accounts!Init
  /\ part # "accounts" =>
       /\ exists = Users
       /\ role = [u \in Users |-> "admin"]
       /\ active = [u \in Users |-> TRUE]

Next ==
  \/ part = "polling" /\ Polling!Next /\ UNCHANGED <<part, formVars, clientVars, accountsVars>>
  \/ part = "form" /\ Form!Next /\ UNCHANGED <<part, pollingVars, clientVars, accountsVars>>
  \/ part = "client" /\ Client!Next /\ UNCHANGED <<part, pollingVars, formVars, accountsVars>>
  \/ part = "accounts" /\ Accounts!Next /\ UNCHANGED <<part, pollingVars, formVars, clientVars>>

FairSpec == Init /\ [][Next]_vars /\ Polling!Fairness /\ Client!Fairness

-----------------------------------------------------------------------------
\* The import page never has two pollers, nor one it has stopped.
OnePoller == Polling!OnePoller

\* The import page stops polling and shows what the server has.
PollingSettles == Polling!PollingSettles

\* Forms and rules hold the values of their province.
ValuesBelong == Form!ValuesBelong

\* Every request of the client is answered or rejected.
RequestsSettle == Client!RequestsSettle

\* An administrator that can log in remains.
AdministratorRemains == Accounts!AdministratorRemains
=============================================================================
