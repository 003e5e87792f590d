------------------------------ MODULE Accounts ------------------------------
(***************************************************************************)
(* Administrators who create, stop and re-rank the accounts of others, and *)
(* each other (services/user_service.py, core/dependencies.py).            *)
(*                                                                         *)
(* A request is authorized by what the database says of its user, loads    *)
(* its target later, and writes one column of it at the end, each without  *)
(* a lock.  Passwords, names and the audit log do not appear.              *)
(***************************************************************************)
CONSTANTS Users, Roles, Requests, None

VARIABLES
  exists,  \* accounts
  role,
  active,  \* is_active
  req,     \* what every request does: by whom, to whom, what
  late     \* history: a request has written when its user was no longer an
           \* administrator

vars == <<exists, role, active, req, late>>

Idle == [stage |-> "idle", by |-> None, target |-> None, to |-> None]
Administrator(u) == u \in exists /\ active[u] /\ role[u] = "admin"

Init ==
  /\ exists \in SUBSET Users
  /\ role \in [Users -> Roles]
  /\ active \in [Users -> BOOLEAN]
  /\ \E u \in Users : Administrator(u)
  /\ req = [r \in Requests |-> Idle]
  /\ late = FALSE

Ends(r) == req' = [req EXCEPT ![r] = Idle]

\* get_current_active_user and require_roles.
Authorize(r) == \E u \in Users :
  /\ req[r].stage = "idle"
  /\ Administrator(u)
  /\ req' = [req EXCEPT ![r].stage = "authorized", ![r].by = u]
  /\ UNCHANGED <<exists, role, active, late>>

Prepare(r, t, stage, to) ==
  /\ req' = [req EXCEPT ![r].stage = stage, ![r].target = t, ![r].to = to]
  /\ UNCHANGED <<exists, role, active, late>>

\* A name that is in use is refused, here or by the unique index.
ToCreate(r) == \E t \in Users \ exists, to \in Roles :
  req[r].stage = "authorized" /\ Prepare(r, t, "create", to)

\* Slip: a user may stop himself.
ToToggleAnyone(r) == \E t \in exists, to \in BOOLEAN :
  /\ req[r].stage = "authorized"
  /\ active[t] # to
  /\ Prepare(r, t, "toggle", to)

\* toggle_active: nobody stops himself; a target that is as asked for is left.
ToToggle(r) == \E t \in exists \ {req[r].by}, to \in BOOLEAN :
  /\ req[r].stage = "authorized"
  /\ active[t] # to
  /\ Prepare(r, t, "toggle", to)

\* assign_role: nobody gives up his own role of administrator.
ToAssign(r) == \E t \in exists, to \in Roles :
  /\ req[r].stage = "authorized"
  /\ t = req[r].by => to = "admin"
  /\ role[t] # to
  /\ Prepare(r, t, "assign", to)

\* An error, or nothing to be changed.
Refuse(r) ==
  /\ req[r].stage # "idle"
  /\ Ends(r)
  /\ UNCHANGED <<exists, role, active, late>>

\* New accounts are active.
Create(r) == LET t == req[r].target IN
  /\ req[r].stage = "create"
  /\ t \notin exists
  /\ exists' = exists \union {t}
  /\ role' = [role EXCEPT ![t] = req[r].to]
  /\ active' = [active EXCEPT ![t] = TRUE]

Toggle(r) ==
  /\ req[r].stage = "toggle"
  /\ active' = [active EXCEPT ![req[r].target] = req[r].to]
  /\ UNCHANGED <<exists, role>>

Assign(r) ==
  /\ req[r].stage = "assign"
  /\ role' = [role EXCEPT ![req[r].target] = req[r].to]
  /\ UNCHANGED <<exists, active>>

\* The commit of the request.
Write(r) ==
  /\ Create(r) \/ Toggle(r) \/ Assign(r)
  /\ late' = (late \/ ~Administrator(req[r].by))
  /\ Ends(r)

Next == \E r \in Requests :
  Authorize(r) \/ ToCreate(r) \/ ToToggle(r) \/ ToAssign(r) \/ Refuse(r) \/ Write(r)

Spec == Init /\ [][Next]_vars

-----------------------------------------------------------------------------
\* However administrators stop and demote each other at the same time, one
\* that can log in remains, as long as each was one when his request was
\* written: the checks against oneself are enough for requests that are not
\* overtaken (toggle_active, assign_role).
AdministratorRemains == late \/ \E u \in Users : Administrator(u)
=============================================================================
