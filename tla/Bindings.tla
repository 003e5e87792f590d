------------------------------ MODULE Bindings ------------------------------
(***************************************************************************)
(* The resources that a user is bound to, and what the user is shown       *)
(* because of them (services/binding_service.py, repositories/binding.py,  *)
(* core/data_access.py, services/station_service.py).                      *)
(*                                                                         *)
(* A trader is bound to stations and a storage operator to devices.  An    *)
(* administrator replaces all the bindings of one kind: SELECT ... FOR     *)
(* UPDATE, DELETE, INSERT, commit.  In READ COMMITTED each statement sees  *)
(* the rows committed when it starts; where one of them is locked it waits *)
(* and goes on with what is left of those rows, never with newer ones.     *)
(*                                                                         *)
(* The module follows one user: rows of different users never meet.        *)
(***************************************************************************)
EXTENDS FiniteSets

CONSTANTS
  Stations,
  Devices,
  Home,     \* Home[d]: the station of a device
  Requests, \* replacements, each of which happens once
  Seed      \* "writes" the rows that are there in the beginning

ASSUME BindingsAssumption ==
  /\ Stations \cap Devices = {}
  /\ Home \in [Devices -> Stations]
  /\ Seed \notin Requests

VARIABLES
  role,    \* the user's role: "trader", "storage_operator" or one that sees all
  allowed, \* is_active and not is_locked
  live,    \* the resources with is_active
  rows,    \* the committed bindings, each with the request that wrote it
  req,     \* where each request stands
  past     \* history: past[r] had ended when r began

vars == <<role, allowed, live, rows, req, past>>

Resources == Stations \cup Devices
Table(what) == IF what = "trader" THEN Stations ELSE Devices
Row == [of : Resources, by : Requests \cup {Seed}]

(* The rows of a request's table that a statement sees.                    *)
Visible(r) == {b \in rows : b.of \in Table(req[r].kind)}

Open == {"valid", "selecting", "selected", "deleting", "deleted", "inserted"}
Ended == {"done", "failed"}
Move(r, phase, snap, locks) ==
  req' = [req EXCEPT ![r].phase = phase, ![r].snap = snap, ![r].locks = locks]

(* A statement of r can go on: nobody else has locked what it has seen.    *)
Unlocked(r) ==
  \A q \in Requests \ {r} : req[q].locks \cap req[r].snap \cap rows = {}

Init ==
  /\ role \in {"trader", "storage_operator", "admin"}
  /\ allowed \in BOOLEAN
  /\ live \in SUBSET Resources
  /\ \E B \in SUBSET Resources : rows = [of : B, by : {Seed}]
  /\ req = [r \in Requests |-> [phase |-> "new", kind |-> "trader", ids |-> {},
                                snap |-> {}, locks |-> {}]]
  /\ past = [r \in Requests |-> {}]

-----------------------------------------------------------------------------
(* update_user_station_bindings and update_user_device_bindings.           *)

(* The user must be allowed and have the role, and every resource be live. *)
Validate(r, kind, ids) ==
  /\ req[r].phase = "new"
  /\ role = kind /\ allowed
  /\ ids \subseteq Table(kind) \cap live
  /\ req' = [req EXCEPT ![r].phase = "valid", ![r].kind = kind, ![r].ids = ids]
  /\ past' = [past EXCEPT ![r] = {q \in Requests : req[q].phase \in Ended}]
  /\ UNCHANGED <<role, allowed, live, rows>>

(* get_user_station_ids with for_update: without rows it locks nothing.    *)
Select(r) ==
  /\ req[r].phase = "valid"
  /\ Move(r, "selecting", Visible(r), {})
  /\ UNCHANGED <<role, allowed, live, rows, past>>

SelectEnds(r) ==
  /\ req[r].phase = "selecting"
  /\ Unlocked(r)
  /\ Move(r, "selected", {}, req[r].snap \cap rows)
  /\ UNCHANGED <<role, allowed, live, rows, past>>

(* replace_user_station_bindings: the DELETE.                              *)
Delete(r) ==
  /\ req[r].phase = "selected"
  /\ Move(r, "deleting", Visible(r), req[r].locks)
  /\ UNCHANGED <<role, allowed, live, rows, past>>

(* Slip: an empty list deletes nothing.                                    *)
DeleteEndsUnlessEmpty(r) ==
  /\ req[r].phase = "deleting"
  /\ Unlocked(r)
  /\ Move(r, "deleted", {}, IF req[r].ids = {} THEN {} ELSE req[r].snap \cap rows)
  /\ UNCHANGED <<role, allowed, live, rows, past>>

DeleteEnds(r) ==
  /\ req[r].phase = "deleting"
  /\ Unlocked(r)
  /\ Move(r, "deleted", {}, req[r].snap \cap rows)
  /\ UNCHANGED <<role, allowed, live, rows, past>>

(* The INSERT waits for another request that inserts or deletes the same   *)
(* binding, and fails where the binding exists.                            *)
Insert(r) ==
  /\ req[r].phase = "deleted"
  /\ \A q \in Requests \ {r} :
       /\ req[q].phase = "inserted" => req[q].ids \cap req[r].ids = {}
       /\ \A b \in req[q].locks \cap rows :
            req[q].phase \in {"deleted", "inserted"} => b.of \notin req[r].ids
  /\ Move(r, IF \E b \in rows \ req[r].locks : b.of \in req[r].ids THEN "failed" ELSE "inserted",
          {}, req[r].locks)
  /\ UNCHANGED <<role, allowed, live, rows, past>>

Commit(r) ==
  /\ req[r].phase = "inserted"
  /\ rows' = (rows \ req[r].locks) \cup [of : req[r].ids, by : {r}]
  /\ Move(r, "done", {}, {})
  /\ UNCHANGED <<role, allowed, live, past>>

(* An error, a deadlock that PostgreSQL resolves, or a process that dies.  *)
RollBack(r) ==
  /\ req[r].phase \in Open
  /\ Move(r, "failed", {}, {})
  /\ UNCHANGED <<role, allowed, live, rows, past>>

-----------------------------------------------------------------------------
(* Meanwhile.                                                              *)

(* assign_role and toggle_active keep the bindings.                        *)
ChangeUser ==
  /\ role' \in {"trader", "storage_operator", "admin"}
  /\ allowed' \in BOOLEAN
  /\ UNCHANGED <<live, rows, req, past>>

(* delete_station takes the devices along, update_station leaves them; both *)
(* refuse a bound station.  Nothing protects a device of a live station.   *)
Deactivate(x) ==
  /\ x \in live
  /\ IF x \in Stations THEN \A b \in rows : b.of # x ELSE Home[x] \in live
  /\ \E D \in {{}, {d \in Devices : Home[d] = x}} : live' = live \ ({x} \cup D)
  /\ UNCHANGED <<role, allowed, rows, req, past>>

(* update_station.                                                         *)
Reactivate(x) ==
  /\ x \in Stations \ live
  /\ live' = live \cup {x}
  /\ UNCHANGED <<role, allowed, rows, req, past>>

-----------------------------------------------------------------------------
Next ==
  \/ \E r \in Requests :
       \/ \E kind \in {"trader", "storage_operator"} :
            \E ids \in SUBSET Resources : Validate(r, kind, ids)
       \/ Select(r) \/ SelectEnds(r) \/ Delete(r) \/ DeleteEnds(r) \/ Insert(r)
       \/ Commit(r) \/ RollBack(r)
  \/ ChangeUser
  \/ \E x \in Resources : Deactivate(x) \/ Reactivate(x)

Spec == Init /\ [][Next]_vars

-----------------------------------------------------------------------------
(* What the user is shown.                                                 *)

Bound == {b.of : b \in rows}

(* get_data_access_context                                                 *)
SeenStations ==
  CASE role = "admin"            -> Stations
    [] role = "trader"           -> Bound \cap Stations
    [] role = "storage_operator" -> {Home[d] : d \in Bound \cap Devices \cap live}

(* Slip: an operator is filtered by station only.                          *)
SeenDevicesByStation == {d \in Devices \cap live : Home[d] \in SeenStations}

(* get_all_active_devices_for_user                                         *)
SeenDevices ==
  {d \in Devices \cap live :
     /\ Home[d] \in SeenStations
     /\ role = "storage_operator" => d \in Bound}

-----------------------------------------------------------------------------
(* Properties.                                                             *)

(* Every variable stays in the set the code and the schema give it, and a  *)
(* resource is bound once.                                                 *)
TypeOK ==
  /\ role \in {"trader", "storage_operator", "admin"}
  /\ allowed \in BOOLEAN
  /\ live \subseteq Resources
  /\ rows \subseteq Row
  /\ req \in [Requests -> [phase : {"new"} \cup Open \cup Ended,
                           kind : {"trader", "storage_operator"},
                           ids : SUBSET Resources, snap : SUBSET Row, locks : SUBSET Row]]
  /\ past \in [Requests -> SUBSET Requests]
  /\ \A b, c \in rows : b.of = c.of => b = c

Commits(r) == req[r].phase = "inserted" /\ req'[r].phase = "done"

Overlapping(r) ==
  {q \in Requests : q \notin past[r] /\ req[q].phase # "new"}

(* Only overlaps remain: when a replacement is committed, whatever it does *)
(* not name is gone, unless a replacement that met it names it; no other   *)
(* binding survives, though the DELETE sees only some of the rows.         *)
OnlyOverlapsRemain ==
  [][\A r \in Requests : Commits(r) =>
       Bound' \cap Table(req[r].kind)
         \subseteq UNION {req[q].ids : q \in Overlapping(r)}]_vars

(* The removed are unseen: after a replacement that no other one met, a    *)
(* trader is shown no station and an operator no device it did not name,   *)
(* whatever happens to roles and resources until the next commit.          *)
RemovedAreUnseen ==
  \A r \in Requests :
    /\ req[r].phase = "done"
    /\ req[r].kind = role
    /\ \A q \in Requests \ past[r] :
         req[q].phase = "done" /\ req[q].kind = role => q = r
    => (IF role = "trader" THEN SeenStations ELSE SeenDevices) \subseteq req[r].ids
=============================================================================
