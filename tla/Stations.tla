------------------------------ MODULE Stations ------------------------------
(***************************************************************************)
(* Stations and their storage devices: the wizard and the administration   *)
(* of stations, which meet each other and the binding of users             *)
(* (services/station_service.py, services/wizard_service.py,               *)
(* services/binding_service.py, repositories/station.py and storage.py).   *)
(*                                                                         *)
(* The wizard takes the row of the station FOR UPDATE and decides with it. *)
(* The other handlers load the station without a lock, decide, and lock    *)
(* its row by their UPDATE; an UPDATE names only the columns that differ   *)
(* from what was loaded.  All of them commit when the request ends.        *)
(*                                                                         *)
(* A device is a name at a station, which the schema lets exist once.      *)
(***************************************************************************)
EXTENDS Integers, FiniteSets

CONSTANTS
  Stations,
  Devices,    \* devices, by station and name
  Home,       \* Home[d]: the station that device d can be created at
  Requests,
  MaxDevices, \* active devices a station may have: 50 in the code
  Levels      \* states of charge that a limit can be set to

ASSUME StationsAssumption ==
  /\ Home \in [Devices -> Stations]
  /\ IsFiniteSet(Devices)
  /\ MaxDevices \in Nat
  /\ Levels \subseteq Int

VARIABLES
  known,  \* the stations that have been created
  active, \* the stations with is_active
  flag,   \* the stations with has_storage
  dev,    \* "none", "active" or "inactive": the row of each device
  soc,    \* the limits each device has, or will be created with
  bound,  \* the stations that a user is bound to
  req,    \* what each request is about to do
  lapse,  \* history: requests to stop a station that has not been bound all
          \* the time since they loaded it
  wiped   \* history: "never", "resting" since delete_station, "restarted" after it

rows == <<known, active, flag, dev, soc, bound>>
vars == <<rows, req, lapse, wiped>>

ActiveAt(s) == {d \in Devices : Home[d] = s /\ dev[d] = "active"}

(* _validate_soc_range and ck_storage_devices_soc_range                    *)
Ranges == {r \in [lower : Levels, upper : Levels] : r.lower < r.upper}

Idle == [op |-> "idle"]
Begin(r, step) == req' = [req EXCEPT ![r] = step]
End(r) == req' = [req EXCEPT ![r] = Idle]

(* The requests in a transaction that holds the row of a station.          *)
Holding == {"add", "remove", "deleted", "stopped", "started"}
Free(s) == \A r \in Requests : req[r].op \in Holding => req[r].at # s

Init ==
  /\ known = {}
  /\ active = {}
  /\ flag = {}
  /\ dev = [d \in Devices |-> "none"]
  /\ soc \in [Devices -> Ranges]
  /\ bound = {}
  /\ req = [r \in Requests |-> Idle]
  /\ lapse = {}
  /\ wiped = [s \in Stations |-> "never"]

-----------------------------------------------------------------------------
(* Creation: of the station alone, or with devices in one transaction.     *)

Create(s, D) ==
  /\ s \notin known
  /\ \A d \in D : Home[d] = s
  /\ Cardinality(D) <= MaxDevices
  /\ known' = known \cup {s}
  /\ active' = active \cup {s}
  /\ flag' = IF D = {} THEN flag ELSE flag \cup {s}
  /\ dev' = [d \in Devices |-> IF d \in D THEN "active" ELSE dev[d]]
  /\ UNCHANGED <<soc, bound, req, lapse, wiped>>

-----------------------------------------------------------------------------
(* add_device_to_station and delete_station_device.                        *)

(* Slip: the station is loaded without FOR UPDATE.                         *)
AddUnlocked(r, d) ==
  LET s == Home[d] IN
  /\ req[r] = Idle
  /\ s \in active
  /\ Cardinality(ActiveAt(s)) < MaxDevices
  /\ dev[d] = "none"
  /\ \A q \in Requests : req[q].op = "add" => req[q].device # d
  /\ Begin(r, [op |-> "add", at |-> s, device |-> d, flag |-> s \in flag])
  /\ UNCHANGED <<rows, lapse, wiped>>

(* SELECT ... FOR UPDATE, 409 for an inactive station, 422 at the limit    *)
(* and for a name that exists already.                                     *)
Add(r, d) ==
  LET s == Home[d] IN
  /\ req[r] = Idle
  /\ Free(s)
  /\ s \in active
  /\ Cardinality(ActiveAt(s)) < MaxDevices
  /\ dev[d] = "none"
  /\ Begin(r, [op |-> "add", at |-> s, device |-> d, flag |-> s \in flag])
  /\ UNCHANGED <<rows, lapse, wiped>>

AddCommits(r) ==
  /\ req[r].op = "add"
  /\ dev' = [dev EXCEPT ![req[r].device] = "active"]
  /\ flag' = IF req[r].flag THEN flag ELSE flag \cup {req[r].at}
  /\ End(r)
  /\ UNCHANGED <<known, active, soc, bound, lapse, wiped>>

(* Slip: the station is loaded without FOR UPDATE.                         *)
RemoveUnlocked(r, d) ==
  LET s == Home[d] IN
  /\ req[r] = Idle
  /\ s \in active
  /\ dev[d] = "active"
  /\ Begin(r, [op |-> "remove", at |-> s, device |-> d, rest |-> ActiveAt(s) \ {d}])
  /\ UNCHANGED <<rows, lapse, wiped>>

(* The devices that remain are read after the lock.                        *)
Remove(r, d) ==
  LET s == Home[d] IN
  /\ req[r] = Idle
  /\ Free(s)
  /\ s \in active
  /\ dev[d] = "active"
  /\ Begin(r, [op |-> "remove", at |-> s, device |-> d, rest |-> ActiveAt(s) \ {d}])
  /\ UNCHANGED <<rows, lapse, wiped>>

RemoveCommits(r) ==
  /\ req[r].op = "remove"
  /\ dev' = [dev EXCEPT ![req[r].device] = "inactive"]
  /\ flag' = IF req[r].rest = {} THEN flag \ {req[r].at} ELSE flag
  /\ End(r)
  /\ UNCHANGED <<known, active, soc, bound, lapse, wiped>>

-----------------------------------------------------------------------------
(* update_storage_device.                                                  *)

(* The limits of the request are checked together with those loaded; only  *)
(* what differs from them will be written.                                 *)
Tune(r, d) ==
  /\ req[r] = Idle
  /\ Home[d] \in active
  /\ dev[d] = "active"
  /\ \E range \in Ranges \ {soc[d]} :
       Begin(r, [op |-> "tune", device |-> d, range |-> range,
                 fields |-> {f \in {"lower", "upper"} : range[f] # soc[d][f]}])
  /\ UNCHANGED <<rows, lapse, wiped>>

Tuned(r) == [f \in {"lower", "upper"} |->
               IF f \in req[r].fields THEN req[r].range[f] ELSE soc[req[r].device][f]]

(* Where another request has moved the other limit, the CHECK of the table *)
(* makes this one fail (see RollBack).                                     *)
TuneCommits(r) ==
  /\ req[r].op = "tune"
  /\ Tuned(r) \in Ranges
  /\ soc' = [soc EXCEPT ![req[r].device] = Tuned(r)]
  /\ End(r)
  /\ UNCHANGED <<known, active, flag, dev, bound, lapse, wiped>>

-----------------------------------------------------------------------------
(* delete_station ("delete") and update_station with is_active ("stop",    *)
(* "start").                                                               *)

(* The station is loaded.  Where it already is as wanted, nothing follows. *)
Load(r, s, op) ==
  /\ req[r] = Idle
  /\ s \in known
  /\ (s \in active) <=> (op # "start")
  /\ Begin(r, [op |-> op, at |-> s])
  /\ lapse' = IF s \in bound THEN lapse \ {r} ELSE lapse \cup {r}
  /\ UNCHANGED <<rows, wiped>>

(* Slip: update_station is not protected.                                  *)
CheckDelete(r) ==
  /\ req[r].op \in {"delete", "stop"}
  /\ req[r].op = "delete" => req[r].at \notin bound
  /\ Begin(r, [op |-> IF req[r].op = "delete" THEN "deleting" ELSE "stopping", at |-> req[r].at])
  /\ UNCHANGED <<rows, lapse, wiped>>

(* has_active_bindings: 409 for a station that somebody is bound to.       *)
Check(r) ==
  /\ req[r].op \in {"delete", "stop"}
  /\ req[r].at \notin bound
  /\ Begin(r, [op |-> IF req[r].op = "delete" THEN "deleting" ELSE "stopping", at |-> req[r].at])
  /\ UNCHANGED <<rows, lapse, wiped>>

(* The UPDATE of is_active, after which delete_station reads the devices.  *)
Flush(r) ==
  /\ req[r].op \in {"deleting", "stopping", "start"}
  /\ Free(req[r].at)
  /\ Begin(r, CASE req[r].op = "deleting" -> [op |-> "deleted", at |-> req[r].at,
                                              devices |-> ActiveAt(req[r].at)]
                [] req[r].op = "stopping" -> [op |-> "stopped", at |-> req[r].at]
                [] req[r].op = "start"    -> [op |-> "started", at |-> req[r].at])
  /\ UNCHANGED <<rows, lapse, wiped>>

(* delete_station takes the active devices along and leaves has_storage.   *)
DeleteCommits(r) ==
  /\ req[r].op = "deleted"
  /\ active' = active \ {req[r].at}
  /\ dev' = [d \in Devices |-> IF d \in req[r].devices THEN "inactive" ELSE dev[d]]
  /\ wiped' = [wiped EXCEPT ![req[r].at] = "resting"]
  /\ End(r)
  /\ UNCHANGED <<known, flag, soc, bound, lapse>>

(* update_station takes nothing along.                                     *)
UpdateCommits(r) ==
  /\ req[r].op \in {"stopped", "started"}
  /\ IF req[r].op = "stopped"
     THEN active' = active \ {req[r].at} /\ UNCHANGED wiped
     ELSE /\ active' = active \cup {req[r].at}
          /\ wiped' = [wiped EXCEPT ![req[r].at] = IF @ = "resting" THEN "restarted" ELSE @]
  /\ End(r)
  /\ UNCHANGED <<known, flag, dev, soc, bound, lapse>>

-----------------------------------------------------------------------------
(* Bindings, as far as stations see them.                                  *)

(* update_user_station_bindings has found the station active.              *)
Bind(r, s) ==
  /\ req[r] = Idle
  /\ s \in active \ bound
  /\ Begin(r, [op |-> "bind", at |-> s])
  /\ UNCHANGED <<rows, lapse, wiped>>

(* The row of the binding refers to the station, which its deactivation    *)
(* does not lock out.                                                      *)
BindCommits(r) ==
  /\ req[r].op = "bind"
  /\ bound' = bound \cup {req[r].at}
  /\ End(r)
  /\ UNCHANGED <<known, active, flag, dev, soc, lapse, wiped>>

(* The requests that are about to take a station down.                     *)
Stopping(s) ==
  {r \in Requests : /\ req[r].op \in {"delete", "stop", "deleting", "stopping", "deleted", "stopped"}
                    /\ req[r].at = s}

Unbind(s) ==
  /\ s \in bound
  /\ bound' = bound \ {s}
  /\ lapse' = lapse \cup Stopping(s)
  /\ UNCHANGED <<known, active, flag, dev, soc, req, wiped>>

(* A refusal, an error, or a process that dies: get_db_session rolls back. *)
RollBack(r) ==
  /\ req[r] # Idle
  /\ End(r)
  /\ UNCHANGED <<rows, lapse, wiped>>

-----------------------------------------------------------------------------
Next ==
  \/ \E s \in Stations : Unbind(s) \/ \E D \in SUBSET Devices : Create(s, D)
  \/ \E r \in Requests :
       \/ \E d \in Devices : Add(r, d) \/ Remove(r, d) \/ Tune(r, d)
       \/ \E s \in Stations : Bind(r, s) \/ \E op \in {"delete", "stop", "start"} : Load(r, s, op)
       \/ AddCommits(r) \/ RemoveCommits(r) \/ TuneCommits(r) \/ BindCommits(r)
       \/ Check(r) \/ Flush(r) \/ DeleteCommits(r) \/ UpdateCommits(r)
       \/ RollBack(r)

Spec == Init /\ [][Next]_vars

-----------------------------------------------------------------------------
(* Properties.                                                             *)

Steps ==
       [op : {"idle"}]
  \cup [op : {"add"}, at : Stations, device : Devices, flag : BOOLEAN]
  \cup [op : {"remove"}, at : Stations, device : Devices, rest : SUBSET Devices]
  \cup [op : {"tune"}, device : Devices, range : Ranges, fields : SUBSET {"lower", "upper"}]
  \cup [op : {"delete", "stop", "start", "deleting", "stopping", "stopped", "started", "bind"},
        at : Stations]
  \cup [op : {"deleted"}, at : Stations, devices : SUBSET Devices]

(* Every variable stays in the set the code and the schema give it, and a  *)
(* device exists only at a station that does.                              *)
TypeOK ==
  /\ known \subseteq Stations
  /\ active \subseteq known
  /\ flag \subseteq known
  /\ dev \in [Devices -> {"none", "active", "inactive"}]
  /\ soc \in [Devices -> [lower : Levels, upper : Levels]]
  /\ bound \subseteq known
  /\ req \in [Requests -> Steps]
  /\ lapse \subseteq Requests
  /\ wiped \in [Stations -> {"never", "resting", "restarted"}]
  /\ \A d \in Devices : dev[d] # "none" => Home[d] \in known

(* The flag tells the devices: a station with an active device has         *)
(* has_storage, whoever adds and removes devices at the same time; and one *)
(* that has it has such a device, unless it was once deleted.              *)
FlagTellsDevices ==
  \A s \in Stations :
    /\ ActiveAt(s) # {} => s \in flag
    /\ s \in flag /\ wiped[s] = "never" => ActiveAt(s) # {}

(* Devices are limited: a station never has more active devices than the   *)
(* limit, although it is checked before the insert.                        *)
DevicesLimited == \A s \in Stations : Cardinality(ActiveAt(s)) <= MaxDevices

(* Deleted stations rest: as long as nobody starts it again, a station     *)
(* that was deleted keeps no active device, not even one whose addition    *)
(* had begun before.                                                       *)
DeletedStationsRest == \A s \in Stations : wiped[s] = "resting" => ActiveAt(s) = {}

(* Stopping respects bindings: a station is not stopped or deleted if it   *)
(* has been bound all the time since the request loaded it.                *)
StopsRespectBindings ==
  \A r \in Requests : req[r].op \in {"deleted", "stopped"} => r \in lapse

(* Limits stay ordered: the lower limit of a device is below the upper     *)
(* one, although each request checks its limit against those it loaded.    *)
LimitsOrdered == \A d \in Devices : soc[d].lower < soc[d].upper
=============================================================================
