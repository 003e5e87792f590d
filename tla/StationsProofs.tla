---------------------------- MODULE StationsProofs ----------------------------
(***************************************************************************)
(* Proofs about Stations for every set of stations, devices, requests and  *)
(* limits.                                                                 *)
(***************************************************************************)
EXTENDS Stations, FiniteSetTheorems, TLAPS

USE StationsAssumption DEF StationsAssumption

-----------------------------------------------------------------------------
(* The inductive invariant.                                                *)

(* Requests are about stations and devices of stations that exist.         *)
RequestsKnow ==
  \A r \in Requests :
    /\ req[r].op \notin {"idle", "tune"} => req[r].at \in known
    /\ req[r].op \in {"add", "remove"} => Home[req[r].device] \in known
    /\ req[r].op = "deleted" => \A d \in req[r].devices : Home[d] \in known

(* The row of a station is held by one request.                            *)
Held ==
  \A q, r \in Requests :
    req[q].op \in Holding /\ req[r].op \in Holding /\ req[q].at = req[r].at => q = r

(* What a request has read under the lock still holds when it commits.     *)
AddSees(r) ==
  req[r].op = "add" =>
    /\ Home[req[r].device] = req[r].at
    /\ req[r].at \in active
    /\ Cardinality(ActiveAt(req[r].at)) < MaxDevices
    /\ req[r].flag <=> req[r].at \in flag
RemoveSees(r) ==
  req[r].op = "remove" =>
    /\ Home[req[r].device] = req[r].at
    /\ req[r].at \in known
    /\ req[r].rest = ActiveAt(req[r].at) \ {req[r].device}
DeleteSees(r) ==
  req[r].op = "deleted" => req[r].devices = ActiveAt(req[r].at)
Seen == \A r \in Requests : AddSees(r) /\ RemoveSees(r) /\ DeleteSees(r)

(* A deleted station is not active, so that no device is added to it.      *)
Resting ==
  \A s \in Stations :
    /\ wiped[s] = "resting" => s \notin active
    /\ s \notin known => wiped[s] = "never"

DevicesSafe ==
  /\ Held /\ Seen /\ Resting
  /\ FlagTellsDevices /\ DevicesLimited /\ DeletedStationsRest

(* A request knows of a moment without bindings from the time at which its *)
(* station has none.                                                       *)
Noticed ==
  \A r \in Requests :
    /\ req[r].op \in {"delete", "stop"} /\ req[r].at \notin bound => r \in lapse
    /\ req[r].op \in {"deleting", "stopping", "deleted", "stopped"} => r \in lapse

-----------------------------------------------------------------------------
(* Types.                                                                  *)

(* Every step keeps every variable in its type.                            *)
LEMMA TypeStep ==
  ASSUME TypeOK, RequestsKnow, [Next]_vars
  PROVE  TypeOK' /\ RequestsKnow'
<1> USE DEF TypeOK, RequestsKnow, Steps, rows, Idle, Begin, End, Ranges
<1>1. CASE UNCHANGED vars
  BY <1>1 DEF vars
<1>2. ASSUME NEW s \in Stations, Unbind(s)
      PROVE  TypeOK' /\ RequestsKnow'
  BY <1>2 DEF Unbind, Stopping
<1>3. ASSUME NEW s \in Stations, NEW D \in SUBSET Devices, Create(s, D)
      PROVE  TypeOK' /\ RequestsKnow'
  BY <1>3 DEF Create
<1>4. ASSUME NEW r \in Requests, NEW d \in Devices, Add(r, d)
      PROVE  TypeOK' /\ RequestsKnow'
  BY <1>4 DEF Add
<1>5. ASSUME NEW r \in Requests, NEW d \in Devices, Remove(r, d)
      PROVE  TypeOK' /\ RequestsKnow'
  BY <1>5 DEF Remove, ActiveAt
<1>6. ASSUME NEW r \in Requests, NEW d \in Devices, Tune(r, d)
      PROVE  TypeOK' /\ RequestsKnow'
  BY <1>6 DEF Tune
<1>7. ASSUME NEW r \in Requests, NEW s \in Stations, Bind(r, s)
      PROVE  TypeOK' /\ RequestsKnow'
  BY <1>7 DEF Bind
<1>8. ASSUME NEW r \in Requests, NEW s \in Stations, NEW op \in {"delete", "stop", "start"},
             Load(r, s, op)
      PROVE  TypeOK' /\ RequestsKnow'
  BY <1>8 DEF Load
<1>9. ASSUME NEW r \in Requests, AddCommits(r)
      PROVE  TypeOK' /\ RequestsKnow'
  BY <1>9 DEF AddCommits
<1>10. ASSUME NEW r \in Requests, RemoveCommits(r)
       PROVE  TypeOK' /\ RequestsKnow'
  BY <1>10 DEF RemoveCommits
<1>11. ASSUME NEW r \in Requests, TuneCommits(r)
       PROVE  TypeOK' /\ RequestsKnow'
  BY <1>11 DEF TuneCommits
<1>12. ASSUME NEW r \in Requests, BindCommits(r)
       PROVE  TypeOK' /\ RequestsKnow'
  BY <1>12 DEF BindCommits
<1>13. ASSUME NEW r \in Requests, Check(r)
       PROVE  TypeOK' /\ RequestsKnow'
  BY <1>13 DEF Check
<1>14. ASSUME NEW r \in Requests, Flush(r)
       PROVE  TypeOK' /\ RequestsKnow'
  <2>1. CASE req[r].op = "deleting"
    BY <1>14, <2>1 DEF Flush, ActiveAt
  <2>2. CASE req[r].op = "stopping"
    BY <1>14, <2>2 DEF Flush
  <2>3. CASE req[r].op = "start"
    BY <1>14, <2>3 DEF Flush
  <2>4. QED
    BY <1>14, <2>1, <2>2, <2>3 DEF Flush
<1>15. ASSUME NEW r \in Requests, DeleteCommits(r)
       PROVE  TypeOK' /\ RequestsKnow'
  BY <1>15 DEF DeleteCommits
<1>16. ASSUME NEW r \in Requests, UpdateCommits(r)
       PROVE  TypeOK' /\ RequestsKnow'
  BY <1>16 DEF UpdateCommits
<1>17. ASSUME NEW r \in Requests, RollBack(r)
       PROVE  TypeOK' /\ RequestsKnow'
  BY <1>17 DEF RollBack
<1>18. QED
  BY <1>1, <1>2, <1>3, <1>4, <1>5, <1>6, <1>7, <1>8, <1>9, <1>10, <1>11,
     <1>12, <1>13, <1>14, <1>15, <1>16, <1>17
  DEF Next

(* The initial state is typed.                                             *)
LEMMA InitTyped == Init => TypeOK /\ RequestsKnow
<1> SUFFICES ASSUME Init
             PROVE  TypeOK /\ RequestsKnow
  OBVIOUS
<1>1. Ranges \subseteq [lower : Levels, upper : Levels]
  BY DEF Ranges
<1>2. soc \in [Devices -> [lower : Levels, upper : Levels]]
  BY <1>1 DEF Init
<1>3. QED
  BY <1>2 DEF Init, TypeOK, RequestsKnow, Steps, Idle

(* Stations, devices and requests keep their types.                        *)
LEMMA Typing == Spec => [](TypeOK /\ RequestsKnow)
<1>1. QED
  BY InitTyped, TypeStep, PTL DEF Spec

(* Every variable of the stations keeps its type, and a device exists only *)
(* at a station that does (services/wizard_service.py).                    *)
THEOREM TypeCorrect == Spec => []TypeOK
<1>1. QED
  BY Typing, PTL

-----------------------------------------------------------------------------
(* Limits and bindings.                                                    *)

(* No commit crosses the limits of a device.                               *)
LEMMA LimitsStep ==
  ASSUME TypeOK, LimitsOrdered, [Next]_vars
  PROVE  LimitsOrdered'
<1>1. CASE UNCHANGED soc
  BY <1>1 DEF LimitsOrdered
<1>2. ASSUME NEW r \in Requests, TuneCommits(r)
      PROVE  LimitsOrdered'
  <2>1. Tuned(r).lower < Tuned(r).upper
    BY <1>2 DEF TuneCommits, Ranges
  <2>2. \A d \in Devices : soc'[d] = soc[d] \/ soc'[d] = Tuned(r)
    BY <1>2 DEF TuneCommits, TypeOK
  <2>3. QED
    BY <2>1, <2>2 DEF LimitsOrdered
<1>3. QED
  BY <1>1, <1>2, ZenonT(40)
  DEF Next, vars, rows, Unbind, Create, Add, Remove, Tune, Bind, Load, AddCommits,
      RemoveCommits, BindCommits, Check, Flush, DeleteCommits, UpdateCommits, RollBack

(* The limits of every device stay ordered.                                *)
THEOREM LimitsStayOrdered == Spec => []LimitsOrdered
<1>1. Init => LimitsOrdered
  BY DEF Init, LimitsOrdered, Ranges
<1>2. TypeOK /\ LimitsOrdered /\ [Next]_vars => LimitsOrdered'
  BY LimitsStep
<1>3. QED
  BY <1>1, <1>2, TypeCorrect, PTL DEF Spec

(* Every request stays aware of the bindings of its station.               *)
LEMMA NoticeStep ==
  ASSUME TypeOK, Noticed, [Next]_vars
  PROVE  Noticed'
<1> USE DEF TypeOK, Noticed, Steps, rows, Idle, Begin, End
<1>1. CASE UNCHANGED vars
  BY <1>1 DEF vars
<1>2. ASSUME NEW s \in Stations, Unbind(s)
      PROVE  Noticed'
  BY <1>2 DEF Unbind, Stopping
<1>3. ASSUME NEW s \in Stations, NEW D \in SUBSET Devices, Create(s, D)
      PROVE  Noticed'
  BY <1>3 DEF Create
<1>4. ASSUME NEW r \in Requests, NEW d \in Devices, Add(r, d) \/ Remove(r, d) \/ Tune(r, d)
      PROVE  Noticed'
  BY <1>4 DEF Add, Remove, Tune
<1>5. ASSUME NEW r \in Requests, NEW s \in Stations, Bind(r, s)
      PROVE  Noticed'
  BY <1>5 DEF Bind
<1>6. ASSUME NEW r \in Requests, NEW s \in Stations, NEW op \in {"delete", "stop", "start"},
             Load(r, s, op)
      PROVE  Noticed'
  BY <1>6 DEF Load
<1>7. ASSUME NEW r \in Requests, AddCommits(r) \/ RemoveCommits(r) \/ TuneCommits(r)
      PROVE  Noticed'
  BY <1>7 DEF AddCommits, RemoveCommits, TuneCommits
<1>8. ASSUME NEW r \in Requests, BindCommits(r)
      PROVE  Noticed'
  BY <1>8 DEF BindCommits
<1>9. ASSUME NEW r \in Requests, Check(r)
      PROVE  Noticed'
  BY <1>9 DEF Check
<1>10. ASSUME NEW r \in Requests, Flush(r)
       PROVE  Noticed'
  <2>1. CASE req[r].op = "deleting"
    BY <1>10, <2>1 DEF Flush
  <2>2. CASE req[r].op = "stopping"
    BY <1>10, <2>2 DEF Flush
  <2>3. CASE req[r].op = "start"
    BY <1>10, <2>3 DEF Flush
  <2>4. QED
    BY <1>10, <2>1, <2>2, <2>3 DEF Flush
<1>11. ASSUME NEW r \in Requests, DeleteCommits(r) \/ UpdateCommits(r) \/ RollBack(r)
       PROVE  Noticed'
  BY <1>11 DEF DeleteCommits, UpdateCommits, RollBack
<1>12. QED
  BY <1>1, <1>2, <1>3, <1>4, <1>5, <1>6, <1>7, <1>8, <1>9, <1>10, <1>11 DEF Next

(* A station that stays bound while a request has it loaded and writes is  *)
(* neither stopped nor deleted by it, whatever happens to other stations.  *)
THEOREM BoundStationsAreKept == Spec => []StopsRespectBindings
<1>1. Init => Noticed
  BY DEF Init, Noticed, Idle
<1>2. TypeOK /\ Noticed /\ [Next]_vars => Noticed'
  BY NoticeStep
<1>3. Noticed => StopsRespectBindings
  BY DEF Noticed, StopsRespectBindings
<1>4. QED
  BY <1>1, <1>2, <1>3, TypeCorrect, PTL DEF Spec

-----------------------------------------------------------------------------
(* Devices.                                                                *)

(* The active devices of a station change with its devices only.           *)
LEMMA SameDevices ==
  ASSUME NEW s \in Stations, \A d \in Devices : Home[d] = s => dev'[d] = dev[d]
  PROVE  ActiveAt(s)' = ActiveAt(s)
BY DEF ActiveAt

(* A station has finitely many active devices.                             *)
LEMMA DevicesFinite ==
  ASSUME NEW s \in Stations
  PROVE  IsFiniteSet(ActiveAt(s)) /\ Cardinality(ActiveAt(s)) \in Nat
<1>1. ActiveAt(s) \in SUBSET Devices
  BY DEF ActiveAt
<1>2. QED
  BY <1>1, FS_Subset, FS_CardinalityType

(* What concerns no row concerns no device.                                *)
LEMMA RowsRest ==
  ASSUME Resting, FlagTellsDevices, DevicesLimited, DeletedStationsRest,
         UNCHANGED <<known, active, flag, dev, wiped>>
  PROVE  /\ Resting' /\ FlagTellsDevices' /\ DevicesLimited' /\ DeletedStationsRest'
         /\ \A s \in Stations : ActiveAt(s)' = ActiveAt(s)
<1>1. \A s \in Stations : ActiveAt(s)' = ActiveAt(s)
  BY SameDevices
<1>2. QED
  BY <1>1 DEF Resting, FlagTellsDevices, DevicesLimited, DeletedStationsRest

(* A request that ends without the lock leaves the others what they saw.   *)
LEMMA OthersRest ==
  ASSUME TypeOK, Held, Seen, NEW r \in Requests, UNCHANGED <<known, active, flag, dev>>,
         \A q \in Requests \ {r} : req'[q] = req[q],
         req'[r].op \notin Holding
  PROVE  Held' /\ Seen'
<1>1. \A s \in Stations : ActiveAt(s)' = ActiveAt(s)
  BY SameDevices
<1>2. \A q \in Requests : req[q].op \in Holding => req[q].at \in Stations
  BY DEF TypeOK, Steps, Holding
<1>3. Held'
  BY DEF Held, Holding
<1>4. ASSUME NEW q \in Requests
      PROVE  AddSees(q)' /\ RemoveSees(q)' /\ DeleteSees(q)'
  <2>1. CASE q = r
    BY <2>1 DEF AddSees, RemoveSees, DeleteSees, Holding
  <2>2. CASE q # r
    BY <1>1, <1>2, <2>2 DEF Seen, AddSees, RemoveSees, DeleteSees, Holding
  <2>3. QED
    BY <2>1, <2>2
<1>5. QED
  BY <1>3, <1>4 DEF Seen

(* The holder of a station commits: the others, who hold other stations,   *)
(* keep what they saw.                                                     *)
LEMMA HolderCommits ==
  ASSUME TypeOK, Held, Seen, NEW r \in Requests, req[r].op \in Holding, UNCHANGED known,
         \A t \in Stations \ {req[r].at} :
           /\ t \in active' <=> t \in active
           /\ t \in flag' <=> t \in flag
           /\ ActiveAt(t)' = ActiveAt(t),
         End(r)
  PROVE  Held' /\ Seen'
<1>1. /\ req'[r].op = "idle"
      /\ \A q \in Requests \ {r} : req'[q] = req[q]
  BY DEF End, Idle, TypeOK
<1>2. \A q \in Requests : req[q].op \in Holding => req[q].at \in Stations
  BY DEF TypeOK, Steps, Holding
<1>3. Held'
  BY <1>1 DEF Held, Holding
<1>4. ASSUME NEW q \in Requests
      PROVE  AddSees(q)' /\ RemoveSees(q)' /\ DeleteSees(q)'
  <2>1. CASE q = r
    BY <1>1, <2>1 DEF AddSees, RemoveSees, DeleteSees
  <2>2. CASE req[q].op \in Holding /\ q # r
    <3>1. req[q].at \in Stations \ {req[r].at}
      BY <1>2, <2>2 DEF Held
    <3>2. QED
      BY <1>1, <2>2, <3>1 DEF Seen, AddSees, RemoveSees, DeleteSees
  <2>3. CASE req[q].op \notin Holding /\ q # r
    BY <1>1, <2>3 DEF AddSees, RemoveSees, DeleteSees, Holding
  <2>4. QED
    BY <2>1, <2>2, <2>3
<1>5. QED
  BY <1>3, <1>4 DEF Seen

(* A request takes the row of a free station and sees what is there.       *)
LEMMA HolderBegins ==
  ASSUME TypeOK, Held, Seen, NEW r \in Requests, NEW step \in Steps, Begin(r, step),
         step.op \in Holding, Free(step.at), UNCHANGED <<known, active, flag, dev>>,
         step.op = "add" =>
           /\ Home[step.device] = step.at
           /\ step.at \in active
           /\ Cardinality(ActiveAt(step.at)) < MaxDevices
           /\ step.flag <=> step.at \in flag,
         step.op = "remove" =>
           /\ Home[step.device] = step.at
           /\ step.at \in known
           /\ step.rest = ActiveAt(step.at) \ {step.device},
         step.op = "deleted" => step.devices = ActiveAt(step.at)
  PROVE  Held' /\ Seen'
<1>1. /\ req'[r] = step
      /\ \A q \in Requests \ {r} : req'[q] = req[q]
  BY DEF Begin, TypeOK
<1>2. \A s \in Stations : ActiveAt(s)' = ActiveAt(s)
  BY SameDevices
<1>3. /\ \A q \in Requests : req[q].op \in Holding => req[q].at \in Stations
      /\ step.at \in Stations
  BY DEF TypeOK, Steps, Holding
<1>4. Held'
  BY <1>1 DEF Held, Free
<1>5. ASSUME NEW q \in Requests
      PROVE  AddSees(q)' /\ RemoveSees(q)' /\ DeleteSees(q)'
  <2>1. CASE q = r
    BY <1>1, <1>2, <1>3, <2>1 DEF AddSees, RemoveSees, DeleteSees
  <2>2. CASE q # r
    BY <1>1, <1>2, <1>3, <2>2 DEF Seen, AddSees, RemoveSees, DeleteSees, Holding
  <2>3. QED
    BY <2>1, <2>2
<1>6. QED
  BY <1>4, <1>5 DEF Seen

(* Every step keeps the devices, the flag and the locks in order.          *)
LEMMA DevicesStep ==
  ASSUME TypeOK, RequestsKnow, DevicesSafe, [Next]_vars
  PROVE  DevicesSafe'
<1> USE DEF DevicesSafe
<1>1. CASE UNCHANGED vars
  <2>1. Held' /\ Seen'
    BY <1>1 DEF vars, rows, Held, Seen, AddSees, RemoveSees, DeleteSees, ActiveAt
  <2>2. QED
    BY <1>1, <2>1, RowsRest DEF vars, rows
<1>2. ASSUME NEW s \in Stations, Unbind(s)
      PROVE  DevicesSafe'
  <2>1. Held' /\ Seen'
    BY <1>2 DEF Unbind, Held, Seen, AddSees, RemoveSees, DeleteSees, ActiveAt
  <2>2. QED
    BY <1>2, <2>1, RowsRest DEF Unbind
<1>3. ASSUME NEW s \in Stations, NEW D \in SUBSET Devices, Create(s, D)
      PROVE  DevicesSafe'
  <2>1. \A t \in Stations \ {s} : ActiveAt(t)' = ActiveAt(t)
    BY <1>3, SameDevices DEF Create
  <2>2. ActiveAt(s) = {} /\ ActiveAt(s)' = D
    BY <1>3 DEF Create, ActiveAt, TypeOK
  <2>3. /\ UNCHANGED <<req, wiped>> /\ s \notin known
        /\ known' = known \cup {s} /\ active' = active \cup {s}
        /\ \A t \in Stations \ {s} : t \in flag' <=> t \in flag
        /\ s \in flag' <=> D # {}
    BY <1>3 DEF Create, TypeOK
  <2>4. \A q \in Requests : req[q].op \in Holding => req[q].at \in Stations /\ req[q].at # s
    BY <2>3 DEF RequestsKnow, Holding, TypeOK, Steps
  <2>5. Held' /\ Seen'
    BY <2>1, <2>3, <2>4 DEF Held, Seen, AddSees, RemoveSees, DeleteSees, Holding
  <2>6. Resting'
    BY <2>3 DEF Resting
  <2>7. FlagTellsDevices' /\ DeletedStationsRest'
    BY <2>1, <2>2, <2>3 DEF FlagTellsDevices, DeletedStationsRest, Resting
  <2>8. DevicesLimited'
    BY <1>3, <2>1, <2>2 DEF DevicesLimited, Create
  <2>9. QED
    BY <2>5, <2>6, <2>7, <2>8
<1>4. ASSUME NEW r \in Requests, NEW d \in Devices, Add(r, d)
      PROVE  DevicesSafe'
  <2> DEFINE step == [op |-> "add", at |-> Home[d], device |-> d, flag |-> Home[d] \in flag]
  <2>1. step \in Steps
    BY DEF Steps
  <2>2. Held' /\ Seen'
    BY <1>4, <2>1, HolderBegins DEF Add, rows, Holding
  <2>3. QED
    BY <1>4, <2>2, RowsRest DEF Add, rows
<1>5. ASSUME NEW r \in Requests, NEW d \in Devices, Remove(r, d)
      PROVE  DevicesSafe'
  <2> DEFINE step == [op |-> "remove", at |-> Home[d], device |-> d,
                      rest |-> ActiveAt(Home[d]) \ {d}]
  <2>1. step \in Steps
    BY DEF Steps, ActiveAt
  <2>2. Held' /\ Seen'
    BY <1>5, <2>1, HolderBegins DEF Remove, rows, Holding, TypeOK
  <2>3. QED
    BY <1>5, <2>2, RowsRest DEF Remove, rows
<1>6. ASSUME NEW r \in Requests, NEW d \in Devices, Tune(r, d)
      PROVE  DevicesSafe'
  <2>1. Held' /\ Seen'
    BY <1>6, OthersRest DEF Tune, rows, Begin, Holding, TypeOK
  <2>2. QED
    BY <1>6, <2>1, RowsRest DEF Tune, rows
<1>7. ASSUME NEW r \in Requests, NEW s \in Stations, NEW op \in {"delete", "stop", "start"},
             Bind(r, s) \/ Load(r, s, op)
      PROVE  DevicesSafe'
  <2>1. Held' /\ Seen'
    BY <1>7, OthersRest DEF Bind, Load, rows, Begin, Holding, TypeOK
  <2>2. QED
    BY <1>7, <2>1, RowsRest DEF Bind, Load, rows
<1>8. ASSUME NEW r \in Requests, AddCommits(r)
      PROVE  DevicesSafe'
  <2>0. PICK s \in Stations, d \in Devices : s = req[r].at /\ d = req[r].device
    BY <1>8 DEF AddCommits, TypeOK, Steps
  <2>1. /\ Home[d] = s /\ s \in active
        /\ Cardinality(ActiveAt(s)) < MaxDevices /\ (req[r].flag <=> s \in flag)
    BY <1>8, <2>0 DEF AddCommits, Seen, AddSees
  <2>2. /\ \A t \in Stations \ {s} : ActiveAt(t)' = ActiveAt(t)
        /\ ActiveAt(s)' = ActiveAt(s) \cup {d}
    BY <1>8, <2>0, <2>1, SameDevices DEF AddCommits, ActiveAt, TypeOK
  <2>3. flag' = flag \cup {s} /\ UNCHANGED <<known, active, wiped>>
    BY <1>8, <2>0, <2>1 DEF AddCommits
  <2>4. Held' /\ Seen'
    BY <1>8, <2>0, <2>1, <2>2, <2>3, HolderCommits DEF AddCommits, Holding
  <2>5. Resting' /\ FlagTellsDevices' /\ DeletedStationsRest'
    BY <2>1, <2>2, <2>3 DEF Resting, FlagTellsDevices, DeletedStationsRest
  <2>6. Cardinality(ActiveAt(s) \cup {d}) <= MaxDevices
    <3>1. IsFiniteSet(ActiveAt(s)) /\ Cardinality(ActiveAt(s)) \in Nat
      BY DevicesFinite
    <3>2. Cardinality(ActiveAt(s) \cup {d}) \in {Cardinality(ActiveAt(s)), Cardinality(ActiveAt(s)) + 1}
      BY <3>1, FS_AddElement
    <3>3. QED
      BY <2>1, <3>1, <3>2
  <2>7. DevicesLimited'
    BY <2>1, <2>2, <2>6 DEF DevicesLimited
  <2>8. QED
    BY <2>4, <2>5, <2>7
<1>9. ASSUME NEW r \in Requests, RemoveCommits(r)
      PROVE  DevicesSafe'
  <2>0. PICK s \in Stations, d \in Devices : s = req[r].at /\ d = req[r].device
    BY <1>9 DEF RemoveCommits, TypeOK, Steps
  <2>1. Home[d] = s /\ req[r].rest = ActiveAt(s) \ {d}
    BY <1>9, <2>0 DEF RemoveCommits, Seen, RemoveSees
  <2>2. /\ \A t \in Stations \ {s} : ActiveAt(t)' = ActiveAt(t)
        /\ ActiveAt(s)' = ActiveAt(s) \ {d}
    BY <1>9, <2>0, <2>1, SameDevices DEF RemoveCommits, ActiveAt, TypeOK
  <2>3. /\ flag' = IF ActiveAt(s) \ {d} = {} THEN flag \ {s} ELSE flag
        /\ UNCHANGED <<known, active, wiped>>
    BY <1>9, <2>0, <2>1 DEF RemoveCommits
  <2>4. Held' /\ Seen'
    BY <1>9, <2>0, <2>2, <2>3, HolderCommits DEF RemoveCommits, Holding
  <2>5. Resting' /\ FlagTellsDevices' /\ DeletedStationsRest'
    BY <2>1, <2>2, <2>3 DEF Resting, FlagTellsDevices, DeletedStationsRest
  <2>6. Cardinality(ActiveAt(s) \ {d}) <= MaxDevices
    <3>1. Cardinality(ActiveAt(s) \ {d}) <= Cardinality(ActiveAt(s))
          /\ Cardinality(ActiveAt(s) \ {d}) \in Nat
      <4>1. IsFiniteSet(ActiveAt(s)) /\ ActiveAt(s) \ {d} \in SUBSET ActiveAt(s)
        BY DevicesFinite
      <4>2. QED
        BY <4>1, FS_Subset, FS_CardinalityType
    <3>2. Cardinality(ActiveAt(s)) <= MaxDevices /\ Cardinality(ActiveAt(s)) \in Nat
      BY DevicesFinite DEF DevicesLimited
    <3>3. QED
      BY <3>1, <3>2
  <2>7. DevicesLimited'
    BY <2>1, <2>2, <2>6 DEF DevicesLimited
  <2>8. QED
    BY <2>4, <2>5, <2>7
<1>10. ASSUME NEW r \in Requests, TuneCommits(r) \/ BindCommits(r) \/ Check(r) \/ RollBack(r)
       PROVE  DevicesSafe'
  <2>1. /\ UNCHANGED <<known, active, flag, dev, wiped>>
        /\ \A q \in Requests \ {r} : req'[q] = req[q]
        /\ req'[r].op \notin Holding
    BY <1>10
    DEF TuneCommits, BindCommits, Check, RollBack, rows, Begin, End, Idle, Holding, TypeOK
  <2>2. QED
    BY <2>1, RowsRest, OthersRest
<1>11. ASSUME NEW r \in Requests, Flush(r)
       PROVE  DevicesSafe'
  <2>1. req[r].at \in Stations /\ UNCHANGED rows /\ UNCHANGED wiped
    BY <1>11 DEF Flush, TypeOK, Steps
  <2> DEFINE S == [op |-> "deleted", at |-> req[r].at, devices |-> ActiveAt(req[r].at)]
             T == [op |-> "stopped", at |-> req[r].at]
             U == [op |-> "started", at |-> req[r].at]
  <2>2. S \in Steps /\ T \in Steps /\ U \in Steps
    BY <2>1 DEF Steps, ActiveAt
  <2>3. CASE req[r].op = "deleting"
    BY <1>11, <2>2, <2>3, HolderBegins, RowsRest DEF Flush, rows, Holding
  <2>4. CASE req[r].op = "stopping"
    BY <1>11, <2>2, <2>4, HolderBegins, RowsRest DEF Flush, rows, Holding
  <2>5. CASE req[r].op = "start"
    BY <1>11, <2>2, <2>5, HolderBegins, RowsRest DEF Flush, rows, Holding
  <2>6. QED
    BY <1>11, <2>3, <2>4, <2>5 DEF Flush
<1>12. ASSUME NEW r \in Requests, DeleteCommits(r)
       PROVE  DevicesSafe'
  <2>0. PICK s \in Stations : s = req[r].at
    BY <1>12 DEF DeleteCommits, TypeOK, Steps
  <2>1. s \in known /\ req[r].devices = ActiveAt(s)
    BY <1>12, <2>0 DEF DeleteCommits, Seen, DeleteSees, RequestsKnow
  <2>2. /\ \A t \in Stations \ {s} : ActiveAt(t)' = ActiveAt(t)
        /\ ActiveAt(s)' = {}
    BY <1>12, <2>0, <2>1 DEF DeleteCommits, ActiveAt, TypeOK
  <2>3. /\ active' = active \ {s} /\ wiped' = [wiped EXCEPT ![s] = "resting"]
        /\ UNCHANGED <<known, flag>>
    BY <1>12, <2>0 DEF DeleteCommits
  <2>4. Held' /\ Seen'
    BY <1>12, <2>0, <2>2, <2>3, HolderCommits DEF DeleteCommits, Holding
  <2>5. Resting' /\ FlagTellsDevices' /\ DeletedStationsRest'
    BY <2>1, <2>2, <2>3 DEF Resting, FlagTellsDevices, DeletedStationsRest, TypeOK
  <2>6. DevicesLimited'
    BY <2>1, <2>2, FS_EmptySet DEF DevicesLimited
  <2>7. QED
    BY <2>4, <2>5, <2>6
<1>13. ASSUME NEW r \in Requests, UpdateCommits(r)
       PROVE  DevicesSafe'
  <2>0. PICK s \in Stations : s = req[r].at
    BY <1>13 DEF UpdateCommits, TypeOK, Steps
  <2>1. s \in known
    BY <1>13, <2>0 DEF UpdateCommits, RequestsKnow
  <2>2. \A t \in Stations : ActiveAt(t)' = ActiveAt(t)
    BY <1>13, SameDevices DEF UpdateCommits
  <2>3. /\ UNCHANGED <<known, flag>>
        /\ \A t \in Stations \ {s} : (t \in active' <=> t \in active) /\ wiped'[t] = wiped[t]
        /\ wiped'[s] = "resting" => wiped[s] = "resting" /\ s \notin active'
        /\ wiped'[s] = "never" <=> wiped[s] = "never"
    BY <1>13, <2>0, <2>1 DEF UpdateCommits, TypeOK
  <2>4. Held' /\ Seen'
    BY <1>13, <2>0, <2>2, <2>3, HolderCommits DEF UpdateCommits, Holding
  <2>5. Resting' /\ FlagTellsDevices' /\ DeletedStationsRest' /\ DevicesLimited'
    BY <2>1, <2>2, <2>3 DEF Resting, FlagTellsDevices, DeletedStationsRest, DevicesLimited
  <2>6. QED
    BY <2>4, <2>5
<1>14. QED
  BY <1>1, <1>2, <1>3, <1>4, <1>5, <1>6, <1>7, <1>8, <1>9, <1>10, <1>11, <1>12, <1>13
  DEF Next

(* The invariant about devices holds throughout.                           *)
LEMMA DevicesInvariance == Spec => []DevicesSafe
<1>1. Init => DevicesSafe
  <2> SUFFICES ASSUME Init
               PROVE  DevicesSafe
    OBVIOUS
  <2>1. \A s \in Stations : ActiveAt(s) = {}
    BY DEF Init, ActiveAt
  <2>2. QED
    BY <2>1, FS_EmptySet
    DEF Init, DevicesSafe, Held, Seen, AddSees, RemoveSees, DeleteSees, Resting, Idle,
        FlagTellsDevices, DevicesLimited, DeletedStationsRest, Holding
<1>2. TypeOK /\ RequestsKnow /\ DevicesSafe /\ [Next]_vars => DevicesSafe'
  BY DevicesStep
<1>3. QED
  BY <1>1, <1>2, Typing, PTL DEF Spec

(* has_storage tells whether a station has devices.                        *)
THEOREM FlagsTellDevices == Spec => []FlagTellsDevices
<1>1. DevicesSafe => FlagTellsDevices
  BY DEF DevicesSafe
<1>2. QED
  BY <1>1, DevicesInvariance, PTL

(* No station has more active devices than the limit.                      *)
THEOREM DevicesStayLimited == Spec => []DevicesLimited
<1>1. DevicesSafe => DevicesLimited
  BY DEF DevicesSafe
<1>2. QED
  BY <1>1, DevicesInvariance, PTL

(* A deleted station has no active device until it is started again.       *)
THEOREM DeletedStationsStayEmpty == Spec => []DeletedStationsRest
<1>1. DevicesSafe => DeletedStationsRest
  BY DEF DevicesSafe
<1>2. QED
  BY <1>1, DevicesInvariance, PTL
=============================================================================
