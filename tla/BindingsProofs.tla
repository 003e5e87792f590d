--------------------------- MODULE BindingsProofs ---------------------------
(***************************************************************************)
(* Replacements of a user's bindings, for any number of them and any       *)
(* resources.                                                              *)
(*                                                                         *)
(* What a DELETE does not see was committed after it started, hence by a   *)
(* replacement that had not ended when this one began; no other row is     *)
(* left when the request is done (Witnessed).  What an INSERT has been let *)
(* through with, no other one has or will insert (Admitted).  Both rest on *)
(* where rows come from (Signed), on what is past (Ordered) and on what a  *)
(* request may name (Named).                                               *)
(***************************************************************************)
EXTENDS Bindings, TLAPS

(* A row was named by the request that wrote it.                           *)
Signed ==
  \A b \in rows : b.by # Seed => req[b.by].phase = "done" /\ b.of \in req[b.by].ids

(* What had ended before a request has ended, and is not the request.      *)
Ordered ==
  \A r \in Requests : r \notin past[r] /\ \A q \in past[r] : req[q].phase \in Ended

(* A row of a replacement that had not ended when r began.                 *)
Fresh(b, r) == b.by \in Requests \ past[r]

(* A request names resources of one kind.                                  *)
Named == \A r \in Requests : req[r].ids \subseteq Table(req[r].kind)

(* A DELETE sees every row that is not fresh, then locks it, and none is   *)
(* left when the request is done.                                          *)
Witnessed ==
  \A r \in Requests : \A b \in rows :
    b.of \in Table(req[r].kind) =>
      /\ req[r].phase = "deleting" => b \in req[r].snap \/ Fresh(b, r)
      /\ req[r].phase \in {"deleted", "inserted"} => b \in req[r].locks \/ Fresh(b, r)
      /\ req[r].phase = "done" => Fresh(b, r)

(* A request that has inserted does not meet its bindings anywhere.        *)
Admitted ==
  \A r \in Requests : req[r].phase = "inserted" =>
    /\ \A b \in rows : b \in req[r].locks \/ b.of \notin req[r].ids
    /\ \A q \in Requests : q # r /\ req[q].phase = "inserted" => req[q].ids \cap req[r].ids = {}

Safe == Signed /\ Named /\ Ordered /\ Witnessed /\ Admitted

Phases == {"new"} \cup Open \cup Ended

-----------------------------------------------------------------------------
(* A request moves alone, and keeps what it was asked for.                 *)
LEMMA Moves ==
  ASSUME TypeOK, NEW r \in Requests, NEW phase \in Phases,
         NEW snap \in SUBSET Row, NEW locks \in SUBSET Row, Move(r, phase, snap, locks)
  PROVE  /\ req' \in [Requests -> [phase : Phases, kind : {"trader", "storage_operator"},
                                   ids : SUBSET Resources, snap : SUBSET Row, locks : SUBSET Row]]
         /\ \A q \in Requests : q # r => req'[q] = req[q]
         /\ req'[r].phase = phase /\ req'[r].snap = snap /\ req'[r].locks = locks
         /\ req'[r].kind = req[r].kind /\ req'[r].ids = req[r].ids
<1>1. req \in [Requests -> [phase : Phases, kind : {"trader", "storage_operator"},
                            ids : SUBSET Resources, snap : SUBSET Row, locks : SUBSET Row]]
  BY DEF TypeOK, Phases
<1>2. req' = [req EXCEPT ![r] = [@ EXCEPT !.phase = phase, !.snap = snap, !.locks = locks]]
  BY <1>1 DEF Move
<1>3. QED
  BY <1>1, <1>2

(* A step that moves no request to or from a phase that counts, and leaves *)
(* the rows, keeps what is known of both.                                  *)
LEMMA Quiet ==
  ASSUME TypeOK, Safe, NEW r \in Requests, UNCHANGED <<rows, past>>,
         \A q \in Requests : q # r => req'[q] = req[q],
         req[r].phase \notin Ended,
         req'[r].phase \notin {"done", "inserted"},
         req'[r].kind = req[r].kind, req'[r].ids = req[r].ids,
         req'[r].phase = "deleting" => \A b \in rows : b.of \in Table(req[r].kind) =>
            b \in req'[r].snap \/ Fresh(b, r),
         req'[r].phase = "deleted" => \A b \in rows : b.of \in Table(req[r].kind) =>
            b \in req'[r].locks \/ Fresh(b, r)
  PROVE  Safe'
<1>1. Signed'
  <2>1. SUFFICES ASSUME NEW b \in rows, b.by # Seed
                 PROVE  req'[b.by].phase = "done" /\ b.of \in req'[b.by].ids
    BY DEF Signed
  <2>2. b.by \in Requests
    BY <2>1 DEF TypeOK, Row
  <2>3. b.by # r
    BY <2>1 DEF Safe, Signed, Ended
  <2>4. QED
    BY <2>1, <2>2, <2>3 DEF Safe, Signed
<1>2. Ordered'
  BY DEF Safe, Ordered, TypeOK
<1>3. Witnessed'
  BY DEF Safe, Witnessed, Fresh
<1>4. Admitted'
  BY DEF Safe, Admitted
<1>5. Named'
  BY DEF Safe, Named
<1>6. QED
  BY <1>1, <1>2, <1>3, <1>4, <1>5 DEF Safe

-----------------------------------------------------------------------------
(* Every step keeps every variable in its type.                            *)
LEMMA TypeStep == TypeOK /\ Safe /\ [Next]_vars => TypeOK'
<1> SUFFICES ASSUME TypeOK, Safe, [Next]_vars
             PROVE  TypeOK'
  OBVIOUS
<1> USE BindingsAssumption
<1>1. \A r \in Requests : /\ req[r].snap \in SUBSET Row /\ req[r].locks \in SUBSET Row
                          /\ req[r].ids \in SUBSET Resources
  BY DEF TypeOK
<1>2. {} \in SUBSET Row /\ rows \in SUBSET Row
  BY DEF TypeOK
<1>3. ASSUME NEW r \in Requests, NEW phase \in Phases, NEW snap \in SUBSET Row,
             NEW locks \in SUBSET Row, Move(r, phase, snap, locks),
             UNCHANGED <<role, allowed, live, rows, past>>
      PROVE  TypeOK'
  BY <1>3, Moves DEF TypeOK, Phases
<1>4. ASSUME NEW r \in Requests, NEW kind \in {"trader", "storage_operator"},
             NEW ids \in SUBSET Resources, Validate(r, kind, ids)
      PROVE  TypeOK'
  <2>1. req' = [req EXCEPT ![r] = [@ EXCEPT !.phase = "valid", !.kind = kind, !.ids = ids]]
    BY <1>4 DEF Validate, TypeOK
  <2>2. req' \in [Requests -> [phase : Phases, kind : {"trader", "storage_operator"},
                               ids : SUBSET Resources, snap : SUBSET Row, locks : SUBSET Row]]
    <3>1. /\ req[r] \in [phase : Phases, kind : {"trader", "storage_operator"},
                          ids : SUBSET Resources, snap : SUBSET Row, locks : SUBSET Row]
          /\ "valid" \in Phases
      BY DEF TypeOK, Phases, Open
    <3>2. [req[r] EXCEPT !.phase = "valid", !.kind = kind, !.ids = ids]
            \in [phase : Phases, kind : {"trader", "storage_operator"},
                 ids : SUBSET Resources, snap : SUBSET Row, locks : SUBSET Row]
      BY <3>1
    <3>3. QED
      BY <2>1, <3>2 DEF TypeOK, Phases
  <2>3. QED
    BY <1>4, <2>2 DEF Validate, TypeOK, Phases
<1>5. ASSUME NEW r \in Requests, Select(r) \/ Delete(r)
      PROVE  TypeOK'
  <2>1. Visible(r) \in SUBSET Row
    BY <1>2 DEF Visible
  <2>2. "selecting" \in Phases /\ "deleting" \in Phases
    BY DEF Phases, Open
  <2>3. QED
    BY <1>1, <1>2, <1>3, <1>5, <2>1, <2>2 DEF Select, Delete
<1>6. ASSUME NEW r \in Requests, SelectEnds(r) \/ DeleteEnds(r)
      PROVE  TypeOK'
  <2>1. req[r].snap \cap rows \in SUBSET Row
    BY <1>2
  <2>2. "selected" \in Phases /\ "deleted" \in Phases
    BY DEF Phases, Open
  <2>3. QED
    BY <1>2, <1>3, <1>6, <2>1, <2>2 DEF SelectEnds, DeleteEnds
<1>7. ASSUME NEW r \in Requests, Insert(r)
      PROVE  TypeOK'
  <2>1. PICK phase \in {"failed", "inserted"} : Move(r, phase, {}, req[r].locks)
    BY <1>7 DEF Insert
  <2>2. phase \in Phases
    BY DEF Phases, Open, Ended
  <2>3. QED
    BY <1>1, <1>2, <1>3, <1>7, <2>1, <2>2 DEF Insert
<1>8. ASSUME NEW r \in Requests, Commit(r)
      PROVE  TypeOK'
  <2> DEFINE new == [of : req[r].ids, by : {r}]
  <2>1. new \subseteq Row
    BY <1>1 DEF Row
  <2>2. rows' = (rows \ req[r].locks) \cup new
    BY <1>8 DEF Commit
  <2>3. \A b, c \in rows' : b.of = c.of => b = c
    <3>1. SUFFICES ASSUME NEW b \in rows', NEW c \in rows', b.of = c.of
                   PROVE  b = c
      OBVIOUS
    <3>2. CASE b \in new /\ c \in new
      BY <3>1, <3>2
    <3>3. CASE b \notin new /\ c \notin new
      BY <2>2, <3>1, <3>3 DEF TypeOK
    <3>4. ASSUME NEW x \in new, NEW y \in rows \ req[r].locks
          PROVE  x.of # y.of
      BY <1>8, <3>4 DEF Commit, Safe, Admitted
    <3>5. QED
      BY <2>2, <3>1, <3>2, <3>3, <3>4
  <2>4. "done" \in Phases
    BY DEF Phases, Ended
  <2>5. QED
    BY <1>2, <1>8, <2>1, <2>2, <2>3, <2>4, Moves DEF Commit, TypeOK, Phases
<1>9. ASSUME NEW r \in Requests, RollBack(r)
      PROVE  TypeOK'
  <2>1. "failed" \in Phases
    BY DEF Phases, Ended
  <2>2. QED
    BY <1>2, <1>3, <1>9, <2>1 DEF RollBack
<1>10. CASE ChangeUser
  BY <1>10 DEF ChangeUser, TypeOK
<1>11. ASSUME NEW x \in Resources, Deactivate(x) \/ Reactivate(x)
       PROVE  TypeOK'
  BY <1>11 DEF Deactivate, Reactivate, TypeOK
<1>12. CASE UNCHANGED vars
  BY <1>12 DEF vars, TypeOK
<1>13. QED
  BY <1>4, <1>5, <1>6, <1>7, <1>8, <1>9, <1>10, <1>11, <1>12 DEF Next

-----------------------------------------------------------------------------
(* Every step keeps what is known of rows and requests.                    *)
LEMMA SafeStep == TypeOK /\ Safe /\ [Next]_vars => Safe'
<1> SUFFICES ASSUME TypeOK, Safe, [Next]_vars
             PROVE  Safe'
  OBVIOUS
<1> USE BindingsAssumption
<1>1. \A r \in Requests : /\ req[r].snap \in SUBSET Row /\ req[r].locks \in SUBSET Row
                          /\ req[r].ids \in SUBSET Resources
  BY DEF TypeOK
<1>2. {} \in SUBSET Row /\ rows \in SUBSET Row
  BY DEF TypeOK
<1>3. {"new", "valid", "selecting", "selected", "deleting", "deleted", "inserted", "done", "failed"}
        \subseteq Phases
  BY DEF Phases, Open, Ended
<1>4. ASSUME UNCHANGED <<rows, req, past>>
      PROVE  Safe'
  BY <1>4 DEF Safe, Signed, Named, Ordered, Witnessed, Admitted, Fresh
<1>5. ASSUME NEW r \in Requests, NEW kind \in {"trader", "storage_operator"},
             NEW ids \in SUBSET Resources, Validate(r, kind, ids)
      PROVE  Safe'
  <2>1. /\ \A q \in Requests : q # r => req'[q] = req[q]
        /\ req[r].phase = "new" /\ req'[r].phase = "valid"
        /\ UNCHANGED rows
    BY <1>5 DEF Validate, TypeOK
  <2>2. /\ past'[r] = {q \in Requests : req[q].phase \in Ended}
        /\ \A q \in Requests : q # r => past'[q] = past[q]
    BY <1>5 DEF Validate, TypeOK
  <2>3. Signed'
    <3>1. SUFFICES ASSUME NEW b \in rows, b.by # Seed
                   PROVE  req'[b.by].phase = "done" /\ b.of \in req'[b.by].ids
      BY <2>1 DEF Signed
    <3>2. b.by \in Requests
      BY <1>2, <3>1 DEF Row
    <3>3. b.by # r
      BY <2>1, <3>1 DEF Safe, Signed
    <3>4. QED
      BY <2>1, <3>1, <3>2, <3>3 DEF Safe, Signed
  <2>4. Ordered'
    <3>1. ASSUME NEW q \in Requests
          PROVE  q \notin past'[q] /\ \A p \in past'[q] : req'[p].phase \in Ended
      <4>1. \A p \in Requests : req[p].phase \in Ended => req'[p].phase \in Ended
        BY <2>1 DEF Ended
      <4>2. CASE q = r
        BY <2>1, <2>2, <4>1, <4>2 DEF Ended
      <4>3. CASE q # r
        BY <2>2, <4>1, <4>3 DEF Safe, Ordered, TypeOK
      <4>4. QED
        BY <4>2, <4>3
    <3>2. QED
      BY <3>1 DEF Ordered
  <2>5. Witnessed'
    BY <2>1, <2>2 DEF Safe, Witnessed, Fresh
  <2>6. Admitted'
    BY <2>1 DEF Safe, Admitted
  <2>7. Named'
    <3>1. req'[r].kind = kind /\ req'[r].ids = ids /\ ids \subseteq Table(kind)
      BY <1>5 DEF Validate, TypeOK
    <3>2. QED
      BY <2>1, <3>1 DEF Safe, Named
  <2>8. QED
    BY <2>3, <2>4, <2>5, <2>6, <2>7 DEF Safe
<1>6. ASSUME NEW r \in Requests, Select(r) \/ SelectEnds(r) \/ RollBack(r)
      PROVE  Safe'
  <2>1. PICK phase \in {"selecting", "selected", "failed"},
             snap \in SUBSET Row, locks \in SUBSET Row : Move(r, phase, snap, locks)
    BY <1>1, <1>2, <1>6 DEF Select, SelectEnds, RollBack, Visible
  <2>2. UNCHANGED <<rows, past>> /\ req[r].phase \notin Ended
    BY <1>6 DEF Select, SelectEnds, RollBack, Open, Ended
  <2>3. /\ \A q \in Requests : q # r => req'[q] = req[q]
        /\ req'[r].phase = phase /\ req'[r].snap = snap /\ req'[r].locks = locks
        /\ req'[r].kind = req[r].kind /\ req'[r].ids = req[r].ids
    BY <2>1 DEF Move, TypeOK
  <2>4. phase \notin {"done", "inserted", "deleting", "deleted"}
    OBVIOUS
  <2>5. QED
    BY <2>2, <2>3, <2>4, Quiet
<1>7. ASSUME NEW r \in Requests, Delete(r)
      PROVE  Safe'
  <2>1. /\ Move(r, "deleting", Visible(r), req[r].locks)
        /\ UNCHANGED <<rows, past>>
        /\ req[r].phase \notin Ended
        /\ Visible(r) \in SUBSET Row
    BY <1>2, <1>7 DEF Delete, Ended, Visible
  <2>2. \A b \in rows : b.of \in Table(req[r].kind) => b \in Visible(r)
    BY DEF Visible
  <2>3. /\ \A q \in Requests : q # r => req'[q] = req[q]
        /\ req'[r].phase = "deleting" /\ req'[r].snap = Visible(r) /\ req'[r].locks = req[r].locks
        /\ req'[r].kind = req[r].kind /\ req'[r].ids = req[r].ids
    BY <2>1 DEF Move, TypeOK
  <2>4. QED
    BY <2>1, <2>2, <2>3, Quiet
<1>8. ASSUME NEW r \in Requests, DeleteEnds(r)
      PROVE  Safe'
  <2>1. /\ Move(r, "deleted", {}, req[r].snap \cap rows)
        /\ UNCHANGED <<rows, past>>
        /\ req[r].phase \notin Ended
        /\ req[r].snap \cap rows \in SUBSET Row
    BY <1>2, <1>8 DEF DeleteEnds, Ended
  <2>2. \A b \in rows : b.of \in Table(req[r].kind) =>
          b \in req[r].snap \cap rows \/ Fresh(b, r)
    BY <1>8 DEF DeleteEnds, Safe, Witnessed
  <2>3. /\ \A q \in Requests : q # r => req'[q] = req[q]
        /\ req'[r].phase = "deleted" /\ req'[r].snap = {} /\ req'[r].locks = req[r].snap \cap rows
        /\ req'[r].kind = req[r].kind /\ req'[r].ids = req[r].ids
    BY <2>1 DEF Move, TypeOK
  <2>4. QED
    BY <2>1, <2>2, <2>3, Quiet
<1>9. ASSUME NEW r \in Requests, Insert(r)
      PROVE  Safe'
  <2>1. CASE \E b \in rows \ req[r].locks : b.of \in req[r].ids
    <3>1. /\ Move(r, "failed", {}, req[r].locks)
          /\ UNCHANGED <<rows, past>>
          /\ req[r].phase \notin Ended
      BY <1>9, <2>1 DEF Insert, Ended
    <3>2. /\ \A q \in Requests : q # r => req'[q] = req[q]
          /\ req'[r].phase = "failed" /\ req'[r].snap = {} /\ req'[r].locks = req[r].locks
          /\ req'[r].kind = req[r].kind /\ req'[r].ids = req[r].ids
      BY <3>1 DEF Move, TypeOK
    <3>3. QED
      BY <3>1, <3>2, Quiet
  <2>2. CASE ~\E b \in rows \ req[r].locks : b.of \in req[r].ids
    <3>1. /\ Move(r, "inserted", {}, req[r].locks)
          /\ UNCHANGED <<rows, past>>
          /\ req[r].phase = "deleted"
      BY <1>9, <2>2 DEF Insert
    <3>2. /\ \A q \in Requests : q # r => req'[q] = req[q]
          /\ req'[r].phase = "inserted" /\ req'[r].locks = req[r].locks
          /\ req'[r].kind = req[r].kind /\ req'[r].ids = req[r].ids
      BY <3>1 DEF Move, TypeOK
    <3>3. Signed'
      <4>1. SUFFICES ASSUME NEW b \in rows, b.by # Seed
                     PROVE  req'[b.by].phase = "done" /\ b.of \in req'[b.by].ids
        BY <3>1 DEF Signed
      <4>2. b.by \in Requests
        BY <1>2, <4>1 DEF Row
      <4>3. b.by # r
        BY <3>1, <4>1 DEF Safe, Signed
      <4>4. QED
        BY <3>2, <4>1, <4>2, <4>3 DEF Safe, Signed
    <3>4. Ordered'
      BY <3>1, <3>2 DEF Safe, Ordered, TypeOK, Ended
    <3>5. Witnessed'
      BY <3>1, <3>2 DEF Safe, Witnessed, Fresh
    <3>6. \A q \in Requests \ {r} : req[q].phase = "inserted" => req[q].ids \cap req[r].ids = {}
      BY <1>9 DEF Insert
    <3>7. Admitted'
      BY <2>2, <3>1, <3>2, <3>6 DEF Safe, Admitted
    <3>8. Named'
      BY <3>2 DEF Safe, Named
    <3>9. QED
      BY <3>3, <3>4, <3>5, <3>7, <3>8 DEF Safe
  <2>3. QED
    BY <2>1, <2>2
<1>10. ASSUME NEW r \in Requests, Commit(r)
       PROVE  Safe'
  <2>1. /\ \A q \in Requests : q # r => req'[q] = req[q]
        /\ req[r].phase = "inserted" /\ req'[r].phase = "done"
        /\ req'[r].kind = req[r].kind /\ req'[r].ids = req[r].ids
        /\ UNCHANGED past
    BY <1>2, <1>3, <1>10, Moves DEF Commit
  <2>2. ASSUME NEW b \in rows'
        PROVE  b \in rows \/ (b.by = r /\ b.of \in req[r].ids)
    BY <1>10, <2>2 DEF Commit
  <2>3. \A q \in Requests : r \notin past[q]
    BY <2>1 DEF Safe, Ordered, Ended
  <2>4. Signed'
    <3>1. SUFFICES ASSUME NEW b \in rows', b.by # Seed
                   PROVE  req'[b.by].phase = "done" /\ b.of \in req'[b.by].ids
      BY DEF Signed
    <3>2. CASE b.by = r /\ b.of \in req[r].ids
      BY <2>1, <3>2
    <3>3. CASE b \in rows /\ b.by # r
      <4>1. b.by \in Requests
        BY <1>2, <3>1, <3>3 DEF Row
      <4>2. QED
        BY <2>1, <3>1, <3>3, <4>1 DEF Safe, Signed
    <3>4. CASE b \in rows /\ b.by = r
      BY <2>1, <3>1, <3>4 DEF Safe, Signed
    <3>5. QED
      BY <2>2, <3>2, <3>3, <3>4
  <2>5. Ordered'
    BY <2>1 DEF Safe, Ordered, TypeOK, Ended
  <2>6. Witnessed'
    <3>1. SUFFICES ASSUME NEW q \in Requests, NEW b \in rows', b.of \in Table(req'[q].kind)
                   PROVE  /\ req'[q].phase = "deleting" => b \in req'[q].snap \/ Fresh(b, q)'
                          /\ req'[q].phase \in {"deleted", "inserted"} =>
                               b \in req'[q].locks \/ Fresh(b, q)'
                          /\ req'[q].phase = "done" => Fresh(b, q)'
      BY DEF Witnessed
    <3>2. CASE q = r
      <4>1. b.by = r \/ (b \in rows /\ b \notin req[r].locks)
        BY <1>10, <3>1 DEF Commit
      <4>2. b.by = r \/ Fresh(b, r)
        BY <2>1, <3>1, <3>2, <4>1 DEF Safe, Witnessed
      <4>3. r \notin past[r]
        BY DEF Safe, Ordered
      <4>4. QED
        BY <2>1, <3>2, <4>2, <4>3 DEF Fresh
    <3>3. CASE q # r /\ b.by = r
      BY <2>1, <2>3, <3>3 DEF Fresh
    <3>4. CASE q # r /\ b \in rows
      BY <2>1, <3>1, <3>4 DEF Safe, Witnessed, Fresh
    <3>5. QED
      BY <2>2, <3>2, <3>3, <3>4
  <2>7. Admitted'
    <3>1. SUFFICES ASSUME NEW q \in Requests, req'[q].phase = "inserted"
                   PROVE  /\ \A b \in rows' : b \in req'[q].locks \/ b.of \notin req'[q].ids
                          /\ \A p \in Requests : p # q /\ req'[p].phase = "inserted" =>
                               req'[p].ids \cap req'[q].ids = {}
      BY DEF Admitted
    <3>2. q # r /\ req'[q] = req[q] /\ req[q].phase = "inserted"
      BY <2>1, <3>1
    <3>3. req[r].ids \cap req[q].ids = {}
      BY <2>1, <3>2 DEF Safe, Admitted
    <3>4. ASSUME NEW b \in rows'
          PROVE  b \in req'[q].locks \/ b.of \notin req'[q].ids
      BY <2>2, <3>2, <3>3, <3>4 DEF Safe, Admitted
    <3>5. ASSUME NEW p \in Requests, p # q, req'[p].phase = "inserted"
          PROVE  req'[p].ids \cap req'[q].ids = {}
      BY <2>1, <3>2, <3>5 DEF Safe, Admitted
    <3>6. QED
      BY <3>4, <3>5
  <2>8. Named'
    BY <2>1 DEF Safe, Named
  <2>9. QED
    BY <2>4, <2>5, <2>6, <2>7, <2>8 DEF Safe
<1>11. ASSUME \/ ChangeUser
              \/ \E x \in Resources : Deactivate(x) \/ Reactivate(x)
              \/ UNCHANGED vars
       PROVE  Safe'
  BY <1>4, <1>11 DEF ChangeUser, Deactivate, Reactivate, vars
<1>12. QED
  BY <1>5, <1>6, <1>7, <1>8, <1>9, <1>10, <1>11 DEF Next

(* The rows that are there in the beginning are typed and nobody's.        *)
LEMMA InitSafe == Init => TypeOK /\ Safe
<1> SUFFICES ASSUME Init
             PROVE  TypeOK /\ Safe
  OBVIOUS
<1> USE BindingsAssumption
<1>1. PICK B \in SUBSET Resources : rows = [of : B, by : {Seed}]
  BY DEF Init
<1>2. rows \subseteq Row /\ \A b, c \in rows : b.of = c.of => b = c
  BY <1>1 DEF Row
<1>3. TypeOK
  BY <1>2 DEF Init, TypeOK
<1>4. \A b \in rows : b.by = Seed
  BY <1>1
<1>5. Safe
  BY <1>4 DEF Init, Safe, Signed, Named, Ordered, Witnessed, Admitted
<1>6. QED
  BY <1>3, <1>5

(* What is known of rows and requests is known throughout.                 *)
LEMMA Invariance == Spec => [](TypeOK /\ Safe)
<1>1. QED
  BY InitSafe, TypeStep, SafeStep, PTL DEF Spec

(* Every variable of the bindings keeps its type, and no resource is bound *)
(* to the user twice (uq_user_station, uq_user_device).                    *)
THEOREM TypeCorrect == Spec => []TypeOK
<1>1. QED
  BY Invariance, PTL

-----------------------------------------------------------------------------
(* When a replacement is committed, whatever it does not name is gone,     *)
(* unless a replacement that met it names it.                              *)
THEOREM OthersNeverRemain == Spec => OnlyOverlapsRemain
<1>1. ASSUME TypeOK, Safe, [Next]_vars, NEW r \in Requests, Commits(r),
             NEW x \in Bound', x \in Table(req[r].kind)
      PROVE  x \in UNION {req[q].ids : q \in Overlapping(r)}
  <2> USE BindingsAssumption
  <2>1. Commit(r)
    <3>1. ASSUME NEW q \in Requests, NEW phase \in Phases \ {"done"}, NEW snap, NEW locks,
                 Move(q, phase, snap, locks)
          PROVE  FALSE
      BY <1>1, <3>1 DEF Commits, Move, TypeOK
    <3>2. ASSUME NEW q \in Requests, NEW kind, NEW ids, Validate(q, kind, ids)
          PROVE  FALSE
      BY <1>1, <3>2 DEF Commits, Validate, TypeOK
    <3>3. ASSUME NEW q \in Requests, Commit(q)
          PROVE  q = r
      BY <1>1, <3>3 DEF Commits, Commit, Move, TypeOK
    <3>4. {"selecting", "selected", "deleting", "deleted", "inserted", "failed"}
            \subseteq Phases \ {"done"}
      BY DEF Phases, Open, Ended
    <3>5. ASSUME NEW q \in Requests,
                 Select(q) \/ SelectEnds(q) \/ Delete(q) \/ DeleteEnds(q)
                   \/ Insert(q) \/ RollBack(q)
          PROVE  FALSE
      <4>1. PICK phase \in Phases \ {"done"}, snap \in {Visible(q), {}},
                 locks \in {{}, req[q].locks, req[q].snap \cap rows} : Move(q, phase, snap, locks)
        BY <3>4, <3>5 DEF Select, SelectEnds, Delete, DeleteEnds, Insert, RollBack
      <4>2. QED
        BY <3>1, <4>1
    <3>6. ~(UNCHANGED req)
      BY <1>1 DEF Commits
    <3>7. QED
      BY <1>1, <3>2, <3>3, <3>5, <3>6 DEF Next, ChangeUser, Deactivate, Reactivate, vars
  <2>2. PICK b \in rows' : b.of = x
    BY <1>1 DEF Bound
  <2>3. CASE x \in req[r].ids
    <3>1. r \in Overlapping(r)
      BY <1>1 DEF Overlapping, Commits, Safe, Ordered
    <3>2. QED
      BY <2>3, <3>1
  <2>4. CASE x \notin req[r].ids
    <3>1. b \in rows \ req[r].locks
      BY <2>1, <2>2, <2>4 DEF Commit
    <3>2. Fresh(b, r)
      BY <1>1, <2>2, <3>1 DEF Commits, Safe, Witnessed
    <3>3. b.by \in Overlapping(r) /\ x \in req[b.by].ids
      BY <1>1, <2>2, <3>1, <3>2 DEF Fresh, Overlapping, Safe, Signed
    <3>4. QED
      BY <3>3
  <2>5. QED
    BY <2>3, <2>4
<1>2. TypeOK /\ Safe /\ [Next]_vars =>
        [\A r \in Requests : Commits(r) =>
           Bound' \cap Table(req[r].kind) \subseteq UNION {req[q].ids : q \in Overlapping(r)}]_vars
  BY <1>1
<1>3. QED
  BY <1>2, Invariance, PTL DEF Spec, OnlyOverlapsRemain

-----------------------------------------------------------------------------
(* After a replacement that no other one of its kind met, whoever has that *)
(* role is shown nothing that the replacement did not name.                *)
THEOREM RemovedStayUnseen == Spec => []RemovedAreUnseen
<1>1. ASSUME TypeOK, Safe, NEW r \in Requests, req[r].phase = "done", req[r].kind = role,
             \A q \in Requests \ past[r] :
               req[q].phase = "done" /\ req[q].kind = role => q = r,
             NEW b \in rows, b.of \in Table(role)
      PROVE  b.of \in req[r].ids
  <2>1. b.by \in Requests \ past[r]
    BY <1>1 DEF Safe, Witnessed, Fresh
  <2>2. req[b.by].phase = "done" /\ b.of \in req[b.by].ids
    BY <1>1, <2>1, BindingsAssumption DEF Safe, Signed
  <2>3. b.of \in Table(req[b.by].kind)
    <3>1. b.by \in Requests
      BY <2>1
    <3>2. req[b.by].ids \subseteq Table(req[b.by].kind)
      BY <1>1, <3>1 DEF Safe, Named
    <3>3. QED
      BY <2>2, <3>2
  <2>4. req[b.by].kind = role
    BY <1>1, <2>1, <2>3, BindingsAssumption DEF TypeOK, Table
  <2>5. QED
    BY <1>1, <2>1, <2>2, <2>4
<1>2. TypeOK /\ Safe => RemovedAreUnseen
  <2> SUFFICES ASSUME TypeOK, Safe, NEW r \in Requests, req[r].phase = "done", req[r].kind = role,
                      \A q \in Requests \ past[r] :
                        req[q].phase = "done" /\ req[q].kind = role => q = r
               PROVE  (IF role = "trader" THEN SeenStations ELSE SeenDevices) \subseteq req[r].ids
    BY DEF RemovedAreUnseen
  <2>1. Bound \cap Table(role) \subseteq req[r].ids
    BY <1>1 DEF Bound
  <2>2. CASE role = "trader"
    BY <2>1, <2>2 DEF SeenStations, Table
  <2>3. CASE role = "storage_operator"
    BY <2>1, <2>3 DEF SeenDevices, Table
  <2>4. role \in {"trader", "storage_operator"}
    BY DEF TypeOK
  <2>5. QED
    BY <2>2, <2>3, <2>4
<1>3. QED
  BY <1>2, Invariance, PTL
=============================================================================
