----------------------- MODULE NotificationService_proofs -----------------------
(***************************************************************************)
(* The invariant of POST /notifications and the promise it keeps, for any  *)
(* number of requests, keys and notifications.                             *)
(***************************************************************************)
EXTENDS NotificationService, SequenceTheorems, TLAPS

-----------------------------------------------------------------------------
(* The inductive invariant.                                                 *)

(* What the unique index on idempotencyKey keeps true of the table.         *)
KeysAreUnique ==
  \A i, j \in Ids :
    Exists(i) /\ Exists(j) /\ rows[i].key = rows[j].key => i = j

(* A request that knows a notification knows the row under its own key.     *)
RequestsKnowTheirRow ==
  \A r \in Requests :
    req[r].id # NoId =>
      Exists(req[r].id) /\ rows[req[r].id].key = req[r].key

(* What the phase says about the fields of a request.                       *)
PhasesFit ==
  \A r \in Requests :
    /\ At(r, "idle") => req[r].key = NoKey
    /\ ~At(r, "idle") => req[r].key \in Keys
    /\ req[r].phase \in {"lookup", "store", "publish", "fallback"} \cup Answered =>
         req[r].id # NoId

ServiceInv ==
  /\ TypeOK
  /\ KeysAreUnique
  /\ CachedKeyNamesItsRow
  /\ RequestsKnowTheirRow
  /\ PhasesFit

-----------------------------------------------------------------------------
(* Whatever a send appends, the log stays a sequence of ids.                *)
LEMMA AppendLogType ==
  ASSUME log \in Seq(Ids), NEW id \in Ids, NEW acked \in BOOLEAN, AppendLog(id, acked)
  PROVE  log' \in Seq(Ids)
<1>1. PICK n \in (IF acked THEN 1 ELSE 0)..MaxCopies : log' = log \o [i \in 1..n |-> id]
  BY DEF AppendLog
<1>2. n \in Nat
  BY <1>1, StoreAssumption
<1>3. [i \in 1..n |-> id] \in Seq(Ids)
  <2>1. [i \in 1..n |-> id] \in [1..n -> Ids]
    OBVIOUS
  <2>2. QED
    BY <1>2, <2>1
<1> QED
  BY <1>1, <1>3, ConcatProperties

-----------------------------------------------------------------------------
(* Steps of one request.  Every one of them replaces the request's record   *)
(* by another one, and no row ever changes once it is in the table.         *)

NeedsId == {"lookup", "store", "publish", "fallback"} \cup Answered

\* The record a request may move to.
Fits(new) ==
  /\ new \in Request
  /\ new.phase # "idle"
  /\ new.key \in Keys
  /\ new.phase \in NeedsId => new.id # NoId

RowsStay == \A i \in Ids : Exists(i) => rows'[i] = rows[i]

LEMMA RequestMoves ==
  ASSUME ServiceInv, NEW r \in Requests, NEW new, Fits(new), RowsStay,
         req' = [req EXCEPT ![r] = new],
         new.id # NoId => rows'[new.id] # NoRow /\ rows'[new.id].key = new.key
  PROVE  req' \in [Requests -> Request] /\ RequestsKnowTheirRow' /\ PhasesFit'
<1> USE StoreAssumption, ServiceAssumption
<1>1. req' \in [Requests -> Request]
  BY DEF ServiceInv, TypeOK, ServiceTypeOK, Fits
<1>2. req'[r] = new /\ \A q \in Requests \ {r} : req'[q] = req[q]
  BY DEF ServiceInv, TypeOK, ServiceTypeOK
<1>3. RequestsKnowTheirRow'
  <2> SUFFICES ASSUME NEW q \in Requests, req'[q].id # NoId
               PROVE  rows'[req'[q].id] # NoRow /\ rows'[req'[q].id].key = req'[q].key
    BY DEF RequestsKnowTheirRow, Exists
  <2>1. CASE q = r
    BY <1>2, <2>1
  <2>2. CASE q # r
    <3>1. req'[q] = req[q] /\ req[q].id \in Ids
      BY <1>2, <2>2 DEF ServiceInv, TypeOK, ServiceTypeOK, Request
    <3>2. Exists(req[q].id) /\ rows[req[q].id].key = req[q].key
      BY <3>1 DEF ServiceInv, RequestsKnowTheirRow
    <3>3. rows'[req[q].id] = rows[req[q].id]
      BY <3>1, <3>2 DEF RowsStay
    <3> QED
      BY <3>1, <3>2, <3>3 DEF Exists
  <2> QED
    BY <2>1, <2>2
<1>4. PhasesFit'
  <2> SUFFICES ASSUME NEW q \in Requests
               PROVE  /\ req'[q].phase = "idle" => req'[q].key = NoKey
                      /\ req'[q].phase # "idle" => req'[q].key \in Keys
                      /\ req'[q].phase \in NeedsId => req'[q].id # NoId
    BY DEF PhasesFit, NeedsId, At
  <2>1. CASE q = r
    BY <1>2, <2>1 DEF Fits
  <2>2. CASE q # r
    BY <1>2, <2>2 DEF ServiceInv, PhasesFit, NeedsId, At
  <2> QED
    BY <2>1, <2>2
<1> QED
  BY <1>1, <1>3, <1>4

LEMMA GotoWithMoves ==
  ASSUME ServiceInv, NEW r \in Requests, NEW p \in Phases \ {"idle"}, NEW id \in Ids,
         ~At(r, "idle"), RowsStay, GotoWith(r, p, id),
         rows'[id] # NoRow, rows'[id].key = req[r].key
  PROVE  req' \in [Requests -> Request] /\ RequestsKnowTheirRow' /\ PhasesFit'
<1>1. req[r] \in Request /\ req[r].key \in Keys
  BY DEF ServiceInv, TypeOK, ServiceTypeOK, PhasesFit
<1>2. PICK new : new = [req[r] EXCEPT !.phase = p, !.id = id]
  OBVIOUS
<1>3. req' = [req EXCEPT ![r] = new]
  BY <1>2 DEF GotoWith, ServiceInv, TypeOK, ServiceTypeOK
<1>4. new.phase = p /\ new.id = id /\ new.key = req[r].key /\ new \in Request
  BY <1>1, <1>2 DEF Request
<1>5. Fits(new)
  BY <1>1, <1>4, StoreAssumption DEF Fits
<1> QED
  BY <1>3, <1>4, <1>5, RequestMoves

LEMMA GotoMoves ==
  ASSUME ServiceInv, NEW r \in Requests, NEW p \in Phases \ {"idle"},
         ~At(r, "idle"), RowsStay, Goto(r, p),
         p \in NeedsId => req[r].id # NoId
  PROVE  req' \in [Requests -> Request] /\ RequestsKnowTheirRow' /\ PhasesFit'
<1>1. req[r] \in Request /\ req[r].key \in Keys
  BY DEF ServiceInv, TypeOK, ServiceTypeOK, PhasesFit
<1>2. PICK new : new = [req[r] EXCEPT !.phase = p]
  OBVIOUS
<1>3. req' = [req EXCEPT ![r] = new]
  BY <1>2 DEF Goto, ServiceInv, TypeOK, ServiceTypeOK
<1>4. new.phase = p /\ new.id = req[r].id /\ new.key = req[r].key /\ new \in Request
  BY <1>1, <1>2 DEF Request
<1>5. Fits(new)
  BY <1>1, <1>4 DEF Fits
<1>6. new.id # NoId => rows'[new.id] # NoRow /\ rows'[new.id].key = new.key
  <2> SUFFICES ASSUME new.id # NoId
               PROVE  rows'[new.id] # NoRow /\ rows'[new.id].key = new.key
    OBVIOUS
  <2>1. new.id \in Ids
    BY <1>4 DEF Request
  <2>2. Exists(new.id) /\ rows[new.id].key = new.key
    BY <1>4 DEF ServiceInv, RequestsKnowTheirRow
  <2> QED
    BY <2>1, <2>2 DEF RowsStay, Exists
<1> QED
  BY <1>3, <1>5, <1>6, RequestMoves

-----------------------------------------------------------------------------
(* The invariant holds initially and every step keeps it.                   *)

LEMMA InitHolds == Init => ServiceInv
<1> SUFFICES ASSUME Init PROVE ServiceInv
  OBVIOUS
<1> USE StoreAssumption, ServiceAssumption DEF Init, StoreInit, ServiceInit
<1>1. StoreTypeOK
  BY DEF StoreTypeOK
<1>2. ServiceTypeOK
  BY DEF ServiceTypeOK, Request, Phases
<1>3. KeysAreUnique
  BY DEF KeysAreUnique, Exists
<1>4. CachedKeyNamesItsRow /\ RequestsKnowTheirRow
  BY DEF CachedKeyNamesItsRow, RequestsKnowTheirRow
<1>5. PhasesFit
  BY DEF PhasesFit, At, Answered
<1> QED
  BY <1>1, <1>2, <1>3, <1>4, <1>5 DEF ServiceInv, TypeOK

(* A step that leaves the table alone and writes no key keeps everything    *)
(* that is not about the requests.                                          *)
LEMMA QuietStep ==
  ASSUME ServiceInv, UNCHANGED <<rows, idem>>,
         log' \in Seq(Ids), retryTopic' \subseteq Ids, dlqTopic' \subseteq Ids,
         req' \in [Requests -> Request], RequestsKnowTheirRow', PhasesFit'
  PROVE  ServiceInv'
BY DEF ServiceInv, TypeOK, StoreTypeOK, ServiceTypeOK, KeysAreUnique,
       CachedKeyNamesItsRow, Exists

LEMMA ReceiveKeeps ==
  ASSUME ServiceInv, NEW r \in Requests, NEW k \in Keys, NEW early \in EarlyChoices,
         Receive(r, k, early)
  PROVE  ServiceInv'
<1>1. PICK new : new = [phase |-> "check", key |-> k, id |-> NoId, early |-> early]
  OBVIOUS
<1>2. new \in Request
  BY <1>1, ServiceAssumption DEF Request, Phases, Active
<1>3. Fits(new)
  BY <1>1, <1>2 DEF Fits, NeedsId, Answered
<1>4. req' = [req EXCEPT ![r] = new] /\ RowsStay /\ UNCHANGED <<storeVars, idem>>
  BY <1>1 DEF Receive, RowsStay, storeVars
<1>5. req' \in [Requests -> Request] /\ RequestsKnowTheirRow' /\ PhasesFit'
  BY <1>1, <1>3, <1>4, RequestMoves
<1> QED
  BY <1>4, <1>5, QuietStep DEF storeVars, ServiceInv, TypeOK, StoreTypeOK

LEMMA CheckIdempotencyKeeps ==
  ASSUME ServiceInv, NEW r \in Requests, CheckIdempotency(r)
  PROVE  ServiceInv'
<1>1. /\ ~At(r, "idle")
      /\ RowsStay
      /\ UNCHANGED <<storeVars, idem>>
      /\ req[r].key \in Keys
  BY DEF CheckIdempotency, RowsStay, storeVars, At, ServiceInv, PhasesFit
<1>2. req' \in [Requests -> Request] /\ RequestsKnowTheirRow' /\ PhasesFit'
  <2>1. CASE Goto(r, "failed") \/ Goto(r, "insert")
    BY <1>1, <2>1, GotoMoves DEF Phases, Active, NeedsId, Answered
  <2>2. CASE idem[req[r].key] # NoId /\ GotoWith(r, "lookup", idem[req[r].key])
    <3>1. PICK id \in Ids : id = idem[req[r].key]
      BY <1>1, <2>2 DEF ServiceInv, TypeOK, ServiceTypeOK
    <3>2. rows'[id] # NoRow /\ rows'[id].key = req[r].key
      BY <1>1, <2>2, <3>1 DEF ServiceInv, CachedKeyNamesItsRow, Exists, storeVars
    <3> QED
      BY <1>1, <2>2, <3>1, <3>2, GotoWithMoves DEF Phases, Active
  <2> QED
    BY <2>1, <2>2 DEF CheckIdempotency
<1> QED
  BY <1>1, <1>2, QuietStep DEF storeVars, ServiceInv, TypeOK, StoreTypeOK

LEMMA LookupExistingKeeps ==
  ASSUME ServiceInv, NEW r \in Requests, LookupExisting(r)
  PROVE  ServiceInv'
<1>1. /\ ~At(r, "idle")
      /\ RowsStay
      /\ UNCHANGED <<storeVars, idem>>
      /\ req[r].id # NoId
  BY DEF LookupExisting, RowsStay, storeVars, At, ServiceInv, PhasesFit
<1>2. Goto(r, "failed") \/ Goto(r, "duplicate")
  BY DEF LookupExisting
<1>3. req' \in [Requests -> Request] /\ RequestsKnowTheirRow' /\ PhasesFit'
  BY <1>1, <1>2, GotoMoves DEF Phases, Answered
<1> QED
  BY <1>1, <1>3, QuietStep DEF storeVars, ServiceInv, TypeOK, StoreTypeOK

LEMMA PublishKeeps ==
  ASSUME ServiceInv, NEW r \in Requests, Publish(r)
  PROVE  ServiceInv'
<1>1. /\ ~At(r, "idle")
      /\ RowsStay
      /\ UNCHANGED <<rows, retryTopic, dlqTopic, idem>>
      /\ req[r].id # NoId
  BY DEF Publish, RowsStay, At, ServiceInv, PhasesFit
<1>2. PICK acked \in BOOLEAN :
        AppendLog(req[r].id, acked) /\ Goto(r, IF acked THEN "created" ELSE "fallback")
  BY DEF Publish
<1>3. log' \in Seq(Ids)
  <2>1. PICK id \in Ids : id = req[r].id
    BY <1>1 DEF ServiceInv, TypeOK, ServiceTypeOK, Request
  <2>2. AppendLog(id, acked)
    BY <1>2, <2>1
  <2> QED
    BY <2>2, AppendLogType DEF ServiceInv, TypeOK, StoreTypeOK
<1>4. req' \in [Requests -> Request] /\ RequestsKnowTheirRow' /\ PhasesFit'
  <2>1. Goto(r, "created") \/ Goto(r, "fallback")
    BY <1>2
  <2> QED
    BY <1>1, <2>1, GotoMoves DEF Phases, Active, Answered
<1> QED
  BY <1>1, <1>3, <1>4, QuietStep DEF ServiceInv, TypeOK, StoreTypeOK

LEMMA PublishFallbackKeeps ==
  ASSUME ServiceInv, NEW r \in Requests, PublishFallback(r)
  PROVE  ServiceInv'
<1>1. /\ ~At(r, "idle")
      /\ RowsStay
      /\ UNCHANGED <<rows, log, dlqTopic, idem>>
      /\ req[r].id # NoId
  BY DEF PublishFallback, RowsStay, At, ServiceInv, PhasesFit
<1>2. PICK acked \in BOOLEAN :
        /\ retryTopic' \in AfterSend(retryTopic, req[r].id, acked)
        /\ Goto(r, IF acked THEN "created" ELSE "createdUnsent")
  BY DEF PublishFallback
<1>3. retryTopic' \subseteq Ids
  BY <1>1, <1>2 DEF AfterSend, ServiceInv, TypeOK, StoreTypeOK, ServiceTypeOK, Request
<1>4. req' \in [Requests -> Request] /\ RequestsKnowTheirRow' /\ PhasesFit'
  <2>1. Goto(r, "created") \/ Goto(r, "createdUnsent")
    BY <1>2
  <2> QED
    BY <1>1, <2>1, GotoMoves DEF Phases, Answered
<1> QED
  BY <1>1, <1>3, <1>4, QuietStep DEF ServiceInv, TypeOK, StoreTypeOK

LEMMA CrashRequestKeeps ==
  ASSUME ServiceInv, NEW r \in Requests, CrashRequest(r)
  PROVE  ServiceInv'
<1>1. ~At(r, "idle") /\ RowsStay /\ UNCHANGED <<storeVars, idem>> /\ Goto(r, "crashed")
  BY DEF CrashRequest, RowsStay, storeVars, At, Active
<1>2. req' \in [Requests -> Request] /\ RequestsKnowTheirRow' /\ PhasesFit'
  BY <1>1, GotoMoves DEF Phases, NeedsId, Answered
<1> QED
  BY <1>1, <1>2, QuietStep DEF storeVars, ServiceInv, TypeOK, StoreTypeOK

(* The row a request inserts, and the table afterwards.                     *)
LEMMA InsertedRow ==
  ASSUME ServiceInv, NEW r \in Requests, NEW id \in Ids,
         At(r, "insert"), ~Exists(id), rows' = [rows EXCEPT ![id] = NewRow(r)]
  PROVE  /\ NewRow(r) \in Row
         /\ NewRow(r).key = req[r].key
         /\ rows' \in [Ids -> Row \cup {NoRow}]
         /\ rows'[id] = NewRow(r)
         /\ \A i \in Ids \ {id} : rows'[i] = rows[i]
         /\ RowsStay
<1>1. req[r] \in Request /\ req[r].key \in Keys
  BY DEF ServiceInv, TypeOK, ServiceTypeOK, PhasesFit, At
<1>2. NewRow(r) \in Row /\ NewRow(r).key = req[r].key
  BY <1>1 DEF NewRow, Row, Statuses, Request
<1>3. rows \in [Ids -> Row \cup {NoRow}]
  BY DEF ServiceInv, TypeOK, StoreTypeOK
<1>4. rows'[id] = NewRow(r) /\ \A i \in Ids \ {id} : rows'[i] = rows[i]
  BY <1>3
<1> QED
  BY <1>2, <1>3, <1>4 DEF RowsStay

LEMMA InsertRowKeeps ==
  ASSUME ServiceInv, NEW r \in Requests, InsertRow(r)
  PROVE  ServiceInv'
<1>1. /\ ~At(r, "idle")
      /\ At(r, "insert")
      /\ UNCHANGED <<log, retryTopic, dlqTopic, idem>>
  BY DEF InsertRow, At
<1>2. CASE Goto(r, "failed") /\ UNCHANGED rows
  <2>1. RowsStay
    BY <1>2 DEF RowsStay
  <2>2. req' \in [Requests -> Request] /\ RequestsKnowTheirRow' /\ PhasesFit'
    BY <1>1, <1>2, <2>1, GotoMoves DEF Phases, NeedsId, Answered
  <2> QED
    BY <1>1, <1>2, <2>2, QuietStep DEF ServiceInv, TypeOK, StoreTypeOK
<1>3. ASSUME NEW id \in Ids, RowsOf(req[r].key) = {}, ~Exists(id),
             rows' = [rows EXCEPT ![id] = NewRow(r)],
             GotoWith(r, "store", id) \/ GotoWith(r, "failed", id)
      PROVE  ServiceInv'
  <2>1. /\ NewRow(r) \in Row /\ NewRow(r).key = req[r].key
        /\ rows' \in [Ids -> Row \cup {NoRow}]
        /\ rows'[id] = NewRow(r)
        /\ \A i \in Ids \ {id} : rows'[i] = rows[i]
        /\ RowsStay
    BY <1>1, <1>3, InsertedRow
  <2>2. rows'[id] # NoRow /\ rows'[id].key = req[r].key
    BY <2>1, StoreAssumption
  <2>3. req' \in [Requests -> Request] /\ RequestsKnowTheirRow' /\ PhasesFit'
    BY <1>1, <1>3, <2>1, <2>2, GotoWithMoves DEF Phases, Active
  <2>4. StoreTypeOK' /\ ServiceTypeOK'
    BY <1>1, <2>1, <2>3 DEF ServiceInv, TypeOK, StoreTypeOK, ServiceTypeOK
  <2>5. KeysAreUnique'
    <3>1. \A i \in Ids \ {id} : rows'[i] # NoRow => rows'[i].key # req[r].key
      BY <1>3, <2>1 DEF RowsOf, Exists
    <3> QED
      BY <2>1, <2>2, <3>1 DEF ServiceInv, KeysAreUnique, Exists
  <2>6. CachedKeyNamesItsRow'
    <3> SUFFICES ASSUME NEW k \in Keys, idem'[k] # NoId
                 PROVE  rows'[idem'[k]] # NoRow /\ rows'[idem'[k]].key = k
      BY DEF CachedKeyNamesItsRow, Exists
    <3>1. idem'[k] = idem[k] /\ idem[k] \in Ids
      BY <1>1 DEF ServiceInv, TypeOK, ServiceTypeOK
    <3>2. Exists(idem[k]) /\ rows[idem[k]].key = k
      BY <3>1 DEF ServiceInv, CachedKeyNamesItsRow
    <3> QED
      BY <2>1, <3>1, <3>2 DEF RowsStay, Exists
  <2> QED
    BY <2>3, <2>4, <2>5, <2>6 DEF ServiceInv, TypeOK
<1> QED
  BY <1>2, <1>3 DEF InsertRow

LEMMA StoreIdempotencyKeeps ==
  ASSUME ServiceInv, NEW r \in Requests, StoreIdempotency(r)
  PROVE  ServiceInv'
<1>1. /\ ~At(r, "idle")
      /\ RowsStay
      /\ UNCHANGED storeVars
      /\ req[r].id \in Ids
      /\ req[r].key \in Keys
  BY DEF StoreIdempotency, RowsStay, storeVars, At, ServiceInv, PhasesFit, TypeOK,
         ServiceTypeOK, Request
<1>2. req' \in [Requests -> Request] /\ RequestsKnowTheirRow' /\ PhasesFit'
  <2>1. Goto(r, "publish") \/ Goto(r, "failed")
    BY DEF StoreIdempotency
  <2> QED
    BY <1>1, <2>1, GotoMoves, StoreAssumption DEF Phases, Active
<1>3. Exists(req[r].id) /\ rows[req[r].id].key = req[r].key
  BY <1>1, StoreAssumption DEF ServiceInv, RequestsKnowTheirRow
<1>4. idem' = idem \/ idem' = [idem EXCEPT ![req[r].key] = req[r].id]
  BY DEF StoreIdempotency
<1>5. idem' \in [Keys -> Ids \cup {NoId}]
  BY <1>1, <1>4 DEF ServiceInv, TypeOK, ServiceTypeOK
<1>6. CachedKeyNamesItsRow'
  BY <1>1, <1>3, <1>4 DEF ServiceInv, TypeOK, ServiceTypeOK, CachedKeyNamesItsRow, Exists, storeVars
<1> QED
  BY <1>1, <1>2, <1>5, <1>6 DEF ServiceInv, TypeOK, StoreTypeOK, ServiceTypeOK,
     KeysAreUnique, Exists, storeVars

LEMMA ExpireKeyKeeps ==
  ASSUME ServiceInv, NEW k \in Keys, ExpireKey(k)
  PROVE  ServiceInv'
<1>1. UNCHANGED <<storeVars, req>> /\ idem' = [idem EXCEPT ![k] = NoId]
  BY DEF ExpireKey
<1>2. idem' \in [Keys -> Ids \cup {NoId}]
  BY <1>1 DEF ServiceInv, TypeOK, ServiceTypeOK
<1>3. CachedKeyNamesItsRow'
  BY <1>1 DEF ServiceInv, TypeOK, ServiceTypeOK, CachedKeyNamesItsRow, Exists, storeVars
<1> QED
  BY <1>1, <1>2, <1>3 DEF ServiceInv, TypeOK, StoreTypeOK, ServiceTypeOK, KeysAreUnique,
     RequestsKnowTheirRow, PhasesFit, At, Exists, storeVars

LEMMA StepKeeps == ServiceInv /\ [ServiceNext]_vars => ServiceInv'
<1> SUFFICES ASSUME ServiceInv, [ServiceNext]_vars PROVE ServiceInv'
  OBVIOUS
<1>1. CASE ServiceNext
  <2>1. ASSUME NEW r \in Requests, Handle(r) PROVE ServiceInv'
    BY <2>1, CheckIdempotencyKeeps, LookupExistingKeeps, InsertRowKeeps,
       StoreIdempotencyKeeps, PublishKeeps, PublishFallbackKeeps DEF Handle
  <2> QED
    BY <1>1, <2>1, ReceiveKeeps, CrashRequestKeeps, ExpireKeyKeeps DEF ServiceNext
<1>2. CASE UNCHANGED vars
  BY <1>2 DEF vars, storeVars, serviceVars, ServiceInv, TypeOK, StoreTypeOK, ServiceTypeOK,
     KeysAreUnique, CachedKeyNamesItsRow, RequestsKnowTheirRow, PhasesFit, At, Exists
<1> QED
  BY <1>1, <1>2

(* The invariant holds in every reachable state: types, the unique keys of  *)
(* the table, and what Redis and the requests know of it.                   *)
THEOREM ServiceInvariant == Spec => []ServiceInv
<1>1. Init => ServiceInv
  BY InitHolds
<1>2. ServiceInv /\ [ServiceNext]_vars => ServiceInv'
  BY StepKeeps
<1> QED
  BY <1>1, <1>2, PTL DEF Spec

LEMMA OneAnswerPerKey == ServiceInv => SameKeySameAnswer
<1> SUFFICES ASSUME ServiceInv, NEW r \in Requests, NEW s \in Requests,
                    req[r].phase \in Answered, req[s].phase \in Answered,
                    req[r].key = req[s].key
             PROVE  req[r].id = req[s].id
  BY DEF SameKeySameAnswer
<1>1. req[r].id # NoId /\ req[s].id # NoId
  BY DEF ServiceInv, PhasesFit
<1>2. req[r].id \in Ids /\ req[s].id \in Ids
  BY <1>1 DEF ServiceInv, TypeOK, ServiceTypeOK, Request
<1>3. /\ Exists(req[r].id) /\ rows[req[r].id].key = req[r].key
      /\ Exists(req[s].id) /\ rows[req[s].id].key = req[s].key
  BY <1>1 DEF ServiceInv, RequestsKnowTheirRow
<1> QED
  BY <1>2, <1>3 DEF ServiceInv, KeysAreUnique

(* All answers under one idempotency key name the same notification, for    *)
(* any number of concurrent requests (NotificationService.create).          *)
THEOREM AnswersAgree == Spec => []SameKeySameAnswer
BY OneAnswerPerKey, ServiceInvariant, PTL

(* Types, for any instance.                                                 *)
THEOREM ServiceTypes == Spec => []TypeOK
<1>1. ServiceInv => TypeOK
  BY DEF ServiceInv
<1> QED
  BY <1>1, ServiceInvariant, PTL

(* Redis never names a row that is not there or has another key.            *)
THEOREM CacheNamesRows == Spec => []CachedKeyNamesItsRow
<1>1. ServiceInv => CachedKeyNamesItsRow
  BY DEF ServiceInv
<1> QED
  BY <1>1, ServiceInvariant, PTL

-----------------------------------------------------------------------------
(* Rows and messages.                                                       *)

\* The phases of a request after its insert.
MakerPhases == {"store", "publish", "fallback", "failed", "crashed",
                "created", "createdUnsent"}

QueuedHaveRows == \A id \in Ids : Queued(id) => Exists(id)

RowsHaveMakers ==
  \A id \in Ids :
    Exists(id) => \E r \in Requests : req[r].id = id /\ req[r].phase \in MakerPhases

CreatedAreQueued == \A r \in Requests : At(r, "created") => Queued(req[r].id)

QueueInv == QueuedHaveRows /\ RowsHaveMakers /\ CreatedAreQueued

LEMMA QueueInitHolds == Init => QueueInv
BY DEF Init, StoreInit, ServiceInit, QueueInv, QueuedHaveRows, RowsHaveMakers,
       CreatedAreQueued, Queued, OnLog, Exists, At

LEMMA QueueInvExplains == QueueInv => QueuedOrExplained
BY DEF QueueInv, QueuedHaveRows, RowsHaveMakers, CreatedAreQueued, QueuedOrExplained,
       MakerPhases, At

(* What a send to topic notifications adds.                                 *)
LEMMA AppendLogItems ==
  ASSUME log \in Seq(Ids), NEW id \in Ids, NEW acked \in BOOLEAN, AppendLog(id, acked)
  PROVE  /\ \A i \in Ids : OnLog(i) => OnLog(i)'
         /\ \A i \in Ids : OnLog(i)' => OnLog(i) \/ i = id
         /\ acked => OnLog(id)'
<1>1. PICK n \in (IF acked THEN 1 ELSE 0)..MaxCopies : log' = log \o [i \in 1..n |-> id]
  BY DEF AppendLog
<1>2. PICK more : more = [i \in 1..n |-> id]
  OBVIOUS
<1>3. n \in Nat /\ more \in [1..n -> Ids] /\ log' = log \o more
  BY <1>1, <1>2, StoreAssumption
<1>4. more \in Seq(Ids) /\ Len(more) = n
  BY <1>3
<1>5. /\ Len(log') = Len(log) + n /\ Len(log) \in Nat
      /\ \A i \in 1..Len(log') :
           log'[i] = IF i <= Len(log) THEN log[i] ELSE more[i - Len(log)]
  <2>1. /\ Len(log \o more) = Len(log) + Len(more)
        /\ \A i \in 1..Len(log) + Len(more) :
             (log \o more)[i] = IF i <= Len(log) THEN log[i] ELSE more[i - Len(log)]
    BY <1>4, ConcatProperties
  <2>2. Len(log) \in Nat
    OBVIOUS
  <2> QED
    BY <1>3, <1>4, <2>1, <2>2
<1>6. \A i \in 1..Len(log') : i > Len(log) => log'[i] = id
  BY <1>2, <1>3, <1>5
<1>7. acked => log'[Len(log) + 1] = id /\ Len(log) + 1 \in 1..Len(log')
  BY <1>1, <1>3, <1>5, <1>6
<1> QED
  BY <1>5, <1>6, <1>7 DEF OnLog

(* A step of one request, which may insert a row or queue a message.        *)
LEMMA RequestQueues ==
  ASSUME ServiceInv, QueueInv, NEW r \in Requests, NEW new,
         req' = [req EXCEPT ![r] = new],
         RowsStay,
         \A i \in Ids : Queued(i) => Queued(i)',
         \A i \in Ids : Queued(i)' => Queued(i) \/ Exists(i),
         \A i \in Ids :
           rows'[i] # NoRow => Exists(i) \/ (new.id = i /\ new.phase \in MakerPhases),
         req[r].phase \in MakerPhases => new.phase \in MakerPhases /\ new.id = req[r].id,
         new.phase = "created" => \E i \in Ids : i = new.id /\ Queued(i)'
  PROVE  QueueInv'
<1>1. req'[r] = new /\ \A q \in Requests \ {r} : req'[q] = req[q]
  BY DEF ServiceInv, TypeOK, ServiceTypeOK
<1>2. QueuedHaveRows'
  <2> SUFFICES ASSUME NEW i \in Ids, Queued(i)' PROVE rows'[i] # NoRow
    BY DEF QueuedHaveRows, Exists
  <2>1. Exists(i)
    BY DEF QueueInv, QueuedHaveRows
  <2> QED
    BY <2>1 DEF RowsStay, Exists
<1>3. RowsHaveMakers'
  <2> SUFFICES ASSUME NEW i \in Ids, rows'[i] # NoRow
               PROVE  \E q \in Requests : req'[q].id = i /\ req'[q].phase \in MakerPhases
    BY DEF RowsHaveMakers, Exists
  <2>1. CASE Exists(i)
    <3>1. PICK q \in Requests : req[q].id = i /\ req[q].phase \in MakerPhases
      BY <2>1 DEF QueueInv, RowsHaveMakers
    <3> QED
      BY <1>1, <3>1
  <2> QED
    BY <1>1, <2>1
<1>4. CreatedAreQueued'
  <2> SUFFICES ASSUME NEW q \in Requests, req'[q].phase = "created"
               PROVE  Queued(req[q].id)'
    BY DEF CreatedAreQueued, At
  <2>1. PICK i \in Ids : i = req'[q].id /\ Queued(i)'
    <3>1. CASE q = r
      BY <1>1, <3>1
    <3>2. CASE q # r
      <4>1. req'[q] = req[q] /\ req[q].id \in Ids
        BY <1>1, <3>2 DEF ServiceInv, TypeOK, ServiceTypeOK, Request, PhasesFit, Answered
      <4>2. Queued(req[q].id)
        BY <4>1 DEF QueueInv, CreatedAreQueued, At
      <4> QED
        BY <4>1, <4>2
    <3> QED
      BY <3>1, <3>2
  <2> QED
    BY <2>1 DEF Queued, OnLog
<1> QED
  BY <1>2, <1>3, <1>4 DEF QueueInv

(* Other steps of a request touch neither table nor topics.                 *)
LEMMA RequestMovesOn ==
  ASSUME ServiceInv, QueueInv, NEW r \in Requests, NEW p, UNCHANGED storeVars,
         p # "created",
         \/ Goto(r, p) /\ (req[r].phase \in MakerPhases => p \in MakerPhases)
         \/ req[r].phase \notin MakerPhases /\ \E id : GotoWith(r, p, id)
  PROVE  QueueInv'
<1>1. req \in [Requests -> Request]
  BY DEF ServiceInv, TypeOK, ServiceTypeOK
<1>2. PICK new : /\ req' = [req EXCEPT ![r] = new]
                 /\ new.phase = p
                 /\ req[r].phase \in MakerPhases => p \in MakerPhases /\ new.id = req[r].id
  <2>1. CASE Goto(r, p) /\ (req[r].phase \in MakerPhases => p \in MakerPhases)
    <3>1. PICK new : new = [req[r] EXCEPT !.phase = p]
      OBVIOUS
    <3>2. req' = [req EXCEPT ![r] = new] /\ new.phase = p /\ new.id = req[r].id
      BY <1>1, <2>1, <3>1 DEF Goto, Request
    <3> QED
      BY <2>1, <3>2
  <2>2. CASE req[r].phase \notin MakerPhases /\ \E id : GotoWith(r, p, id)
    <3>1. PICK id : GotoWith(r, p, id)
      BY <2>2
    <3>2. PICK new : new = [req[r] EXCEPT !.phase = p, !.id = id]
      OBVIOUS
    <3>3. req' = [req EXCEPT ![r] = new]
      BY <3>1, <3>2 DEF GotoWith
    <3>4. new.phase = p
      <4>1. "phase" \in DOMAIN req[r]
        BY <1>1 DEF Request
      <4> QED
        BY <3>2, <4>1
    <3> QED
      BY <2>2, <3>3, <3>4
  <2> QED
    BY <2>1, <2>2
<1>3. /\ RowsStay
      /\ \A i \in Ids : (Queued(i)' <=> Queued(i)) /\ (rows'[i] # NoRow <=> Exists(i))
  BY DEF RowsStay, Queued, OnLog, Exists, storeVars
<1> QED
  BY <1>2, <1>3, RequestQueues

LEMMA InsertRowQueues ==
  ASSUME ServiceInv, QueueInv, NEW r \in Requests, InsertRow(r)
  PROVE  QueueInv'
<1>1. req[r].phase = "insert" /\ UNCHANGED <<log, retryTopic, dlqTopic>> /\ At(r, "insert")
  BY DEF InsertRow, At
<1>2. CASE Goto(r, "failed") /\ UNCHANGED rows
  BY <1>1, <1>2, RequestMovesOn DEF storeVars, MakerPhases
<1>3. ASSUME NEW id \in Ids, ~Exists(id), rows' = [rows EXCEPT ![id] = NewRow(r)],
             NEW p \in {"store", "failed"}, GotoWith(r, p, id)
      PROVE  QueueInv'
  <2>1. RowsStay /\ \A i \in Ids \ {id} : rows'[i] = rows[i]
    BY <1>1, <1>3, InsertedRow
  <2>2. PICK new : new = [req[r] EXCEPT !.phase = p, !.id = id]
    OBVIOUS
  <2>3. req' = [req EXCEPT ![r] = new] /\ new.phase = p /\ new.id = id
    BY <1>3, <2>2 DEF GotoWith, ServiceInv, TypeOK, ServiceTypeOK, Request
  <2>4. \A i \in Ids : Queued(i)' <=> Queued(i)
    BY <1>1 DEF Queued, OnLog
  <2>5. \A i \in Ids :
          rows'[i] # NoRow => Exists(i) \/ (new.id = i /\ new.phase \in MakerPhases)
    BY <2>1, <2>3 DEF Exists, MakerPhases
  <2> QED
    BY <1>1, <2>1, <2>3, <2>4, <2>5, RequestQueues DEF MakerPhases
<1> QED
  BY <1>2, <1>3 DEF InsertRow

LEMMA PublishQueues ==
  ASSUME ServiceInv, QueueInv, NEW r \in Requests, Publish(r) \/ PublishFallback(r)
  PROVE  QueueInv'
<1>1. /\ req[r].phase \in {"publish", "fallback"}
      /\ UNCHANGED rows /\ req[r].id # NoId
  BY DEF Publish, PublishFallback, At, ServiceInv, PhasesFit
<1>2. PICK id \in Ids : id = req[r].id
  BY <1>1 DEF ServiceInv, TypeOK, ServiceTypeOK, Request
<1>3. PICK p \in {"created", "fallback", "createdUnsent"} :
        /\ Goto(r, p)
        /\ \A i \in Ids : Queued(i) => Queued(i)'
        /\ \A i \in Ids : Queued(i)' => Queued(i) \/ i = id
        /\ p = "created" => Queued(id)'
  <2>1. CASE Publish(r)
    <3>1. PICK acked \in BOOLEAN :
            AppendLog(id, acked) /\ Goto(r, IF acked THEN "created" ELSE "fallback")
      BY <1>2, <2>1 DEF Publish
    <3>2. /\ \A i \in Ids : OnLog(i) => OnLog(i)'
          /\ \A i \in Ids : OnLog(i)' => OnLog(i) \/ i = id
          /\ acked => OnLog(id)'
      BY <3>1, AppendLogItems DEF ServiceInv, TypeOK, StoreTypeOK
    <3>3. UNCHANGED retryTopic
      BY <2>1 DEF Publish
    <3> QED
      BY <3>1, <3>2, <3>3 DEF Queued
  <2>2. CASE PublishFallback(r)
    <3>1. PICK acked \in BOOLEAN :
            /\ retryTopic' \in AfterSend(retryTopic, id, acked)
            /\ Goto(r, IF acked THEN "created" ELSE "createdUnsent")
      BY <1>2, <2>2 DEF PublishFallback
    <3>2. UNCHANGED log
      BY <2>2 DEF PublishFallback
    <3> QED
      BY <3>1, <3>2 DEF Queued, OnLog, AfterSend
  <2> QED
    BY <2>1, <2>2
<1>4. Exists(id)
  BY <1>1, <1>2 DEF ServiceInv, RequestsKnowTheirRow
<1>5. PICK new : new = [req[r] EXCEPT !.phase = p]
  OBVIOUS
<1>6. req' = [req EXCEPT ![r] = new] /\ new.phase = p /\ new.id = id
  BY <1>2, <1>3, <1>5 DEF Goto, ServiceInv, TypeOK, ServiceTypeOK, Request
<1>7. RowsStay /\ \A i \in Ids : rows'[i] # NoRow => Exists(i)
  BY <1>1 DEF RowsStay, Exists
<1> QED
  BY <1>1, <1>2, <1>3, <1>4, <1>6, <1>7, RequestQueues DEF MakerPhases

LEMMA QueueStepKeeps == ServiceInv /\ QueueInv /\ [ServiceNext]_vars => QueueInv'
<1> SUFFICES ASSUME ServiceInv, QueueInv, [ServiceNext]_vars PROVE QueueInv'
  OBVIOUS
<1>1. ASSUME NEW r \in Requests, Handle(r) PROVE QueueInv'
  <2>1. CASE CheckIdempotency(r)
    <3>1. req[r].phase = "check" /\ UNCHANGED storeVars
      BY <2>1 DEF CheckIdempotency, At
    <3>2. Goto(r, "failed") \/ Goto(r, "insert") \/ \E id : GotoWith(r, "lookup", id)
      BY <2>1 DEF CheckIdempotency
    <3> QED
      BY <3>1, <3>2, RequestMovesOn DEF MakerPhases
  <2>2. CASE LookupExisting(r)
    <3>1. req[r].phase = "lookup" /\ UNCHANGED storeVars
      BY <2>2 DEF LookupExisting, At
    <3>2. Goto(r, "failed") \/ Goto(r, "duplicate")
      BY <2>2 DEF LookupExisting
    <3> QED
      BY <3>1, <3>2, RequestMovesOn DEF MakerPhases
  <2>3. CASE StoreIdempotency(r)
    <3>1. UNCHANGED storeVars /\ (Goto(r, "publish") \/ Goto(r, "failed"))
      BY <2>3 DEF StoreIdempotency
    <3> QED
      BY <3>1, RequestMovesOn DEF MakerPhases
  <2> QED
    BY <1>1, <2>1, <2>2, <2>3, InsertRowQueues, PublishQueues DEF Handle
<1>2. ASSUME NEW r \in Requests, NEW k \in Keys, NEW early \in EarlyChoices,
             Receive(r, k, early)
      PROVE  QueueInv'
  <2>1. PICK new : new = [phase |-> "check", key |-> k, id |-> NoId, early |-> early]
    OBVIOUS
  <2>2. /\ req' = [req EXCEPT ![r] = new] /\ new.phase = "check"
        /\ req[r].phase = "idle" /\ UNCHANGED storeVars
    BY <1>2, <2>1 DEF Receive, At
  <2>3. /\ RowsStay
        /\ \A i \in Ids : (Queued(i)' <=> Queued(i)) /\ (rows'[i] # NoRow <=> Exists(i))
    BY <2>2 DEF RowsStay, Queued, OnLog, Exists, storeVars
  <2> QED
    BY <2>2, <2>3, RequestQueues DEF MakerPhases
<1>3. ASSUME NEW r \in Requests, CrashRequest(r) PROVE QueueInv'
  BY <1>3, RequestMovesOn DEF CrashRequest, MakerPhases
<1>4. ASSUME UNCHANGED <<storeVars, req>> PROVE QueueInv'
  BY <1>4 DEF storeVars, QueueInv, QueuedHaveRows, RowsHaveMakers, CreatedAreQueued,
     Queued, OnLog, Exists, At
<1>5. CASE UNCHANGED vars
  BY <1>4, <1>5 DEF vars, serviceVars
<1>6. CASE \E k \in Keys : ExpireKey(k)
  BY <1>4, <1>6 DEF ExpireKey
<1> QED
  BY <1>1, <1>2, <1>3, <1>5, <1>6 DEF ServiceNext

(* No message without its row, and no row left unqueued without a request   *)
(* that failed, crashed or is still at it (NotificationService.create).     *)
THEOREM RowsAreQueuedOrExplained == Spec => []QueuedOrExplained
<1>1. Spec => []QueueInv
  <2>1. Init => QueueInv
    BY QueueInitHolds
  <2>2. ServiceInv /\ QueueInv /\ [ServiceNext]_vars => QueueInv'
    BY QueueStepKeeps
  <2> QED
    BY <2>1, <2>2, ServiceInvariant, PTL DEF Spec
<1> QED
  BY <1>1, QueueInvExplains, PTL

-----------------------------------------------------------------------------
(* Everybody else: rows come neither nor go, nor change their keys; nothing *)
(* is published but what has a row.                                         *)
ServiceEnvironment ==
  /\ UNCHANGED <<serviceVars, log>>
  /\ StoreTypeOK'
  /\ \A id \in Ids :
       /\ rows'[id] # NoRow <=> Exists(id)
       /\ Exists(id) => rows'[id].key = rows[id].key
       /\ id \in retryTopic => id \in retryTopic'
       /\ id \in retryTopic' => id \in retryTopic \/ Exists(id)

LEMMA ServiceEnvironmentKeeps ==
  ASSUME ServiceInv, QueueInv, ServiceEnvironment
  PROVE  ServiceInv' /\ QueueInv'
<1>1. UNCHANGED <<idem, req, log>> /\ StoreTypeOK'
  BY DEF ServiceEnvironment, serviceVars
<1>2. TypeOK' /\ KeysAreUnique' /\ PhasesFit'
  BY <1>1 DEF ServiceEnvironment, ServiceInv, TypeOK, ServiceTypeOK, KeysAreUnique,
     PhasesFit, At, Exists
<1>3. CachedKeyNamesItsRow'
  BY <1>1 DEF ServiceEnvironment, ServiceInv, TypeOK, ServiceTypeOK,
     CachedKeyNamesItsRow, Exists
<1>4. RequestsKnowTheirRow'
  BY <1>1 DEF ServiceEnvironment, ServiceInv, TypeOK, ServiceTypeOK, Request,
     RequestsKnowTheirRow, Exists
<1>5. \A i \in Ids : (Queued(i) => Queued(i)') /\ (Queued(i)' => Queued(i) \/ Exists(i))
  BY <1>1 DEF ServiceEnvironment, Queued, OnLog
<1>6. QueuedHaveRows' /\ RowsHaveMakers'
  BY <1>1, <1>5 DEF ServiceEnvironment, QueueInv, QueuedHaveRows, RowsHaveMakers, Exists
<1>7. CreatedAreQueued'
  BY <1>1 DEF ServiceEnvironment, QueueInv, CreatedAreQueued, Queued, OnLog, At,
     ServiceInv, TypeOK, ServiceTypeOK, Request, PhasesFit, Answered
<1> QED
  BY <1>2, <1>3, <1>4, <1>6, <1>7 DEF ServiceInv, QueueInv

-----------------------------------------------------------------------------
(* The service keeps the promise of IdempotentCreate.                       *)

LEMMA BoundIsTheRow ==
  ASSUME KeysAreUnique, NEW id \in Ids, Exists(id)
  PROVE  BoundId(rows[id].key) = id
<1>1. RowsOf(rows[id].key) = {id}
  BY DEF KeysAreUnique, RowsOf
<1> QED
  BY <1>1 DEF BoundId

(* A step that touches neither the table nor anybody's key nor any answer   *)
(* is a stuttering step of the promise.                                     *)
LEMMA SilentStep ==
  ASSUME UNCHANGED rows,
         \A r \in Requests :
           /\ req'[r].key = req[r].key
           /\ req'[r].phase \in Answered <=> req[r].phase \in Answered
           /\ req[r].phase \in Answered => req'[r].id = req[r].id
  PROVE  UNCHANGED Promise!vars
<1>1. \A k \in Keys : BoundId(k)' = BoundId(k)
  BY DEF BoundId, RowsOf, Exists
<1> QED
  BY <1>1 DEF Promise!vars

(* A request that moves on without being answered.                          *)
LEMMA UnansweredStep ==
  ASSUME ServiceInv, NEW r \in Requests, NEW p, req[r].phase \notin Answered,
         p \notin Answered, UNCHANGED rows,
         Goto(r, p) \/ \E id \in Ids : GotoWith(r, p, id)
  PROVE  UNCHANGED Promise!vars
<1>1. req \in [Requests -> Request]
  BY DEF ServiceInv, TypeOK, ServiceTypeOK
<1>2. /\ req'[r].key = req[r].key
      /\ req'[r].phase = p
      /\ \A q \in Requests \ {r} : req'[q] = req[q]
  BY <1>1 DEF Goto, GotoWith, Request
<1> QED
  BY <1>2, SilentStep

(* A request that is answered is told the row its key stands for.           *)
LEMMA AnsweringStep ==
  ASSUME ServiceInv, NEW r \in Requests, NEW p \in Answered, req[r].phase \notin Answered,
         ~At(r, "idle"), req[r].id # NoId, UNCHANGED rows, Goto(r, p)
  PROVE  Promise!Answer(r)
<1>1. req \in [Requests -> Request] /\ req[r].key \in Keys /\ req[r].id \in Ids
  BY DEF ServiceInv, TypeOK, ServiceTypeOK, Request, PhasesFit
<1>2. /\ req'[r].key = req[r].key
      /\ req'[r].id = req[r].id
      /\ req'[r].phase \in Answered
      /\ \A q \in Requests \ {r} : req'[q] = req[q]
  BY <1>1 DEF Goto, Request
<1>3. BoundId(req[r].key) = req[r].id
  BY <1>1, BoundIsTheRow DEF ServiceInv, RequestsKnowTheirRow
<1>4. \A k \in Keys : BoundId(k)' = BoundId(k)
  BY DEF BoundId, RowsOf, Exists
<1>5. req[r].key # NoKey
  BY <1>1, ServiceAssumption
<1> QED
  BY <1>1, <1>2, <1>3, <1>4, <1>5 DEF Promise!Answer

(* A request arrives: its key becomes known.                                *)
LEMMA AskingStep ==
  ASSUME ServiceInv, NEW r \in Requests, NEW k \in Keys, NEW early \in EarlyChoices,
         Receive(r, k, early)
  PROVE  Promise!Ask(r, k)
<1>1. req \in [Requests -> Request] /\ req[r].key = NoKey /\ req[r].phase = "idle"
  BY DEF ServiceInv, TypeOK, ServiceTypeOK, PhasesFit, Receive, At
<1>2. /\ req'[r].key = k
      /\ req'[r].phase = "check"
      /\ \A q \in Requests \ {r} : req'[q] = req[q]
  BY <1>1 DEF Receive
<1>3. \A c \in Keys : BoundId(c)' = BoundId(c)
  BY DEF Receive, storeVars, BoundId, RowsOf, Exists
<1>4. "idle" \notin Answered /\ "check" \notin Answered
  BY DEF Answered
<1> QED
  BY <1>1, <1>2, <1>3, <1>4 DEF Promise!Ask

(* A key stands for one of its rows, or for none.                           *)
LEMMA BoundIdIsARow ==
  ASSUME NEW k \in Keys
  PROVE  /\ RowsOf(k) = {} => BoundId(k) = NoId
         /\ RowsOf(k) # {} => BoundId(k) \in RowsOf(k)
BY DEF BoundId

(* The insert of a row binds its key, which stood for nothing before.       *)
LEMMA BindingStep ==
  ASSUME ServiceInv, NEW r \in Requests, NEW p \in {"store", "failed"}, NEW id \in Ids,
         At(r, "insert"), RowsOf(req[r].key) = {}, ~Exists(id),
         rows' = [rows EXCEPT ![id] = NewRow(r)], GotoWith(r, p, id)
  PROVE  Promise!Bind(req[r].key, id)
<1>1. req \in [Requests -> Request] /\ req[r].key \in Keys
  BY DEF ServiceInv, TypeOK, ServiceTypeOK, PhasesFit, At
<1>2. /\ NewRow(r) \in Row /\ NewRow(r).key = req[r].key
      /\ rows'[id] = NewRow(r)
      /\ \A i \in Ids \ {id} : rows'[i] = rows[i]
  BY InsertedRow
<1>3. BoundId(req[r].key) = NoId
  BY <1>1, BoundIdIsARow
<1>4. \A other \in Keys : BoundId(other) # id
  BY BoundIdIsARow, StoreAssumption DEF RowsOf
<1>5. ASSUME NEW k \in Keys, k = req[r].key
      PROVE  BoundId(k)' = id
  <2>1. RowsOf(k)' = {id}
    BY <1>2, <1>5, StoreAssumption DEF RowsOf, Exists
  <2> QED
    BY <2>1 DEF BoundId
<1>6. ASSUME NEW k \in Keys, k # req[r].key
      PROVE  BoundId(k)' = BoundId(k)
  <2>1. RowsOf(k)' = RowsOf(k)
    BY <1>2, <1>6 DEF RowsOf, Exists
  <2> QED
    BY <2>1 DEF BoundId
<1>7. /\ req'[r].key = req[r].key
      /\ req[r].phase \notin Answered /\ req'[r].phase \notin Answered
      /\ \A q \in Requests \ {r} : req'[q] = req[q]
  BY <1>1 DEF GotoWith, Request, At, Answered
<1> QED
  BY <1>1, <1>2, <1>3, <1>4, <1>5, <1>6, <1>7 DEF Promise!Bind

LEMMA RequestSimulates ==
  ASSUME ServiceInv, NEW r \in Requests, Handle(r)
  PROVE  [Promise!Next]_(Promise!vars)
<1>0. /\ req \in [Requests -> Request]
      /\ idem \in [Keys -> Ids \cup {NoId}]
  BY DEF ServiceInv, TypeOK, ServiceTypeOK
<1>1. CASE CheckIdempotency(r)
  <2>1. UNCHANGED rows /\ req[r].phase = "check" /\ req[r].key \in Keys
    BY <1>1 DEF CheckIdempotency, storeVars, At, ServiceInv, PhasesFit
  <2>2. Goto(r, "failed") \/ Goto(r, "insert") \/ \E id \in Ids : GotoWith(r, "lookup", id)
    BY <1>0, <1>1, <2>1 DEF CheckIdempotency
  <2> QED
    BY <2>1, <2>2, UnansweredStep DEF Answered
<1>2. CASE LookupExisting(r)
  <2>1. UNCHANGED rows /\ req[r].phase = "lookup" /\ req[r].id # NoId
    BY <1>2 DEF LookupExisting, storeVars, At, ServiceInv, PhasesFit
  <2>2. CASE Goto(r, "failed")
    BY <2>1, <2>2, UnansweredStep DEF Answered
  <2>3. CASE Goto(r, "duplicate")
    BY <2>1, <2>3, AnsweringStep DEF Answered, At, Promise!Next
  <2> QED
    BY <1>2, <2>2, <2>3 DEF LookupExisting
<1>3. CASE InsertRow(r)
  <2>1. req[r].phase = "insert" /\ req[r].key \in Keys /\ At(r, "insert")
    BY <1>3 DEF InsertRow, At, ServiceInv, PhasesFit
  <2>2. CASE Goto(r, "failed") /\ UNCHANGED rows
    BY <2>1, <2>2, UnansweredStep DEF Answered
  <2>3. ASSUME NEW id \in Ids, ~Exists(id), RowsOf(req[r].key) = {},
               rows' = [rows EXCEPT ![id] = NewRow(r)],
               GotoWith(r, "store", id) \/ GotoWith(r, "failed", id)
        PROVE  Promise!Bind(req[r].key, id)
    BY <2>1, <2>3, BindingStep
  <2> QED
    BY <1>3, <2>1, <2>2, <2>3 DEF InsertRow, Promise!Next
<1>4. CASE StoreIdempotency(r)
  <2>1. UNCHANGED rows /\ req[r].phase = "store"
    BY <1>4 DEF StoreIdempotency, storeVars, At
  <2>2. Goto(r, "publish") \/ Goto(r, "failed")
    BY <1>4 DEF StoreIdempotency
  <2> QED
    BY <2>1, <2>2, UnansweredStep DEF Answered
<1>5. CASE Publish(r)
  <2>1. UNCHANGED rows /\ req[r].phase = "publish" /\ req[r].id # NoId
    BY <1>5 DEF Publish, At, ServiceInv, PhasesFit
  <2>2. CASE Goto(r, "created")
    BY <2>1, <2>2, AnsweringStep DEF Answered, At, Promise!Next
  <2>3. CASE Goto(r, "fallback")
    BY <2>1, <2>3, UnansweredStep DEF Answered
  <2> QED
    BY <1>5, <2>2, <2>3 DEF Publish
<1>6. CASE PublishFallback(r)
  <2>1. UNCHANGED rows /\ req[r].phase = "fallback" /\ req[r].id # NoId
    BY <1>6 DEF PublishFallback, At, ServiceInv, PhasesFit
  <2>2. CASE Goto(r, "created")
    BY <2>1, <2>2, AnsweringStep DEF Answered, At, Promise!Next
  <2>3. CASE Goto(r, "createdUnsent")
    BY <2>1, <2>3, AnsweringStep DEF Answered, At, Promise!Next
  <2> QED
    BY <1>6, <2>2, <2>3 DEF PublishFallback
<1> QED
  BY <1>1, <1>2, <1>3, <1>4, <1>5, <1>6 DEF Handle

LEMMA StepSimulates ==
  ServiceInv /\ [ServiceNext]_vars => [Promise!Next]_(Promise!vars)
<1> SUFFICES ASSUME ServiceInv, [ServiceNext]_vars PROVE [Promise!Next]_(Promise!vars)
  OBVIOUS
<1>1. ASSUME NEW r \in Requests, NEW k \in Keys, NEW early \in EarlyChoices,
             Receive(r, k, early)
      PROVE  Promise!Next
  BY <1>1, AskingStep DEF Promise!Next
<1>2. ASSUME NEW r \in Requests, CrashRequest(r)
      PROVE  UNCHANGED Promise!vars
  <2>1. req[r].phase \notin Answered /\ "crashed" \notin Answered
    BY <1>2 DEF CrashRequest, Active, Answered
  <2> QED
    BY <1>2, <2>1, UnansweredStep DEF CrashRequest, storeVars
<1>3. ASSUME NEW k \in Keys, ExpireKey(k)
      PROVE  UNCHANGED Promise!vars
  BY <1>3, SilentStep DEF ExpireKey, storeVars
<1>4. CASE UNCHANGED vars
  BY <1>4, SilentStep DEF vars, storeVars, serviceVars
<1>5. CASE ServiceNext
  <2>1. CASE \E r \in Requests :
               \E k \in Keys, early \in EarlyChoices : Receive(r, k, early)
    BY <1>1, <2>1
  <2>2. CASE \E r \in Requests : Handle(r)
    BY <2>2, RequestSimulates
  <2>3. CASE \E r \in Requests : CrashRequest(r)
    BY <1>2, <2>3
  <2>4. CASE \E k \in Keys : ExpireKey(k)
    BY <1>3, <2>4
  <2> QED
    BY <1>5, <2>1, <2>2, <2>3, <2>4 DEF ServiceNext
<1> QED
  BY <1>4, <1>5

LEMMA InitSimulates == Init => Promise!Init
<1> SUFFICES ASSUME Init PROVE Promise!Init
  OBVIOUS
<1>1. \A k \in Keys : BoundId(k) = NoId
  BY DEF Init, StoreInit, BoundId, RowsOf, Exists
<1> QED
  BY <1>1 DEF Init, ServiceInit, Promise!Init, Answered

(* NotificationService.create implements IdempotentCreate: the database's   *)
(* unique index binds a key to one notification, and an answer, whichever   *)
(* way the request came to it, is that notification.                        *)
THEOREM ServiceKeepsPromise == Spec => ImplementsPromise
<1>1. Init => Promise!Init
  BY InitSimulates
<1>2. ServiceInv /\ [ServiceNext]_vars => [Promise!Next]_(Promise!vars)
  BY StepSimulates
<1> QED
  BY <1>1, <1>2, ServiceInvariant, PTL DEF Spec, ImplementsPromise, Promise!Spec
=============================================================================
