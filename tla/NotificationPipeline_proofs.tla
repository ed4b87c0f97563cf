---------------------- MODULE NotificationPipeline_proofs ----------------------
(***************************************************************************)
(* The API, the workers and the manual retry over one table and one log:   *)
(* what each keeps true of its part it keeps in the others' company, and   *)
(* together they keep every message's row and every reset row's trace.     *)
(***************************************************************************)
EXTENDS NotificationPipeline, NotificationService_proofs, NotificationWorker_proofs

-----------------------------------------------------------------------------
(* The inductive invariant.                                                 *)

\* A worker handles, and a provider is given, what is in the table.
HandledHaveRows ==
  /\ \A w \in Workers : task[w].id # NoId => Exists(task[w].id)
  /\ \A id \in Ids : sends[id] > 0 => Exists(id)

RetrialsKnowTheirRow ==
  \A a \in Admins : retrial[a].phase # "idle" => retrial[a].id \in Ids

PipelineInv ==
  /\ ServiceInv
  /\ QueueInv
  /\ WorkerInv
  /\ DeliveryInv
  /\ AdminTypeOK
  /\ HandledHaveRows
  /\ RetrialsKnowTheirRow
  /\ ResetRowsAreSettled

LEMMA PipelineInitHolds == PipelineInit => PipelineInv
<1> SUFFICES ASSUME PipelineInit PROVE PipelineInv
  OBVIOUS
<1>1. Init /\ ServiceInv /\ QueueInv
  BY InitHolds, QueueInitHolds DEF PipelineInit, Init
<1>2. StoreTypeOK /\ FreshRows
  BY <1>1 DEF ServiceInv, TypeOK, FreshRows, Exists, Init, StoreInit
<1>3. WorkerInv /\ DeliveryInv
  BY <1>2, WorkerInitHolds, DeliveryInitHolds DEF PipelineInit
<1>4. HandledHaveRows
  BY DEF PipelineInit, WorkerInit, Idle, HandledHaveRows
<1>5. AdminTypeOK /\ RetrialsKnowTheirRow /\ ResetRowsAreSettled
  BY DEF PipelineInit, AdminInit, AdminTypeOK, RetrialPhases, RetrialsKnowTheirRow,
         ResetRowsAreSettled
<1> QED
  BY <1>1, <1>3, <1>4, <1>5 DEF PipelineInv

-----------------------------------------------------------------------------
(* Settled stays settled.                                                   *)
LEMMA ResetRowsStaySettled ==
  ASSUME ResetRowsAreSettled, RetrialsKnowTheirRow, Grows, UNCHANGED retrial
  PROVE  ResetRowsAreSettled' /\ RetrialsKnowTheirRow'
<1>1. RetrialsKnowTheirRow'
  BY DEF RetrialsKnowTheirRow
<1>2. ASSUME NEW a \in Admins, retrial[a].phase \in {"reset", "queued"}
      PROVE  Settled(retrial[a].id)'
  <2>1. PICK id \in Ids : id = retrial[a].id
    BY <1>2 DEF RetrialsKnowTheirRow
  <2>2. Settled(id)'
    BY <1>2, <2>1, SettledStays DEF ResetRowsAreSettled
  <2> QED
    BY <2>1, <2>2 DEF Settled, Recorded, Parked, Exists
<1> QED
  BY <1>1, <1>2 DEF ResetRowsAreSettled

LEMMA EnvironmentGrows ==
  ASSUME StoreTypeOK, Environment
  PROVE  Grows
BY DEF Environment, Grows, Exists, workerVars, history

-----------------------------------------------------------------------------
(* The API, as the workers see it.                                          *)

LEMMA NothingAppended ==
  ASSUME log \in Seq(Ids), UNCHANGED log
  PROVE  \E more \in Seq(Ids) : log' = log \o more
<1>1. log \o <<>> = log /\ <<>> \in Seq(Ids)
  BY ConcatEmptySeq
<1> QED
  BY <1>1

LEMMA ServiceIsEnvironment ==
  ASSUME ServiceInv, ServiceInv', ServiceNext, UNCHANGED workerVars
  PROVE  Environment
<1>1. StoreTypeOK /\ StoreTypeOK' /\ log \in Seq(Ids)
  BY DEF ServiceInv, TypeOK, StoreTypeOK
<1>2. /\ \E more \in Seq(Ids) : log' = log \o more
      /\ retryTopic \subseteq retryTopic' /\ dlqTopic \subseteq dlqTopic'
  <2>1. CASE UNCHANGED <<log, retryTopic, dlqTopic>>
    BY <1>1, <2>1, NothingAppended
  <2>2. ASSUME NEW r \in Requests, Publish(r)
        PROVE  \E more \in Seq(Ids) : log' = log \o more
    <3>1. req[r].id \in Ids
      <4>1. req[r].id # NoId
        BY <2>2 DEF Publish, At, ServiceInv, PhasesFit
      <4> QED
        BY <4>1 DEF ServiceInv, TypeOK, ServiceTypeOK, Request
    <3>2. PICK n \in Nat : log' = log \o [i \in 1..n |-> req[r].id]
      <4>1. PICK acked \in BOOLEAN : AppendLog(req[r].id, acked)
        BY <2>2 DEF Publish
      <4>2. PICK n \in (IF acked THEN 1 ELSE 0)..MaxCopies :
              log' = log \o [i \in 1..n |-> req[r].id]
        BY <4>1 DEF AppendLog
      <4>3. n \in Nat
        BY <4>2, StoreAssumption
      <4> QED
        BY <4>2, <4>3, Zenon
    <3>3. [i \in 1..n |-> req[r].id] \in Seq(Ids)
      <4>1. [i \in 1..n |-> req[r].id] \in [1..n -> Ids]
        BY <3>1
      <4> QED
        BY <3>2, <4>1
    <3> QED
      BY <3>2, <3>3
  <2>3. ASSUME NEW r \in Requests, PublishFallback(r)
        PROVE  UNCHANGED log /\ retryTopic \subseteq retryTopic' /\ UNCHANGED dlqTopic
    BY <2>3 DEF PublishFallback, AfterSend
  <2> QED
    BY <1>1, <2>1, <2>2, <2>3, NothingAppended DEF ServiceNext, Handle, Receive,
       CheckIdempotency, LookupExisting, InsertRow, StoreIdempotency, Publish,
       CrashRequest, ExpireKey, storeVars
<1>3. ASSUME NEW id \in Ids
      PROVE  IF Exists(id)
             THEN /\ rows'[id] # NoRow
                  /\ rows'[id].sentAt = rows[id].sentAt
                  /\ rows'[id].status \in {"SENT", "FAILED"} => rows'[id].status = rows[id].status
             ELSE rows'[id] # NoRow =>
                    ~rows'[id].sentAt /\ rows'[id].status \notin {"SENT", "FAILED"}
  <2>1. CASE UNCHANGED rows
    BY <2>1 DEF Exists
  <2>2. ASSUME NEW r \in Requests, InsertRow(r), ~UNCHANGED rows
        PROVE  /\ RowsStay
               /\ rows'[id] = rows[id]
                    \/ (~rows'[id].sentAt /\ rows'[id].status \notin {"SENT", "FAILED"})
    <3>1. At(r, "insert")
      BY <2>2 DEF InsertRow
    <3>2. PICK new \in Ids : ~Exists(new) /\ rows' = [rows EXCEPT ![new] = NewRow(r)]
      BY <2>2 DEF InsertRow
    <3>3. /\ rows'[new] = NewRow(r)
          /\ \A i \in Ids \ {new} : rows'[i] = rows[i]
          /\ RowsStay
      BY <3>1, <3>2, InsertedRow
    <3>4. ~NewRow(r).sentAt /\ NewRow(r).status \notin {"SENT", "FAILED"}
      BY DEF NewRow
    <3> QED
      BY <3>3, <3>4
  <2>3. \/ UNCHANGED rows
        \/ \E r \in Requests : InsertRow(r)
    BY DEF ServiceNext, Handle, Receive, CheckIdempotency, LookupExisting,
       StoreIdempotency, Publish, PublishFallback, CrashRequest, ExpireKey, storeVars
  <2> QED
    BY <2>1, <2>2, <2>3 DEF RowsStay, Exists
<1> QED
  BY <1>1, <1>2, <1>3 DEF Environment

LEMMA ServiceStepKeeps ==
  ASSUME PipelineInv, ServiceNext, UNCHANGED <<workerVars, retrial>>
  PROVE  PipelineInv'
<1>1. ServiceInv' /\ QueueInv'
  BY StepKeeps, QueueStepKeeps DEF PipelineInv
<1>2. Environment
  BY <1>1, ServiceIsEnvironment DEF PipelineInv
<1>3. WorkerInv' /\ DeliveryInv'
  BY <1>2, EnvironmentKeeps, DeliveryEnvironmentKeeps DEF PipelineInv
<1>4. Grows
  BY <1>2, EnvironmentGrows DEF PipelineInv, WorkerInv
<1>5. ResetRowsAreSettled' /\ RetrialsKnowTheirRow' /\ AdminTypeOK'
  BY <1>4, ResetRowsStaySettled DEF PipelineInv, AdminTypeOK
<1>6. HandledHaveRows'
  <2>1. UNCHANGED <<task, sends>>
    BY DEF workerVars, history
  <2>2. \A w \in Workers : task[w].id \in Ids \cup {NoId}
    BY DEF PipelineInv, WorkerInv, WorkerTypeOK
  <2> QED
    BY <1>4, <2>1, <2>2 DEF PipelineInv, HandledHaveRows, Grows, Exists
<1> QED
  BY <1>1, <1>3, <1>5, <1>6 DEF PipelineInv

-----------------------------------------------------------------------------
(* The workers, as the API sees them.                                       *)

\* Rows are updated in place; sentAt, once set, stays.
RowsUpdated ==
  \A id \in Ids :
    /\ rows'[id] # NoRow <=> Exists(id)
    /\ Exists(id) => rows'[id].key = rows[id].key /\ (rows[id].sentAt => rows'[id].sentAt)

LEMMA UpdateKeepsRows ==
  ASSUME StoreTypeOK, NEW id \in Ids, NEW new, NEW applied \in BOOLEAN,
         UpdateRow(id, new, applied),
         Exists(id) => /\ new \in Row
                       /\ new.key = rows[id].key
                       /\ rows[id].sentAt => new.sentAt
  PROVE  RowsUpdated
<1>1. rows \in [Ids -> Row \cup {NoRow}]
  BY DEF StoreTypeOK
<1>2. CASE applied /\ Exists(id)
  <2>1. rows'[id] = new /\ \A i \in Ids \ {id} : rows'[i] = rows[i]
    BY <1>1, <1>2 DEF UpdateRow
  <2> QED
    BY <1>2, <2>1, StoreAssumption DEF RowsUpdated, Exists
<1>3. CASE ~(applied /\ Exists(id))
  BY <1>3 DEF UpdateRow, RowsUpdated, Exists
<1> QED
  BY <1>2, <1>3

LEMMA HandlerStore ==
  ASSUME WorkerInv, NEW w \in Workers, HandleNotification(w)
  PROVE  /\ RowsUpdated
         /\ log' = log
         /\ retryTopic \subseteq retryTopic' /\ retryTopic' \subseteq retryTopic \cup {task[w].id}
         /\ dlqTopic \subseteq dlqTopic' /\ dropped \subseteq dropped'
         /\ task[w].id \in Ids
         /\ \A i \in Ids : sends'[i] > 0 => sends[i] > 0 \/ i = task[w].id
         /\ \A v \in Workers : task'[v].id \in {task[v].id, NoId}
<1>1. task[w].id \in Ids
  BY TaskId DEF HandleNotification, CheckRow, MarkProcessing, Send, MarkSent,
     SendToRetryQueue, SendToDLQ, MarkFailed, In
<1>2. PICK id \in Ids : id = task[w].id
  BY <1>1
<1>3. /\ task \in [Workers -> [phase : TaskPhases, id : Ids \cup {NoId}]]
      /\ sends \in [Ids -> Nat] /\ StoreTypeOK
  BY DEF WorkerInv, WorkerTypeOK
<1>4. \A v \in Workers : task'[v].id \in {task[v].id, NoId}
  <2>1. (\E p : GotoPhase(w, p)) \/ Return(w)
    BY DEF HandleNotification, CheckRow, MarkProcessing, Send, MarkSent,
       SendToRetryQueue, SendToDLQ, MarkFailed
  <2> QED
    BY <1>3, <2>1 DEF GotoPhase, Return, Idle
<1>5. \A i \in Ids : sends'[i] > 0 => sends[i] > 0 \/ i = task[w].id
  <2>1. UNCHANGED sends \/ sends' = [sends EXCEPT ![task[w].id] = @ + 1]
    BY DEF HandleNotification, CheckRow, MarkProcessing, Send, MarkSent,
       SendToRetryQueue, SendToDLQ, MarkFailed, history
  <2> QED
    BY <1>3, <2>1
<1>6. RowsUpdated
  <2>1. ASSUME NEW new, NEW applied \in BOOLEAN, UpdateRow(id, new, applied),
               \/ new = [rows[id] EXCEPT !.status = "PROCESSING"]
               \/ new = [rows[id] EXCEPT !.status = "SENT", !.sentAt = TRUE]
               \/ new = [rows[id] EXCEPT !.status = "FAILED"]
        PROVE  RowsUpdated
    <3>1. Exists(id) => rows[id] \in Row
      BY <1>3 DEF StoreTypeOK, Exists
    <3>2. Exists(id) => /\ new \in Row /\ new.key = rows[id].key
                        /\ rows[id].sentAt => new.sentAt
      BY <2>1, <3>1 DEF Row, Statuses
    <3> QED
      BY <1>3, <2>1, <3>2, UpdateKeepsRows
  <2>2. CASE MarkProcessing(w)
    <3>1. PICK new : new = [rows[id] EXCEPT !.status = "PROCESSING"]
      OBVIOUS
    <3>2. PICK applied \in BOOLEAN : UpdateRow(id, new, applied)
      BY <1>2, <2>2, <3>1 DEF MarkProcessing
    <3> QED
      BY <2>1, <3>1, <3>2
  <2>3. CASE MarkSent(w)
    <3>1. PICK new : new = [rows[id] EXCEPT !.status = "SENT", !.sentAt = TRUE]
      OBVIOUS
    <3>2. PICK applied \in BOOLEAN : UpdateRow(id, new, applied)
      BY <1>2, <2>3, <3>1 DEF MarkSent
    <3> QED
      BY <2>1, <3>1, <3>2
  <2>4. CASE MarkFailed(w)
    <3>1. PICK new : new = [rows[id] EXCEPT !.status = "FAILED"]
      OBVIOUS
    <3>2. PICK applied \in BOOLEAN : UpdateRow(id, new, applied)
      BY <1>2, <2>4, <3>1 DEF MarkFailed
    <3> QED
      BY <2>1, <3>1, <3>2
  <2>5. CASE UNCHANGED rows
    BY <2>5 DEF RowsUpdated, Exists
  <2> QED
    BY <2>2, <2>3, <2>4, <2>5 DEF HandleNotification, CheckRow, Send, SendToRetryQueue,
       SendToDLQ, storeVars
<1>7. /\ log' = log
      /\ retryTopic \subseteq retryTopic' /\ retryTopic' \subseteq retryTopic \cup {task[w].id}
      /\ dlqTopic \subseteq dlqTopic' /\ dropped \subseteq dropped'
  BY DEF HandleNotification, CheckRow, MarkProcessing, Send, MarkSent,
     SendToRetryQueue, SendToDLQ, MarkFailed, AfterSend, storeVars, history
<1> QED
  BY <1>1, <1>4, <1>5, <1>6, <1>7

(* Every step of the workers, seen from outside.                            *)
LEMMA WorkerStore ==
  ASSUME WorkerInv, QueuedHaveRows, HandledHaveRows, WorkerNext
  PROVE  /\ RowsUpdated
         /\ log' = log
         /\ retryTopic \subseteq retryTopic'
         /\ \A id \in Ids : id \in retryTopic' => id \in retryTopic \/ Exists(id)
         /\ dlqTopic \subseteq dlqTopic' /\ dropped \subseteq dropped'
         /\ HandledHaveRows'
<1>1. ASSUME RowsUpdated,
             \A v \in Workers :
               \/ task'[v].id \in {task[v].id, NoId}
               \/ task'[v].id \in Ids /\ Exists(task'[v].id),
             \A id \in Ids : sends'[id] > 0 => Exists(id)
      PROVE  HandledHaveRows'
  <2>1. \A v \in Workers : task[v].id \in Ids \cup {NoId}
    BY DEF WorkerInv, WorkerTypeOK
  <2> QED
    BY <1>1, <2>1 DEF RowsUpdated, HandledHaveRows, Exists
<1>2. CASE \E w \in Workers : HandleNotification(w)
  <2>1. PICK w \in Workers : HandleNotification(w)
    BY <1>2
  <2>2. task[w].id \in Ids /\ Exists(task[w].id)
    BY <2>1, HandlerStore, StoreAssumption DEF HandledHaveRows
  <2>3. \A id \in Ids : sends'[id] > 0 => Exists(id)
    BY <2>1, <2>2, HandlerStore DEF HandledHaveRows
  <2> QED
    BY <1>1, <2>1, <2>2, <2>3, HandlerStore
<1>3. CASE LoseSession \/ \E w \in Workers : CrashWorker(w) \/ RegisterHandler(w)
                                         \/ Assign(w) \/ AutoCommit(w) \/ Fetch(w)
  <2>1. UNCHANGED storeVars /\ UNCHANGED <<sends, dropped>>
    BY <1>3 DEF LoseSession, CrashWorker, RegisterHandler, Assign, AutoCommit, Fetch, history
  <2>2. RowsUpdated
    BY <2>1 DEF RowsUpdated, Exists, storeVars
  <2>3. \A v \in Workers :
          \/ task'[v].id \in {task[v].id, NoId}
          \/ task'[v].id \in Ids /\ Exists(task'[v].id)
    <3>1. task \in [Workers -> [phase : TaskPhases, id : Ids \cup {NoId}]]
      BY DEF WorkerInv, WorkerTypeOK
    <3>2. ASSUME NEW w \in Workers, Fetch(w), ~UNCHANGED task
          PROVE  \E id \in Ids :
                   Exists(id) /\ task' = [task EXCEPT ![w] = [phase |-> "check", id |-> id]]
      <4>1. position[w] + 1 \in 1..Len(log)
        BY <3>2, LogItems DEF Fetch
      <4>2. PICK id \in Ids : id = log[position[w] + 1]
        BY <4>1, LogItems
      <4>3. Exists(id)
        BY <4>1, <4>2 DEF QueuedHaveRows, Queued, OnLog
      <4> QED
        BY <3>2, <4>2, <4>3 DEF Fetch
    <3>3. ASSUME NEW w \in Workers, CrashWorker(w)
          PROVE  task' = [task EXCEPT ![w] = Idle]
      BY <3>3 DEF CrashWorker
    <3>4. CASE UNCHANGED task
      BY <3>4
    <3> QED
      BY <1>3, <3>1, <3>2, <3>3, <3>4
         DEF LoseSession, RegisterHandler, Assign, AutoCommit, Idle
  <2> QED
    BY <1>1, <2>1, <2>2, <2>3 DEF HandledHaveRows, storeVars
<1> QED
  BY <1>2, <1>3 DEF WorkerNext, WorkerStep

LEMMA WorkersStepKeeps ==
  ASSUME PipelineInv, WorkerNext, UNCHANGED <<serviceVars, retrial>>
  PROVE  PipelineInv'
<1>1. WorkerInv' /\ DeliveryInv'
  BY WorkerStepKeeps, DeliveryStepKeeps DEF PipelineInv
<1>2. /\ RowsUpdated
      /\ log' = log
      /\ retryTopic \subseteq retryTopic'
      /\ \A id \in Ids : id \in retryTopic' => id \in retryTopic \/ Exists(id)
      /\ dlqTopic \subseteq dlqTopic' /\ dropped \subseteq dropped'
      /\ HandledHaveRows'
  BY WorkerStore DEF PipelineInv, QueueInv
<1>3. ServiceEnvironment
  BY <1>1, <1>2 DEF ServiceEnvironment, RowsUpdated, WorkerInv
<1>4. ServiceInv' /\ QueueInv'
  BY <1>3, ServiceEnvironmentKeeps DEF PipelineInv
<1>5. Grows
  BY <1>2 DEF Grows, RowsUpdated
<1>6. ResetRowsAreSettled' /\ RetrialsKnowTheirRow' /\ AdminTypeOK'
  BY <1>5, ResetRowsStaySettled DEF PipelineInv, AdminTypeOK
<1> QED
  BY <1>1, <1>2, <1>4, <1>6 DEF PipelineInv

-----------------------------------------------------------------------------
(* The operator and the clock: they update a row in place, and neither its  *)
(* sentAt nor, but for leaving FAILED, what its status says of a delivery.  *)
Touch(id, new, applied) ==
  /\ UNCHANGED <<log, retryTopic, dlqTopic, serviceVars, workerVars>>
  /\ UpdateRow(id, new, applied)
  /\ Exists(id) =>
       /\ new \in Row
       /\ new.key = rows[id].key
       /\ new.sentAt = rows[id].sentAt
       /\ new.status \in {rows[id].status, "PENDING"}

LEMMA TouchKeeps ==
  ASSUME PipelineInv, NEW id \in Ids, NEW new, NEW applied \in BOOLEAN,
         Touch(id, new, applied)
  PROVE  /\ ServiceInv' /\ QueueInv' /\ WorkerInv' /\ DeliveryInv'
         /\ HandledHaveRows' /\ Grows
<1>1. /\ UpdateRow(id, new, applied)
      /\ Exists(id) =>
           /\ new \in Row
           /\ new.key = rows[id].key
           /\ new.sentAt = rows[id].sentAt
           /\ new.status \in {rows[id].status, "PENDING"}
  BY DEF Touch
<1>2. StoreTypeOK /\ log \in Seq(Ids)
  BY DEF PipelineInv, WorkerInv, StoreTypeOK
<1>3. /\ rows' \in [Ids -> Row \cup {NoRow}]
      /\ \A i \in Ids \ {id} : rows'[i] = rows[i]
      /\ rows'[id] = IF applied /\ Exists(id) THEN new ELSE rows[id]
  BY <1>1, <1>2, UpdatedRow
<1>4. RowsUpdated
  BY <1>1, <1>2, UpdateKeepsRows
<1>5. StoreTypeOK'
  BY <1>2, <1>3 DEF StoreTypeOK, Touch
<1>6. ServiceEnvironment
  BY <1>4, <1>5 DEF ServiceEnvironment, Touch, RowsUpdated
<1>7. Environment
  <2>1. \E more \in Seq(Ids) : log' = log \o more
    BY <1>2, NothingAppended DEF Touch
  <2>2. \A i \in Ids :
          IF Exists(i)
          THEN /\ rows'[i] # NoRow
               /\ rows'[i].sentAt = rows[i].sentAt
               /\ rows'[i].status \in {"SENT", "FAILED"} => rows'[i].status = rows[i].status
          ELSE rows'[i] = NoRow
    BY <1>1, <1>3, <1>4 DEF RowsUpdated, Exists
  <2> QED
    BY <1>5, <2>1, <2>2 DEF Environment, Touch
<1>8. Grows
  BY <1>2, <1>7, EnvironmentGrows
<1>9. HandledHaveRows'
  <2>1. UNCHANGED <<task, sends>> /\ \A w \in Workers : task[w].id \in Ids \cup {NoId}
    BY DEF Touch, workerVars, history, PipelineInv, WorkerInv, WorkerTypeOK
  <2> QED
    BY <1>8, <2>1 DEF PipelineInv, HandledHaveRows, Grows, Exists
<1> QED
  BY <1>6, <1>7, <1>8, <1>9, ServiceEnvironmentKeeps, EnvironmentKeeps,
     DeliveryEnvironmentKeeps DEF PipelineInv

LEMMA ComeDueKeeps ==
  ASSUME PipelineInv, NEW id \in Ids, ComeDue(id)
  PROVE  PipelineInv'
<1>1. PICK new : new = [rows[id] EXCEPT !.early = FALSE]
  OBVIOUS
<1>2. rows \in [Ids -> Row \cup {NoRow}]
  BY DEF PipelineInv, WorkerInv, StoreTypeOK
<1>3. UpdateRow(id, new, TRUE)
  BY <1>1, <1>2 DEF ComeDue, UpdateRow
<1>4. Exists(id) => /\ new \in Row /\ new.key = rows[id].key
                    /\ new.sentAt = rows[id].sentAt /\ new.status = rows[id].status
  BY <1>1, <1>2 DEF Exists, Row
<1>5. Touch(id, new, TRUE)
  BY <1>3, <1>4 DEF ComeDue, Touch
<1>6. UNCHANGED retrial
  BY DEF ComeDue
<1>7. ResetRowsAreSettled' /\ RetrialsKnowTheirRow' /\ AdminTypeOK'
  BY <1>5, <1>6, TouchKeeps, ResetRowsStaySettled DEF PipelineInv, AdminTypeOK
<1> QED
  BY <1>5, <1>7, TouchKeeps DEF PipelineInv

LEMMA ReadForRetryKeeps ==
  ASSUME PipelineInv, NEW a \in Admins, NEW id \in Ids, ReadForRetry(a, id),
         UNCHANGED <<serviceVars, workerVars>>
  PROVE  PipelineInv'
<1>1. /\ UNCHANGED storeVars /\ Exists(id) /\ rows[id].status = "FAILED"
      /\ retrial' = [retrial EXCEPT ![a] = [phase |-> "reset", id |-> id]]
  BY DEF ReadForRetry
<1>2. Touch(id, rows[id], FALSE)
  <2>1. UpdateRow(id, rows[id], FALSE)
    BY <1>1 DEF UpdateRow, storeVars
  <2>2. rows[id] \in Row
    BY <1>1 DEF PipelineInv, WorkerInv, StoreTypeOK, Exists
  <2> QED
    BY <1>1, <2>1, <2>2 DEF Touch, storeVars
<1>3. Settled(id)
  BY <1>1 DEF PipelineInv, WorkerInv, FailedIsKept, Settled
<1>4. retrial \in [Admins -> [phase : RetrialPhases, id : Ids \cup {NoId}]]
  BY DEF PipelineInv, AdminTypeOK
<1>5. AdminTypeOK' /\ RetrialsKnowTheirRow'
  BY <1>1, <1>4 DEF AdminTypeOK, RetrialPhases, PipelineInv, RetrialsKnowTheirRow
<1>6. ResetRowsAreSettled'
  <2>1. UNCHANGED dropped
    BY DEF workerVars, history
  <2> QED
    BY <1>1, <1>3, <1>4, <2>1 DEF PipelineInv, ResetRowsAreSettled, Settled, Recorded,
       Parked, Exists, storeVars
<1> QED
  BY <1>2, <1>5, <1>6, TouchKeeps DEF PipelineInv

LEMMA ResetForRetryKeeps ==
  ASSUME PipelineInv, NEW a \in Admins, ResetForRetry(a),
         UNCHANGED <<serviceVars, workerVars>>
  PROVE  PipelineInv'
<1>1. retrial[a].phase = "reset" /\ UNCHANGED <<log, retryTopic, dlqTopic>>
  BY DEF ResetForRetry
<1>2. PICK id \in Ids : id = retrial[a].id
  BY <1>1 DEF PipelineInv, RetrialsKnowTheirRow
<1>3. PICK new : new = [rows[id] EXCEPT !.status = "PENDING"]
  OBVIOUS
<1>4. PICK applied \in BOOLEAN, ok \in BOOLEAN :
        /\ UpdateRow(id, new, applied)
        /\ retrial' = [retrial EXCEPT ![a].phase = IF ok THEN "queued" ELSE "failed"]
  BY <1>2, <1>3 DEF ResetForRetry
<1>5. Exists(id) => /\ new \in Row /\ new.key = rows[id].key
                    /\ new.sentAt = rows[id].sentAt /\ new.status = "PENDING"
  BY <1>3 DEF PipelineInv, WorkerInv, StoreTypeOK, Exists, Row, Statuses
<1>6. Touch(id, new, applied)
  BY <1>1, <1>4, <1>5 DEF Touch
<1>7. retrial \in [Admins -> [phase : RetrialPhases, id : Ids \cup {NoId}]]
  BY DEF PipelineInv, AdminTypeOK
<1>8. /\ retrial'[a].id = id /\ retrial'[a].phase \in {"queued", "failed"}
      /\ \A b \in Admins \ {a} : retrial'[b] = retrial[b]
      /\ AdminTypeOK'
  BY <1>2, <1>4, <1>7 DEF AdminTypeOK, RetrialPhases
<1>9. RetrialsKnowTheirRow'
  BY <1>8 DEF PipelineInv, RetrialsKnowTheirRow
<1>10. ResetRowsAreSettled'
  <2> SUFFICES ASSUME NEW b \in Admins, retrial'[b].phase \in {"reset", "queued"}
               PROVE  Settled(retrial[b].id)'
    BY DEF ResetRowsAreSettled
  <2>1. retrial'[b].id = retrial[b].id /\ retrial[b].phase \in {"reset", "queued"}
    BY <1>1, <1>2, <1>8
  <2>2. PICK i \in Ids : i = retrial[b].id /\ i = retrial'[b].id
    BY <2>1 DEF PipelineInv, RetrialsKnowTheirRow
  <2>3. Settled(i)'
    BY <1>6, <2>1, <2>2, TouchKeeps, SettledStays DEF PipelineInv, ResetRowsAreSettled
  <2> QED
    BY <2>2, <2>3 DEF Settled, Recorded, Parked, Exists
<1> QED
  BY <1>6, <1>8, <1>9, <1>10, TouchKeeps DEF PipelineInv

-----------------------------------------------------------------------------
LEMMA PipelineStepKeeps == PipelineInv /\ [PipelineNext]_pipelineVars => PipelineInv'
<1> SUFFICES ASSUME PipelineInv, [PipelineNext]_pipelineVars PROVE PipelineInv'
  OBVIOUS
<1>1. CASE PipelineNext
  BY <1>1, ServiceStepKeeps, WorkersStepKeeps, ReadForRetryKeeps, ResetForRetryKeeps,
     ComeDueKeeps DEF PipelineNext, AdminNext
<1>2. CASE UNCHANGED pipelineVars
  <2>1. UNCHANGED <<storeVars, serviceVars, workerVars, retrial>>
    BY <1>2 DEF pipelineVars
  <2>2. ServiceInv' /\ QueueInv' /\ WorkerInv' /\ DeliveryInv'
    BY <2>1, StepKeeps, QueueStepKeeps, WorkerStepKeeps, DeliveryStepKeeps
       DEF PipelineInv, vars, workerFrame
  <2>3. Grows /\ HandledHaveRows'
    BY <2>1, StoreStaysGrows DEF workerVars, history, storeVars, PipelineInv,
       HandledHaveRows, Exists
  <2> QED
    BY <2>1, <2>2, <2>3, ResetRowsStaySettled DEF PipelineInv, AdminTypeOK
<1> QED
  BY <1>1, <1>2

LEMMA PipelineInvariant == PipelineSpec => []PipelineInv
BY PipelineInitHolds, PipelineStepKeeps, PTL DEF PipelineSpec

(* Persist first, publish second: a worker never handles, and a provider is *)
(* never given, a notification without its row, and the row has the key its *)
(* request came with.                                                       *)
THEOREM WorkHasRows == PipelineSpec => []NoWorkWithoutRow
<1>1. PipelineInv => NoWorkWithoutRow
  <2> SUFFICES ASSUME PipelineInv, NEW id \in Ids, sends[id] > 0
               PROVE  \E r \in Requests : req[r].id = id /\ rows[id].key = req[r].key
    BY DEF PipelineInv, HandledHaveRows, NoWorkWithoutRow
  <2>1. PICK r \in Requests : req[r].id = id
    BY DEF PipelineInv, HandledHaveRows, QueueInv, RowsHaveMakers
  <2> QED
    BY <2>1, StoreAssumption DEF PipelineInv, ServiceInv, RequestsKnowTheirRow
<1> QED
  BY <1>1, PipelineInvariant, PTL

(* The manual retry resets only rows whose message is kept or was           *)
(* delivered, also when workers change the row between its read and its     *)
(* update (AdminController.retryNotification).                              *)
THEOREM ResetsLoseNothing == PipelineSpec => []ResetRowsAreSettled
<1>1. PipelineInv => ResetRowsAreSettled
  BY DEF PipelineInv
<1> QED
  BY <1>1, PipelineInvariant, PTL

(* What the API promises alone and the workers promise on a backlog they    *)
(* also promise together, with the operator resetting rows in between.      *)
THEOREM PromisesCompose ==
  PipelineSpec => [](/\ SameKeySameAnswer
                     /\ CachedKeyNamesItsRow
                     /\ QueuedOrExplained
                     /\ CommittedIsSettled
                     /\ RecordedWasSent
                     /\ FailedIsKept
                     /\ DuplicatesHaveACause)
<1>1. PipelineInv => /\ SameKeySameAnswer
                     /\ CachedKeyNamesItsRow
                     /\ QueuedOrExplained
                     /\ CommittedIsSettled
                     /\ RecordedWasSent
                     /\ FailedIsKept
                     /\ DuplicatesHaveACause
  BY OneAnswerPerKey, QueueInvExplains, CountsExplainDuplicates
     DEF PipelineInv, ServiceInv, WorkerInv
<1> QED
  BY <1>1, PipelineInvariant, PTL

(* The skip test holds in the pipeline too: a manual retry never makes a    *)
(* notification that was recorded as sent go out again.                     *)
THEOREM RetriesDoNotResend == PipelineSpec => RecordedIsNotResent
<1> DEFINE Step ==
      \A id \in Ids : Recorded(id) /\ sends'[id] # sends[id] => faults > 0
<1>1. PipelineInv /\ [PipelineNext]_pipelineVars => [Step]_workerFrame
  <2> SUFFICES ASSUME PipelineInv, [PipelineNext]_pipelineVars,
                      NEW id \in Ids, Recorded(id), sends'[id] # sends[id]
               PROVE  faults > 0
    OBVIOUS
  <2>1. WorkerNext \/ UNCHANGED workerVars
    BY DEF PipelineNext, AdminNext, ComeDue, pipelineVars
  <2>2. CASE UNCHANGED workerVars
    BY <2>2 DEF workerVars, history
  <2> QED
    BY <2>1, <2>2, RecordedIsSentAgainAfterAFault DEF PipelineInv
<1>2. PipelineSpec => [][Step]_workerFrame
  BY <1>1, PipelineInvariant, PTL DEF PipelineSpec
<1> QED
  BY <1>2 DEF RecordedIsNotResent

-----------------------------------------------------------------------------
(* Workers, operators and the clock take no part in the promise of          *)
(* IdempotentCreate: they leave requests and keys alone.                    *)
LEMMA OthersAreSilent ==
  ASSUME RowsUpdated, UNCHANGED serviceVars
  PROVE  UNCHANGED Promise!vars
<1>1. ASSUME NEW k \in Keys
      PROVE  BoundId(k)' = BoundId(k)
  <2>1. RowsOf(k)' = RowsOf(k)
    BY DEF RowsUpdated, RowsOf, Exists
  <2> QED
    BY <2>1 DEF BoundId
<1> QED
  BY <1>1 DEF Promise!vars, serviceVars

LEMMA PipelineStepSimulates ==
  PipelineInv /\ [PipelineNext]_pipelineVars => [Promise!Next]_(Promise!vars)
<1> SUFFICES ASSUME PipelineInv, [PipelineNext]_pipelineVars
             PROVE  [Promise!Next]_(Promise!vars)
  OBVIOUS
<1>1. CASE ServiceNext
  BY <1>1, StepSimulates DEF PipelineInv
<1>2. CASE WorkerNext /\ UNCHANGED serviceVars
  BY <1>2, WorkerStore, OthersAreSilent DEF PipelineInv, QueueInv
<1>3. CASE AdminNext /\ UNCHANGED serviceVars
  <2>1. RowsUpdated
    <3>1. CASE UNCHANGED rows
      BY <3>1 DEF RowsUpdated, Exists
    <3>2. ASSUME NEW a \in Admins, ResetForRetry(a)
          PROVE  RowsUpdated
      <4>1. PICK id \in Ids : id = retrial[a].id
        BY <3>2 DEF ResetForRetry, PipelineInv, RetrialsKnowTheirRow
      <4>2. PICK new : new = [rows[id] EXCEPT !.status = "PENDING"]
        OBVIOUS
      <4>3. PICK applied \in BOOLEAN : UpdateRow(id, new, applied)
        BY <3>2, <4>1, <4>2 DEF ResetForRetry
      <4>4. Exists(id) => new \in Row /\ new.key = rows[id].key /\ new.sentAt = rows[id].sentAt
        BY <4>2 DEF PipelineInv, WorkerInv, StoreTypeOK, Exists, Row, Statuses
      <4> QED
        BY <4>3, <4>4, UpdateKeepsRows DEF PipelineInv, WorkerInv
    <3> QED
      BY <1>3, <3>1, <3>2 DEF AdminNext, ReadForRetry, storeVars
  <2> QED
    BY <1>3, <2>1, OthersAreSilent
<1>4. CASE \E id \in Ids : ComeDue(id)
  <2>1. rows \in [Ids -> Row \cup {NoRow}] /\ UNCHANGED serviceVars
    BY <1>4 DEF PipelineInv, WorkerInv, StoreTypeOK, ComeDue
  <2>2. PICK id \in Ids : Exists(id) /\ rows' = [rows EXCEPT ![id].early = FALSE]
    BY <1>4 DEF ComeDue
  <2>3. rows[id] \in Row
    BY <2>1, <2>2 DEF Exists
  <2>4. PICK new : new = [rows[id] EXCEPT !.early = FALSE]
    OBVIOUS
  <2>5. new \in Row /\ new.key = rows[id].key /\ new.sentAt = rows[id].sentAt
    BY <2>3, <2>4 DEF Row
  <2>6. UpdateRow(id, new, TRUE)
    BY <2>1, <2>2, <2>4 DEF UpdateRow
  <2> QED
    BY <2>1, <2>5, <2>6, UpdateKeepsRows, OthersAreSilent DEF PipelineInv, WorkerInv
<1>5. CASE UNCHANGED pipelineVars
  BY <1>5, SilentStep DEF pipelineVars, storeVars, serviceVars
<1> QED
  BY <1>1, <1>2, <1>3, <1>4, <1>5 DEF PipelineNext

(* The whole pipeline, too, implements IdempotentCreate: no worker, manual  *)
(* retry or passing of time changes what a key stands for or what a client  *)
(* was told.                                                                *)
THEOREM PipelineKeepsPromise == PipelineSpec => ImplementsPromise
<1>1. PipelineInit => Promise!Init
  BY InitSimulates DEF PipelineInit, Init
<1>2. PipelineInv /\ [PipelineNext]_pipelineVars => [Promise!Next]_(Promise!vars)
  BY PipelineStepSimulates
<1> QED
  BY <1>1, <1>2, PipelineInvariant, PTL DEF PipelineSpec, ImplementsPromise, Promise!Spec
=============================================================================
