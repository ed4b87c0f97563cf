----------------------- MODULE NotificationWorker_proofs -----------------------
(***************************************************************************)
(* What the workers keep true of table, topics and offsets, whoever else   *)
(* writes to them within bounds: every step of a worker keeps the          *)
(* invariant, and so does every step of a well-behaved environment.        *)
(***************************************************************************)
EXTENDS NotificationWorker, SequenceTheorems, FiniteSetTheorems, TLAPS

-----------------------------------------------------------------------------
(* The inductive invariant.                                                 *)

(* SENT is never written without sentAt.                                    *)
SentHasTime ==
  \A id \in Ids : Exists(id) /\ rows[id].status = "SENT" => rows[id].sentAt

Kept(id) == Parked(id) \/ id \in dropped

(* What the place a worker has reached in handleNotification tells.         *)
TasksFit ==
  \A w \in Workers :
    /\ ~In(w, "idle") => task[w].id \in Ids
    /\ In(w, "markSent") => sends[task[w].id] > 0
    /\ In(w, "markFailed") => Kept(task[w].id)

Done(i) == i <= latest \/ Settled(log[i]) \/ i \in ignored

(* The owner is done with what it has counted, has counted what is          *)
(* committed, and handles the record after that.                            *)
OwnerInOrder ==
  \A w \in Workers :
    owner = w =>
      /\ committed <= position[w]
      /\ \A i \in 1..position[w] : Done(i)
      /\ ~In(w, "idle") => position[w] < Len(log) /\ task[w].id = log[position[w] + 1]

WorkerInv ==
  /\ StoreTypeOK
  /\ WorkerTypeOK
  /\ SentHasTime
  /\ RecordedWasSent
  /\ FailedIsKept
  /\ TasksFit
  /\ OwnerInOrder
  /\ CommittedIsSettled

(* Rows nobody has worked on yet.                                           *)
FreshRows ==
  \A id \in Ids :
    Exists(id) => ~rows[id].sentAt /\ rows[id].status \notin {"SENT", "FAILED"}

LEMMA WorkerInitHolds ==
  ASSUME StoreTypeOK, FreshRows, WorkerInit
  PROVE  WorkerInv
<1> USE StoreAssumption, WorkerAssumption DEF WorkerInit
<1>1. log \in Seq(Ids) /\ Len(log) \in Nat
  BY DEF StoreTypeOK
<1>2. WorkerTypeOK
  BY <1>1 DEF WorkerTypeOK, Idle, TaskPhases
<1>3. SentHasTime /\ RecordedWasSent /\ FailedIsKept
  BY DEF FreshRows, SentHasTime, RecordedWasSent, Recorded, FailedIsKept
<1>4. TasksFit /\ OwnerInOrder /\ CommittedIsSettled
  BY DEF TasksFit, OwnerInOrder, CommittedIsSettled, In, Idle
<1> QED
  BY <1>2, <1>3, <1>4 DEF WorkerInv

-----------------------------------------------------------------------------
(* What every step respects: a row keeps its sentAt, and a topic what is on *)
(* it.                                                                      *)
Grows ==
  /\ \A id \in Ids :
       /\ Exists(id) => rows'[id] # NoRow
       /\ Exists(id) /\ rows[id].sentAt => rows'[id].sentAt
  /\ retryTopic \subseteq retryTopic'
  /\ dlqTopic \subseteq dlqTopic'
  /\ dropped \subseteq dropped'

LEMMA SettledStays ==
  ASSUME Grows, NEW id \in Ids
  PROVE  (Settled(id) => Settled(id)') /\ (Kept(id) => Kept(id)')
BY DEF Grows, Settled, Recorded, Exists, Parked, Kept

(* An update of a row by a worker, which only ever sets sentAt.             *)
LEMMA UpdatedRow ==
  ASSUME StoreTypeOK, NEW id \in Ids, NEW new, NEW applied \in BOOLEAN,
         Exists(id) => new \in Row /\ (rows[id].sentAt => new.sentAt),
         UpdateRow(id, new, applied)
  PROVE  /\ rows' \in [Ids -> Row \cup {NoRow}]
         /\ \A i \in Ids \ {id} : rows'[i] = rows[i]
         /\ rows'[id] = IF applied /\ Exists(id) THEN new ELSE rows[id]
         /\ \A i \in Ids :
              /\ Exists(i) => rows'[i] # NoRow
              /\ Exists(i) /\ rows[i].sentAt => rows'[i].sentAt
<1>1. rows \in [Ids -> Row \cup {NoRow}]
  BY DEF StoreTypeOK
<1>2. CASE applied /\ Exists(id)
  BY <1>1, <1>2, StoreAssumption DEF UpdateRow, Exists
<1>3. CASE ~(applied /\ Exists(id))
  BY <1>1, <1>3 DEF UpdateRow, Exists
<1> QED
  BY <1>2, <1>3

-----------------------------------------------------------------------------
(* Steps of a handler.                                                      *)

\* What a step of w's handler for notification id leaves behind.
HandlerFrame(w, id) ==
  /\ ~In(w, "idle") /\ task[w].id = id
  /\ Grows
  /\ StoreTypeOK'
  /\ UNCHANGED <<log, groupVars, ignored>>
  /\ sends' \in [Ids -> Nat]
  /\ \A i \in Ids : sends'[i] >= sends[i]
  /\ unrecorded' \subseteq Ids
  /\ dropped' \subseteq Ids
  /\ SentHasTime' /\ RecordedWasSent' /\ FailedIsKept'

LEMMA LogItems ==
  ASSUME WorkerInv
  PROVE  /\ Len(log) \in Nat
         /\ \A i \in 1..Len(log) : log[i] \in Ids
         /\ committed \in 0..Len(log)
         /\ \A w \in Workers : position[w] \in 0..Len(log)
<1>1. log \in Seq(Ids) /\ WorkerTypeOK
  BY DEF WorkerInv, StoreTypeOK
<1> QED
  BY <1>1 DEF WorkerTypeOK

(* Records the group or a worker is done with stay done.                    *)
LEMMA DoneStays ==
  ASSUME WorkerInv, Grows, UNCHANGED <<log, latest>>, ignored \subseteq ignored',
         NEW i \in 1..Len(log), Done(i)
  PROVE  Done(i)'
<1>1. log[i] \in Ids
  BY LogItems
<1>2. PICK id \in Ids : id = log[i]
  BY <1>1
<1>3. Settled(id) => Settled(id)'
  BY SettledStays
<1>4. Settled(log[i])' = Settled(id)' /\ Settled(log[i]) = Settled(id)
  BY <1>2 DEF Settled, Recorded, Parked, Exists
<1> QED
  BY <1>3, <1>4 DEF Done

LEMMA CommittedStaysSettled ==
  ASSUME WorkerInv, Grows, UNCHANGED <<log, committed, latest>>, ignored \subseteq ignored'
  PROVE  CommittedIsSettled'
<1> SUFFICES ASSUME NEW i \in 1..committed PROVE Done(i)'
  BY DEF CommittedIsSettled, Done
<1>1. i \in 1..Len(log) /\ Done(i)
  BY LogItems DEF WorkerInv, CommittedIsSettled, Done
<1> QED
  BY <1>1, DoneStays

(* The handler goes on to another phase.                                    *)
LEMMA HandlerMoves ==
  ASSUME WorkerInv, NEW w \in Workers, NEW id \in Ids, NEW p \in TaskPhases \ {"idle"},
         HandlerFrame(w, id), GotoPhase(w, p), Stay,
         p = "markSent" => sends'[id] > 0,
         p = "markFailed" => Kept(id)'
  PROVE  WorkerInv'
<1> USE DEF HandlerFrame
<1>1. task \in [Workers -> [phase : TaskPhases, id : Ids \cup {NoId}]]
  BY DEF WorkerInv, WorkerTypeOK
<1>2. /\ task'[w].phase = p /\ task'[w].id = id
      /\ \A v \in Workers \ {w} : task'[v] = task[v]
      /\ task' \in [Workers -> [phase : TaskPhases, id : Ids \cup {NoId}]]
  BY <1>1 DEF GotoPhase
<1>3. WorkerTypeOK'
  BY <1>2 DEF WorkerInv, WorkerTypeOK, groupVars, Stay
<1>4. TasksFit'
  <2> SUFFICES ASSUME NEW v \in Workers
               PROVE  /\ task'[v].phase # "idle" => task'[v].id \in Ids
                      /\ task'[v].phase = "markSent" => sends'[task'[v].id] > 0
                      /\ task'[v].phase = "markFailed" => Kept(task[v].id)'
    BY DEF TasksFit, In, Kept, Parked
  <2>1. CASE v = w
    BY <1>2, <2>1 DEF Kept, Parked
  <2>2. CASE v # w
    <3>1. task'[v] = task[v]
      BY <1>2, <2>2
    <3>2. /\ task[v].phase # "idle" => task[v].id \in Ids
          /\ task[v].phase = "markSent" => task[v].id \in Ids /\ sends[task[v].id] > 0
          /\ task[v].phase = "markFailed" => Kept(task[v].id)
      BY DEF WorkerInv, TasksFit, In
    <3>3. task[v].phase = "markSent" => sends'[task[v].id] > 0
      BY <3>2 DEF WorkerInv, WorkerTypeOK
    <3>4. task[v].phase = "markFailed" => Kept(task[v].id)'
      BY <3>1, <3>2 DEF Kept, Parked, Grows
    <3> QED
      BY <3>1, <3>2, <3>3, <3>4
  <2> QED
    BY <2>1, <2>2
<1>5. OwnerInOrder'
  <2> SUFFICES ASSUME NEW v \in Workers, owner = v
               PROVE  /\ committed <= position[v]
                      /\ \A i \in 1..position[v] : Done(i)'
                      /\ task'[v].phase # "idle" =>
                           position[v] < Len(log) /\ task'[v].id = log[position[v] + 1]
    BY DEF OwnerInOrder, In, groupVars, Stay, Done
  <2>1. \A i \in 1..position[v] : Done(i)'
    BY LogItems, DoneStays DEF WorkerInv, OwnerInOrder, groupVars
  <2> QED
    BY <1>2, <2>1 DEF WorkerInv, OwnerInOrder, In
<1>6. CommittedIsSettled'
  BY CommittedStaysSettled DEF groupVars
<1> QED
  BY <1>3, <1>4, <1>5, <1>6 DEF WorkerInv

(* The handler returns: the notification it had is settled.                 *)
LEMMA HandlerReturns ==
  ASSUME WorkerInv, NEW w \in Workers, NEW id \in Ids,
         HandlerFrame(w, id), Return(w), Settled(id)'
  PROVE  WorkerInv'
<1> USE DEF HandlerFrame
<1>1. /\ task \in [Workers -> [phase : TaskPhases, id : Ids \cup {NoId}]]
      /\ position \in [Workers -> 0..Len(log)]
      /\ Idle \in [phase : TaskPhases, id : Ids \cup {NoId}] /\ Idle.phase = "idle"
  BY DEF WorkerInv, WorkerTypeOK, Idle, TaskPhases
<1>2. /\ task'[w] = Idle
      /\ \A v \in Workers \ {w} : task'[v] = task[v]
      /\ task' \in [Workers -> [phase : TaskPhases, id : Ids \cup {NoId}]]
  BY <1>1 DEF Return
<1>3. ASSUME owner = w
      PROVE  position[w] < Len(log) /\ log[position[w] + 1] = id
  BY <1>3 DEF WorkerInv, OwnerInOrder
<1>4. /\ \A v \in Workers : position'[v] = IF v = w /\ owner = w THEN position[v] + 1
                                          ELSE position[v]
      /\ position' \in [Workers -> 0..Len(log)]
  BY <1>1, <1>3, LogItems DEF Return
<1>5. WorkerTypeOK'
  BY <1>2, <1>4 DEF WorkerInv, WorkerTypeOK, groupVars
<1>6. TasksFit'
  <2> SUFFICES ASSUME NEW v \in Workers, v # w
               PROVE  /\ task'[v].phase # "idle" => task'[v].id \in Ids
                      /\ task'[v].phase = "markSent" => sends'[task'[v].id] > 0
                      /\ task'[v].phase = "markFailed" => Kept(task[v].id)'
    BY <1>1, <1>2 DEF TasksFit, In, Kept, Parked
  <2>1. task'[v] = task[v]
    BY <1>2
  <2>2. /\ task[v].phase # "idle" => task[v].id \in Ids
        /\ task[v].phase = "markSent" => task[v].id \in Ids /\ sends[task[v].id] > 0
        /\ task[v].phase = "markFailed" => Kept(task[v].id)
    BY DEF WorkerInv, TasksFit, In
  <2>3. task[v].phase = "markSent" => sends'[task[v].id] > 0
    BY <2>2 DEF WorkerInv, WorkerTypeOK
  <2>4. task[v].phase = "markFailed" => Kept(task[v].id)'
    BY <2>1, <2>2 DEF Kept, Parked, Grows
  <2> QED
    BY <2>1, <2>2, <2>3, <2>4
<1>7. OwnerInOrder'
  <2> SUFFICES ASSUME NEW v \in Workers, owner = v
               PROVE  /\ committed <= position'[v]
                      /\ \A i \in 1..position'[v] : Done(i)'
                      /\ task'[v].phase # "idle" =>
                           position'[v] < Len(log) /\ task'[v].id = log[position'[v] + 1]
    BY DEF OwnerInOrder, In, groupVars, Done
  <2>1. \A i \in 1..position[v] : Done(i)'
    BY LogItems, DoneStays DEF WorkerInv, OwnerInOrder, groupVars
  <2>2. CASE v = w
    <3>1. position'[w] = position[w] + 1 /\ position[w] \in Nat /\ committed \in Nat
      BY <1>4, <2>2, LogItems
    <3>2. ASSUME NEW i \in Nat, i = position[w] + 1
          PROVE  Done(i)'
      <4>1. log'[i] = id
        BY <1>3, <2>2, <3>2
      <4> QED
        BY <4>1 DEF Done, Settled, Recorded, Parked, Exists
    <3>3. \A i \in 1..position'[v] : Done(i)'
      BY <2>1, <2>2, <3>1, <3>2
    <3> QED
      BY <1>1, <1>2, <2>2, <3>1, <3>3 DEF WorkerInv, OwnerInOrder
  <2>3. CASE v # w
    BY <1>2, <1>4, <2>1, <2>3 DEF WorkerInv, OwnerInOrder, In
  <2> QED
    BY <2>2, <2>3
<1>8. CommittedIsSettled'
  BY CommittedStaysSettled DEF groupVars
<1> QED
  BY <1>5, <1>6, <1>7, <1>8 DEF WorkerInv

-----------------------------------------------------------------------------
(* The actions of handleNotification.                                       *)

(* A step that writes no row.                                               *)
LEMMA QuietFrame ==
  ASSUME WorkerInv, NEW w \in Workers, NEW id \in Ids, ~In(w, "idle"), task[w].id = id,
         UNCHANGED <<rows, log, groupVars, ignored>>,
         retryTopic \subseteq retryTopic', retryTopic' \subseteq Ids,
         dlqTopic \subseteq dlqTopic', dlqTopic' \subseteq Ids,
         dropped \subseteq dropped', dropped' \subseteq Ids,
         unrecorded' \subseteq Ids,
         sends' \in [Ids -> Nat], \A i \in Ids : sends'[i] >= sends[i]
  PROVE  HandlerFrame(w, id)
<1>1. sends \in [Ids -> Nat] /\ StoreTypeOK
  BY DEF WorkerInv, WorkerTypeOK
<1>2. Grows /\ StoreTypeOK'
  BY <1>1 DEF Grows, Exists, StoreTypeOK
<1>3. SentHasTime' /\ FailedIsKept'
  BY DEF WorkerInv, SentHasTime, FailedIsKept, Exists, Parked
<1>4. RecordedWasSent'
  BY <1>1 DEF WorkerInv, RecordedWasSent, Recorded, Exists
<1> QED
  BY <1>2, <1>3, <1>4 DEF HandlerFrame

(* A step that updates the row of the notification.                         *)
LEMMA UpdateFrame ==
  ASSUME WorkerInv, NEW w \in Workers, NEW id \in Ids, ~In(w, "idle"), task[w].id = id,
         NEW new, NEW applied \in BOOLEAN, UpdateRow(id, new, applied),
         Exists(id) =>
           /\ new \in Row
           /\ rows[id].sentAt => new.sentAt
           /\ new.status = "SENT" => new.sentAt
           /\ new.sentAt => sends[id] > 0
           /\ new.status = "FAILED" => Kept(id),
         UNCHANGED <<log, retryTopic, dlqTopic, groupVars, sends, dropped, ignored>>,
         unrecorded' \subseteq Ids
  PROVE  HandlerFrame(w, id)
<1>1. sends \in [Ids -> Nat] /\ StoreTypeOK /\ dropped \subseteq Ids
  BY DEF WorkerInv, WorkerTypeOK
<1>2. /\ rows' \in [Ids -> Row \cup {NoRow}]
      /\ \A i \in Ids \ {id} : rows'[i] = rows[i]
      /\ rows'[id] = IF applied /\ Exists(id) THEN new ELSE rows[id]
      /\ \A i \in Ids :
           /\ Exists(i) => rows'[i] # NoRow
           /\ Exists(i) /\ rows[i].sentAt => rows'[i].sentAt
  BY <1>1, UpdatedRow
<1>3. Grows /\ StoreTypeOK'
  BY <1>1, <1>2 DEF Grows, StoreTypeOK
<1>4. ASSUME NEW i \in Ids, rows'[i] # NoRow
      PROVE  \/ rows'[i] = rows[i] /\ Exists(i)
             \/ i = id /\ rows'[i] = new /\ Exists(id)
  BY <1>2, <1>4 DEF Exists
<1>5. SentHasTime'
  BY <1>4 DEF WorkerInv, SentHasTime, Exists
<1>6. RecordedWasSent'
  BY <1>4 DEF WorkerInv, RecordedWasSent, Recorded, Exists
<1>7. FailedIsKept'
  BY <1>4 DEF WorkerInv, FailedIsKept, Exists, Kept, Parked
<1>8. \A i \in Ids : sends'[i] >= sends[i]
  BY <1>1
<1> QED
  BY <1>1, <1>3, <1>5, <1>6, <1>7, <1>8 DEF HandlerFrame

LEMMA SentToTopic ==
  ASSUME NEW topic \in SUBSET Ids, NEW id \in Ids, NEW acked, NEW after \in AfterSend(topic, id, acked)
  PROVE  /\ topic \subseteq after /\ after \subseteq Ids
         /\ acked => id \in after
BY DEF AfterSend

(* The notification of a worker that is not idle.                           *)
LEMMA TaskId ==
  ASSUME WorkerInv, NEW w \in Workers, ~In(w, "idle")
  PROVE  task[w].id \in Ids
BY DEF WorkerInv, TasksFit

LEMMA CheckRowKeeps ==
  ASSUME WorkerInv, NEW w \in Workers, CheckRow(w)
  PROVE  WorkerInv'
<1>1. ~In(w, "idle") /\ UNCHANGED <<storeVars, groupVars, history>>
  BY DEF CheckRow, In
<1>2. PICK id \in Ids : id = task[w].id
  BY <1>1, TaskId
<1>3. HandlerFrame(w, id)
  <2>1. /\ retryTopic \subseteq Ids /\ dlqTopic \subseteq Ids /\ dropped \subseteq Ids
        /\ unrecorded \subseteq Ids /\ sends \in [Ids -> Nat]
    BY DEF WorkerInv, StoreTypeOK, WorkerTypeOK
  <2>2. \A i \in Ids : sends'[i] >= sends[i]
    BY <1>1, <2>1 DEF history
  <2> QED
    BY <1>1, <1>2, <2>1, <2>2, QuietFrame DEF storeVars, history
<1>4. CASE AlreadySent(id) /\ Return(w)
  <2>1. Recorded(id)
    BY <1>4 DEF AlreadySent, Recorded, WorkerInv, SentHasTime
  <2>2. Settled(id)'
    BY <1>3, <2>1, SettledStays DEF Settled, HandlerFrame
  <2> QED
    BY <1>3, <1>4, <2>2, HandlerReturns
<1>5. CASE GotoPhase(w, "retry") /\ Stay
  BY <1>3, <1>5, HandlerMoves DEF TaskPhases
<1>6. CASE GotoPhase(w, "mark") /\ Stay
  BY <1>3, <1>6, HandlerMoves DEF TaskPhases
<1> QED
  BY <1>2, <1>4, <1>5, <1>6 DEF CheckRow

LEMMA MarkProcessingKeeps ==
  ASSUME WorkerInv, NEW w \in Workers, MarkProcessing(w)
  PROVE  WorkerInv'
<1>1. ~In(w, "idle")
  BY DEF MarkProcessing, In
<1>2. PICK id \in Ids : id = task[w].id
  BY <1>1, TaskId
<1>3. PICK new : new = [rows[id] EXCEPT !.status = "PROCESSING"]
  OBVIOUS
<1>4. PICK applied \in BOOLEAN, ok \in BOOLEAN :
        UpdateRow(id, new, applied) /\ GotoPhase(w, IF ok THEN "send" ELSE "retry")
  BY <1>2, <1>3 DEF MarkProcessing
<1>5. Exists(id) =>
        /\ new \in Row /\ new.sentAt = rows[id].sentAt /\ new.status = "PROCESSING"
        /\ rows[id].sentAt => sends[id] > 0
  BY <1>3 DEF WorkerInv, StoreTypeOK, Exists, Row, Statuses, RecordedWasSent, Recorded
<1>6. HandlerFrame(w, id)
  BY <1>1, <1>2, <1>4, <1>5, UpdateFrame
     DEF MarkProcessing, history, WorkerInv, WorkerTypeOK
<1> QED
  BY <1>4, <1>6, HandlerMoves DEF TaskPhases, MarkProcessing

LEMMA SendKeeps ==
  ASSUME WorkerInv, NEW w \in Workers, Send(w)
  PROVE  WorkerInv'
<1>1. ~In(w, "idle") /\ UNCHANGED <<storeVars, groupVars, unrecorded, dropped, ignored>>
  BY DEF Send, In
<1>2. PICK id \in Ids : id = task[w].id
  BY <1>1, TaskId
<1>3. /\ retryTopic \subseteq Ids /\ dlqTopic \subseteq Ids /\ dropped \subseteq Ids
      /\ unrecorded \subseteq Ids /\ sends \in [Ids -> Nat]
  BY DEF WorkerInv, StoreTypeOK, WorkerTypeOK
<1>4. CASE sends' = [sends EXCEPT ![id] = @ + 1] /\ GotoPhase(w, "markSent")
  <2>1. /\ sends' \in [Ids -> Nat] /\ sends'[id] > 0
        /\ \A i \in Ids : sends'[i] >= sends[i]
    BY <1>3, <1>4
  <2>2. HandlerFrame(w, id)
    BY <1>1, <1>2, <1>3, <2>1, QuietFrame DEF storeVars
  <2> QED
    BY <1>4, <2>1, <2>2, HandlerMoves DEF TaskPhases, Send
<1>5. CASE UNCHANGED sends /\ GotoPhase(w, "retry")
  <2>1. \A i \in Ids : sends'[i] >= sends[i]
    BY <1>3, <1>5
  <2>2. HandlerFrame(w, id)
    BY <1>1, <1>2, <1>3, <1>5, <2>1, QuietFrame DEF storeVars
  <2> QED
    BY <1>5, <2>2, HandlerMoves DEF TaskPhases, Send
<1> QED
  BY <1>2, <1>4, <1>5 DEF Send

LEMMA MarkSentKeeps ==
  ASSUME WorkerInv, NEW w \in Workers, MarkSent(w)
  PROVE  WorkerInv'
<1>1. ~In(w, "idle") /\ task[w].phase = "markSent"
  BY DEF MarkSent, In
<1>2. PICK id \in Ids : id = task[w].id
  BY <1>1, TaskId
<1>3. PICK new : new = [rows[id] EXCEPT !.status = "SENT", !.sentAt = TRUE]
  OBVIOUS
<1>4. PICK applied \in BOOLEAN, ok \in BOOLEAN :
        /\ ok => applied /\ Exists(id)
        /\ UpdateRow(id, new, applied)
        /\ unrecorded' = IF applied /\ Exists(id) THEN unrecorded ELSE unrecorded \cup {id}
        /\ IF ok THEN Return(w) ELSE GotoPhase(w, "retry") /\ Stay
  BY <1>2, <1>3 DEF MarkSent
<1>5. Exists(id) => new \in Row /\ new.sentAt /\ new.status = "SENT"
  BY <1>3 DEF WorkerInv, StoreTypeOK, Exists, Row, Statuses
<1>6. sends[id] > 0
  BY <1>1, <1>2 DEF WorkerInv, TasksFit, In
<1>7. HandlerFrame(w, id)
  <2>1. unrecorded' \subseteq Ids
    BY <1>4 DEF WorkerInv, WorkerTypeOK
  <2>2. UNCHANGED <<log, retryTopic, dlqTopic, groupVars, sends, dropped, ignored>>
    BY DEF MarkSent
  <2>3. Exists(id) =>
          /\ new \in Row
          /\ rows[id].sentAt => new.sentAt
          /\ new.status = "SENT" => new.sentAt
          /\ new.sentAt => sends[id] > 0
          /\ new.status = "FAILED" => Kept(id)
    BY <1>5, <1>6
  <2> QED
    BY <1>1, <1>2, <1>4, <2>1, <2>2, <2>3, UpdateFrame
<1>8. CASE ok
  <2>1. rows'[id] = new /\ new \in Row /\ new.sentAt
    BY <1>4, <1>5, <1>8 DEF UpdateRow, WorkerInv, StoreTypeOK
  <2>2. Settled(id)'
    BY <2>1, StoreAssumption DEF Settled, Recorded, Exists
  <2> QED
    BY <1>4, <1>7, <1>8, <2>2, HandlerReturns
<1>9. CASE ~ok
  BY <1>4, <1>7, <1>9, HandlerMoves DEF TaskPhases
<1> QED
  BY <1>8, <1>9

LEMMA SendToRetryQueueKeeps ==
  ASSUME WorkerInv, NEW w \in Workers, SendToRetryQueue(w)
  PROVE  WorkerInv'
<1>1. ~In(w, "idle") /\ Stay /\ UNCHANGED <<rows, log, dlqTopic, groupVars, history>>
  BY DEF SendToRetryQueue, In
<1>2. PICK id \in Ids : id = task[w].id
  BY <1>1, TaskId
<1>3. /\ retryTopic \subseteq Ids /\ dlqTopic \subseteq Ids /\ dropped \subseteq Ids
      /\ unrecorded \subseteq Ids /\ sends \in [Ids -> Nat]
  BY DEF WorkerInv, StoreTypeOK, WorkerTypeOK
<1>4. \/ retryTopic' = retryTopic /\ GotoPhase(w, "dlq")
      \/ \E acked \in BOOLEAN :
           /\ retryTopic' \in AfterSend(retryTopic, id, acked)
           /\ GotoPhase(w, IF acked THEN "markFailed" ELSE "dlq")
  BY <1>2 DEF SendToRetryQueue
<1>5. retryTopic \subseteq retryTopic' /\ retryTopic' \subseteq Ids
  BY <1>3, <1>4 DEF AfterSend
<1>6. HandlerFrame(w, id)
  <2>1. \A i \in Ids : sends'[i] >= sends[i]
    BY <1>1, <1>3 DEF history
  <2> QED
    BY <1>1, <1>2, <1>3, <1>5, <2>1, QuietFrame DEF history
<1>7. CASE GotoPhase(w, "dlq")
  BY <1>1, <1>6, <1>7, HandlerMoves DEF TaskPhases
<1>8. CASE GotoPhase(w, "markFailed") /\ id \in retryTopic'
  BY <1>1, <1>6, <1>8, HandlerMoves DEF TaskPhases, Kept, Parked
<1> QED
  BY <1>4, <1>7, <1>8 DEF AfterSend

LEMMA SendToDLQKeeps ==
  ASSUME WorkerInv, NEW w \in Workers, SendToDLQ(w)
  PROVE  WorkerInv'
<1>1. /\ ~In(w, "idle") /\ Stay /\ GotoPhase(w, "markFailed")
      /\ UNCHANGED <<rows, log, retryTopic, groupVars, sends, unrecorded, ignored>>
  BY DEF SendToDLQ, In
<1>2. PICK id \in Ids : id = task[w].id
  BY <1>1, TaskId
<1>3. /\ retryTopic \subseteq Ids /\ dlqTopic \subseteq Ids /\ dropped \subseteq Ids
      /\ unrecorded \subseteq Ids /\ sends \in [Ids -> Nat]
  BY DEF WorkerInv, StoreTypeOK, WorkerTypeOK
<1>4. PICK acked \in BOOLEAN :
        /\ dlqTopic' \in AfterSend(dlqTopic, id, acked)
        /\ dropped' = IF acked THEN dropped ELSE dropped \cup {id}
  BY <1>2 DEF SendToDLQ
<1>5. /\ dlqTopic \subseteq dlqTopic' /\ dlqTopic' \subseteq Ids
      /\ dropped \subseteq dropped' /\ dropped' \subseteq Ids
      /\ id \in dlqTopic' \/ id \in dropped'
  BY <1>3, <1>4 DEF AfterSend
<1>6. HandlerFrame(w, id)
  <2>1. \A i \in Ids : sends'[i] >= sends[i]
    BY <1>1, <1>3
  <2> QED
    BY <1>1, <1>2, <1>3, <1>5, <2>1, QuietFrame
<1> QED
  BY <1>1, <1>5, <1>6, HandlerMoves DEF TaskPhases, Kept, Parked

LEMMA MarkFailedKeeps ==
  ASSUME WorkerInv, NEW w \in Workers, MarkFailed(w)
  PROVE  WorkerInv'
<1>1. /\ ~In(w, "idle") /\ task[w].phase = "markFailed" /\ Return(w)
      /\ UNCHANGED <<log, retryTopic, dlqTopic, groupVars, history>>
  BY DEF MarkFailed, In
<1>2. PICK id \in Ids : id = task[w].id
  BY <1>1, TaskId
<1>3. PICK new : new = [rows[id] EXCEPT !.status = "FAILED"]
  OBVIOUS
<1>4. PICK applied \in BOOLEAN : UpdateRow(id, new, applied)
  BY <1>2, <1>3 DEF MarkFailed
<1>5. Kept(id)
  BY <1>1, <1>2 DEF WorkerInv, TasksFit, In
<1>6. Exists(id) =>
        /\ new \in Row /\ new.sentAt = rows[id].sentAt /\ new.status = "FAILED"
        /\ rows[id].sentAt => sends[id] > 0
  BY <1>3 DEF WorkerInv, StoreTypeOK, Exists, Row, Statuses, RecordedWasSent, Recorded
<1>7. HandlerFrame(w, id)
  <2>1. unrecorded' \subseteq Ids
    BY <1>1 DEF history, WorkerInv, WorkerTypeOK
  <2> QED
    BY <1>1, <1>2, <1>4, <1>5, <1>6, <2>1, UpdateFrame DEF history
<1>8. Settled(id)'
  BY <1>5, <1>7, SettledStays DEF HandlerFrame, Settled, Kept
<1> QED
  BY <1>1, <1>7, <1>8, HandlerReturns

-----------------------------------------------------------------------------
(* The steps of the group touch neither table nor topics.                   *)

LEMMA GroupStep ==
  ASSUME WorkerInv, UNCHANGED <<storeVars, sends, unrecorded, dropped>>,
         WorkerTypeOK', TasksFit', OwnerInOrder', CommittedIsSettled'
  PROVE  WorkerInv'
BY DEF WorkerInv, StoreTypeOK, SentHasTime, RecordedWasSent, Recorded, FailedIsKept,
       Parked, Exists, storeVars

LEMMA StoreStaysGrows ==
  ASSUME UNCHANGED <<storeVars, dropped>> PROVE Grows
BY DEF Grows, storeVars, Exists

(* A step that leaves every task alone or ends it.                          *)
LEMMA TasksStayFit ==
  ASSUME WorkerInv, UNCHANGED <<storeVars, sends, dropped>>,
         \A w \in Workers : task'[w] = task[w] \/ task'[w] = Idle
  PROVE  TasksFit'
BY DEF WorkerInv, TasksFit, In, Idle, Kept, Parked, storeVars

LEMMA AssignKeeps ==
  ASSUME WorkerInv, NEW w \in Workers, Assign(w)
  PROVE  WorkerInv'
<1> USE DEF Assign
<1>1. Grows /\ TasksFit' /\ UNCHANGED log
  BY StoreStaysGrows, TasksStayFit DEF history, storeVars
<1>2. /\ position \in [Workers -> 0..Len(log)] /\ committed \in 0..Len(log)
      /\ Len(log) \in Nat
  BY LogItems DEF WorkerInv, WorkerTypeOK
<1>3. WorkerTypeOK'
  BY <1>1, <1>2 DEF WorkerInv, WorkerTypeOK, history
<1>4. CommittedIsSettled'
  <2>1. CASE committed = 0
    BY <2>1 DEF CommittedIsSettled
  <2>2. CASE committed # 0
    BY <1>1, <2>2, CommittedStaysSettled DEF history
  <2> QED
    BY <2>1, <2>2
<1>5. OwnerInOrder'
  <2>1. committed <= position'[w] /\ \A i \in 1..position'[w] : Done(i)'
    <3>1. CASE committed = 0
      <4>1. position'[w] = Len(log) /\ latest' = Len(log)
        BY <1>2, <3>1
      <4> QED
        BY <1>2, <4>1 DEF Done
    <3>2. CASE committed # 0
      <4>1. position'[w] = committed
        BY <1>2, <3>2
      <4> QED
        BY <1>2, <1>4, <4>1 DEF CommittedIsSettled, Done
    <3> QED
      BY <3>1, <3>2
  <2> QED
    BY <2>1 DEF OwnerInOrder, In, Done
<1> QED
  BY <1>1, <1>3, <1>4, <1>5, GroupStep DEF history

LEMMA LoseSessionKeeps ==
  ASSUME WorkerInv, LoseSession
  PROVE  WorkerInv'
<1> USE DEF LoseSession
<1>1. Grows /\ TasksFit' /\ UNCHANGED log
  BY StoreStaysGrows, TasksStayFit DEF history, storeVars
<1>2. WorkerTypeOK'
  BY <1>1, WorkerAssumption DEF WorkerInv, WorkerTypeOK, history
<1>3. CommittedIsSettled'
  BY <1>1, CommittedStaysSettled DEF history
<1>4. OwnerInOrder'
  BY WorkerAssumption DEF OwnerInOrder
<1> QED
  BY <1>1, <1>2, <1>3, <1>4, GroupStep DEF history

LEMMA CrashWorkerKeeps ==
  ASSUME WorkerInv, NEW w \in Workers, CrashWorker(w)
  PROVE  WorkerInv'
<1> USE DEF CrashWorker
<1>1. task \in [Workers -> [phase : TaskPhases, id : Ids \cup {NoId}]]
  BY DEF WorkerInv, WorkerTypeOK
<1>2. /\ \A v \in Workers : task'[v] = IF v = w THEN Idle ELSE task[v]
      /\ task' \in [Workers -> [phase : TaskPhases, id : Ids \cup {NoId}]]
  BY <1>1 DEF Idle, TaskPhases
<1>3. Grows /\ TasksFit' /\ UNCHANGED log
  BY <1>2, StoreStaysGrows, TasksStayFit DEF history, storeVars
<1>4. WorkerTypeOK'
  BY <1>2, <1>3, WorkerAssumption DEF WorkerInv, WorkerTypeOK, history
<1>5. CommittedIsSettled'
  BY <1>3, CommittedStaysSettled DEF history
<1>6. OwnerInOrder'
  <2> SUFFICES ASSUME NEW v \in Workers, owner' = v
               PROVE  /\ committed <= position[v]
                      /\ \A i \in 1..position[v] : Done(i)'
                      /\ task'[v].phase # "idle" =>
                           position[v] < Len(log) /\ task'[v].id = log[position[v] + 1]
    BY <1>3 DEF OwnerInOrder, In, Done
  <2>1. v # w /\ owner = v /\ task'[v] = task[v]
    BY <1>2, WorkerAssumption
  <2>2. \A i \in 1..position[v] : Done(i)'
    BY <1>3, <2>1, LogItems, DoneStays DEF WorkerInv, OwnerInOrder, history
  <2> QED
    BY <2>1, <2>2 DEF WorkerInv, OwnerInOrder, In
<1> QED
  BY <1>3, <1>4, <1>5, <1>6, GroupStep DEF history

LEMMA AutoCommitKeeps ==
  ASSUME WorkerInv, NEW w \in Workers, AutoCommit(w)
  PROVE  WorkerInv'
<1> USE DEF AutoCommit
<1>1. Grows /\ TasksFit' /\ UNCHANGED log
  BY StoreStaysGrows, TasksStayFit DEF history, storeVars
<1>2. position \in [Workers -> 0..Len(log)] /\ committed' = position[w]
  BY DEF WorkerInv, WorkerTypeOK
<1>3. WorkerTypeOK'
  BY <1>1, <1>2 DEF WorkerInv, WorkerTypeOK, history
<1>4. \A i \in 1..position[w] : Done(i)'
  BY <1>1, LogItems, DoneStays DEF WorkerInv, OwnerInOrder, history
<1>5. CommittedIsSettled'
  BY <1>2, <1>4 DEF CommittedIsSettled, Done
<1>6. OwnerInOrder'
  BY <1>2, <1>4 DEF WorkerInv, OwnerInOrder, In, Done, storeVars
<1> QED
  BY <1>1, <1>3, <1>5, <1>6, GroupStep DEF history

LEMMA RegisterHandlerKeeps ==
  ASSUME WorkerInv, NEW w \in Workers, RegisterHandler(w)
  PROVE  WorkerInv'
<1> USE DEF RegisterHandler
<1>1. Grows /\ TasksFit' /\ UNCHANGED log
  BY StoreStaysGrows, TasksStayFit DEF history, storeVars
<1>2. WorkerTypeOK'
  BY <1>1 DEF WorkerInv, WorkerTypeOK, history
<1>3. CommittedIsSettled'
  BY <1>1, CommittedStaysSettled DEF history
<1>4. \A v \in Workers : owner = v => \A i \in 1..position[v] : Done(i)'
  BY <1>1, LogItems, DoneStays DEF WorkerInv, OwnerInOrder, history
<1>5. OwnerInOrder'
  BY <1>4 DEF WorkerInv, OwnerInOrder, In, Done, storeVars
<1> QED
  BY <1>1, <1>2, <1>3, <1>5, GroupStep DEF history

(* A registered worker takes the next record into its handler.              *)
LEMMA FetchHandledKeeps ==
  ASSUME WorkerInv, NEW w \in Workers, Fetch(w), w \in registered
  PROVE  WorkerInv'
<1> DEFINE offset == position[w] + 1
<1>1. /\ UNCHANGED <<storeVars, groupVars, position, history>>
      /\ owner = w /\ offset <= Len(log)
      /\ task' = [task EXCEPT ![w] = [phase |-> "check", id |-> log[offset]]]
  BY DEF Fetch, history
<1>2. offset \in 1..Len(log) /\ log[offset] \in Ids
  BY <1>1, LogItems
<1>3. task \in [Workers -> [phase : TaskPhases, id : Ids \cup {NoId}]]
  BY DEF WorkerInv, WorkerTypeOK
<1>4. /\ task'[w].phase = "check" /\ task'[w].id = log[offset]
      /\ \A v \in Workers \ {w} : task'[v] = task[v]
      /\ task' \in [Workers -> [phase : TaskPhases, id : Ids \cup {NoId}]]
  BY <1>1, <1>2, <1>3 DEF TaskPhases
<1>5. WorkerTypeOK'
  BY <1>1, <1>4 DEF WorkerInv, WorkerTypeOK, history, groupVars, storeVars
<1>6. TasksFit'
  BY <1>1, <1>2, <1>4 DEF WorkerInv, TasksFit, In, Kept, Parked, storeVars, history
<1>7. Grows /\ UNCHANGED log
  BY <1>1, StoreStaysGrows DEF history, storeVars
<1>8. CommittedIsSettled'
  BY <1>1, <1>7, CommittedStaysSettled DEF history, groupVars
<1>9. OwnerInOrder'
  <2>1. \A v \in Workers : owner = v => \A i \in 1..position[v] : Done(i)'
    BY <1>1, <1>7, LogItems, DoneStays DEF WorkerInv, OwnerInOrder, history, groupVars
  <2>2. position[w] < Len(log)
    BY <1>1, LogItems
  <2> QED
    BY <1>1, <1>4, <2>1, <2>2 DEF WorkerInv, OwnerInOrder, In, Done, storeVars, groupVars
<1> QED
  BY <1>1, <1>5, <1>6, <1>8, <1>9, GroupStep DEF history

(* The default handler of an unregistered worker is done with it.           *)
LEMMA FetchIgnoredKeeps ==
  ASSUME WorkerInv, NEW w \in Workers, Fetch(w), w \notin registered
  PROVE  WorkerInv'
<1> DEFINE offset == position[w] + 1
<1>1. /\ UNCHANGED <<storeVars, groupVars, task, sends, unrecorded, dropped>>
      /\ owner = w /\ In(w, "idle") /\ offset <= Len(log)
      /\ position' = [position EXCEPT ![w] = offset]
      /\ ignored' = ignored \cup {offset}
  BY DEF Fetch
<1>2. offset \in 1..Len(log)
  BY <1>1, LogItems
<1>3. position \in [Workers -> 0..Len(log)]
  BY DEF WorkerInv, WorkerTypeOK
<1>4. /\ position'[w] = offset /\ \A v \in Workers \ {w} : position'[v] = position[v]
      /\ position' \in [Workers -> 0..Len(log)]
  BY <1>1, <1>2, <1>3
<1>5. Grows /\ TasksFit' /\ UNCHANGED log
  BY <1>1, StoreStaysGrows, TasksStayFit DEF storeVars
<1>6. WorkerTypeOK'
  BY <1>1, <1>2, <1>4, <1>5 DEF WorkerInv, WorkerTypeOK, groupVars
<1>7. CommittedIsSettled'
  BY <1>1, <1>5, CommittedStaysSettled DEF groupVars
<1>8. OwnerInOrder'
  <2>1. \A i \in 1..position[w] : Done(i)'
    BY <1>1, <1>5, LogItems, DoneStays DEF WorkerInv, OwnerInOrder, groupVars
  <2>2. \A i \in 1..position'[w] : Done(i)'
    <3> SUFFICES ASSUME NEW i \in 1..offset, i \notin 1..position[w]
                 PROVE  i \in ignored'
      BY <1>4, <2>1 DEF Done
    <3>1. i = offset
      BY LogItems
    <3> QED
      BY <1>1, <3>1
  <2>3. committed <= position'[w]
    BY <1>1, <1>4, LogItems DEF WorkerInv, OwnerInOrder
  <2> QED
    BY <1>1, <2>2, <2>3 DEF OwnerInOrder, In, Done, groupVars
<1> QED
  BY <1>1, <1>5, <1>6, <1>7, <1>8, GroupStep

-----------------------------------------------------------------------------
LEMMA WorkerStepKeeps == WorkerInv /\ [WorkerNext]_workerFrame => WorkerInv'
<1> SUFFICES ASSUME WorkerInv, [WorkerNext]_workerFrame PROVE WorkerInv'
  OBVIOUS
<1>1. ASSUME NEW w \in Workers, HandleNotification(w) PROVE WorkerInv'
  BY <1>1, CheckRowKeeps, MarkProcessingKeeps, SendKeeps, MarkSentKeeps,
     SendToRetryQueueKeeps, SendToDLQKeeps, MarkFailedKeeps DEF HandleNotification
<1>2. ASSUME NEW w \in Workers, WorkerStep(w) PROVE WorkerInv'
  BY <1>1, <1>2, RegisterHandlerKeeps, AssignKeeps, AutoCommitKeeps, FetchHandledKeeps,
     FetchIgnoredKeeps DEF WorkerStep
<1>3. CASE WorkerNext
  BY <1>2, <1>3, LoseSessionKeeps, CrashWorkerKeeps DEF WorkerNext
<1>4. CASE UNCHANGED workerFrame
  <2>1. UNCHANGED <<storeVars, registered, owner, committed, latest, faults, position, task,
                    sends, unrecorded, dropped, ignored>>
    BY <1>4 DEF workerFrame, workerVars, groupVars, history
  <2>2. Grows /\ TasksFit' /\ UNCHANGED log
    BY <2>1, StoreStaysGrows, TasksStayFit DEF storeVars
  <2>3. WorkerTypeOK'
    BY <2>1, <2>2 DEF WorkerInv, WorkerTypeOK
  <2>4. CommittedIsSettled'
    BY <2>1, <2>2, CommittedStaysSettled
  <2>5. \A v \in Workers : owner = v => \A i \in 1..position[v] : Done(i)'
    BY <2>1, <2>2, LogItems, DoneStays DEF WorkerInv, OwnerInOrder
  <2>6. OwnerInOrder'
    BY <2>1, <2>2, <2>5 DEF WorkerInv, OwnerInOrder, In, Done
  <2> QED
    BY <2>1, <2>3, <2>2, <2>4, <2>6, GroupStep
<1> QED
  BY <1>3, <1>4

-----------------------------------------------------------------------------
(* Everybody else.  Rows are added without sentAt, neither SENT nor FAILED, *)
(* and no row loses or gains sentAt or becomes SENT or FAILED; records are  *)
(* appended to the log; what is on the other topics stays there.            *)
Environment ==
  /\ UNCHANGED workerVars
  /\ StoreTypeOK'
  /\ \E more \in Seq(Ids) : log' = log \o more
  /\ retryTopic \subseteq retryTopic'
  /\ dlqTopic \subseteq dlqTopic'
  /\ \A id \in Ids :
       IF Exists(id)
       THEN /\ rows'[id] # NoRow
            /\ rows'[id].sentAt = rows[id].sentAt
            /\ rows'[id].status \in {"SENT", "FAILED"} => rows'[id].status = rows[id].status
       ELSE rows'[id] # NoRow =>
              ~rows'[id].sentAt /\ rows'[id].status \notin {"SENT", "FAILED"}

LEMMA LogGrows ==
  ASSUME log \in Seq(Ids), NEW more \in Seq(Ids), log' = log \o more
  PROVE  /\ log' \in Seq(Ids)
         /\ Len(log) \in Nat /\ Len(log') \in Nat
         /\ Len(log') >= Len(log)
         /\ \A i \in 1..Len(log) : log'[i] = log[i]
BY ConcatProperties

LEMMA EnvironmentKeeps ==
  ASSUME WorkerInv, Environment
  PROVE  WorkerInv'
<1>0. UNCHANGED <<registered, owner, committed, latest, faults, position, task,
                  sends, unrecorded, dropped, ignored>>
  BY DEF Environment, workerVars, groupVars, history
<1>1. /\ Len(log) \in Nat /\ Len(log') \in Nat /\ Len(log') >= Len(log)
      /\ \A i \in 1..Len(log) : log'[i] = log[i]
  BY LogGrows DEF Environment, WorkerInv, StoreTypeOK
<1>2. Grows
  BY <1>0 DEF Environment, Grows, Exists
<1>3. WorkerTypeOK'
  BY <1>0, <1>1 DEF WorkerInv, WorkerTypeOK
<1>4. SentHasTime' /\ RecordedWasSent'
  BY <1>0 DEF Environment, WorkerInv, SentHasTime, RecordedWasSent, Recorded, Exists
<1>5. FailedIsKept'
  BY <1>0 DEF Environment, WorkerInv, FailedIsKept, Exists, Parked
<1>6. TasksFit'
  BY <1>0 DEF Environment, WorkerInv, TasksFit, In, Kept, Parked
<1>7. ASSUME NEW i \in 1..Len(log), Done(i)
      PROVE  Done(i)'
  <2>1. PICK id \in Ids : id = log[i] /\ id = log'[i]
    BY <1>1, LogItems
  <2>2. Settled(id) => Settled(id)'
    BY <1>2, SettledStays
  <2>3. Settled(log[i])' = Settled(id)' /\ Settled(log[i]) = Settled(id)
    BY <2>1 DEF Settled, Recorded, Parked, Exists
  <2> QED
    BY <1>0, <1>7, <2>2, <2>3 DEF Done
<1>8. OwnerInOrder'
  <2> SUFFICES ASSUME NEW w \in Workers, owner = w
               PROVE  /\ committed <= position[w]
                      /\ \A i \in 1..position[w] : Done(i)'
                      /\ task[w].phase # "idle" =>
                           position[w] < Len(log') /\ task[w].id = log'[position[w] + 1]
    BY <1>0 DEF OwnerInOrder, In, Done
  <2>1. \A i \in 1..position[w] : Done(i)'
    BY <1>7, LogItems DEF WorkerInv, OwnerInOrder
  <2>2. position[w] \in 0..Len(log)
    BY LogItems
  <2> QED
    BY <1>1, <2>1, <2>2 DEF WorkerInv, OwnerInOrder, In
<1>9. CommittedIsSettled'
  <2>1. \A i \in 1..committed : Done(i)'
    BY <1>7, LogItems DEF WorkerInv, CommittedIsSettled, Done
  <2> QED
    BY <1>0, <2>1 DEF CommittedIsSettled, Done
<1> QED
  BY <1>3, <1>4, <1>5, <1>6, <1>8, <1>9 DEF WorkerInv, Environment

-----------------------------------------------------------------------------
(* Counting deliveries.                                                     *)

Places(id, n) == {i \in 1..n : log[i] = id}
CopiesUpTo(id, n) == Cardinality(Places(id, n))

LEMMA PlacesAreFinite ==
  ASSUME NEW id, NEW n \in Nat
  PROVE  IsFiniteSet(Places(id, n)) /\ CopiesUpTo(id, n) \in Nat
<1>1. IsFiniteSet(1..n)
  BY FS_Interval
<1>2. IsFiniteSet(Places(id, n))
  BY <1>1, FS_Subset DEF Places
<1> QED
  BY <1>2, FS_CardinalityType DEF CopiesUpTo

LEMMA CopiesGrow ==
  ASSUME NEW id, NEW m \in Nat, NEW n \in Nat, m <= n
  PROVE  CopiesUpTo(id, m) <= CopiesUpTo(id, n)
<1>1. Places(id, m) \in SUBSET Places(id, n)
  BY DEF Places
<1> QED
  BY <1>1, PlacesAreFinite, FS_Subset DEF CopiesUpTo

LEMMA CopiesUpToNext ==
  ASSUME NEW id, NEW n \in Nat, log[n + 1] = id
  PROVE  CopiesUpTo(id, n + 1) = CopiesUpTo(id, n) + 1
<1>1. Places(id, n + 1) = Places(id, n) \cup {n + 1} /\ n + 1 \notin Places(id, n)
  BY DEF Places
<1> QED
  BY <1>1, PlacesAreFinite, FS_AddElement DEF CopiesUpTo

LEMMA CopiesAreCopiesUpTo ==
  ASSUME NEW id
  PROVE  Copies(id) = CopiesUpTo(id, Len(log))
BY DEF Copies, CopiesUpTo, Places

(* The handlers that may still send a notification.                         *)
BeforeSend == {"check", "mark", "send"}
Sending(id) == {w \in Workers : task[w].phase \in BeforeSend /\ task[w].id = id}

(* How far down the log the present owner has been handed records.          *)
Handed ==
  IF owner = NoWorker THEN 0
  ELSE IF In(owner, "idle") THEN position[owner] ELSE position[owner] + 1

(* Every assignment hands out each record once, and each but the present    *)
(* one has ended with a fault.                                              *)
DeliveriesAreCounted ==
  \A id \in Ids :
    /\ IsFiniteSet(Sending(id))
    /\ sends[id] + Cardinality(Sending(id)) <= Copies(id) * faults + CopiesUpTo(id, Handed)

(* Before the first fault only the owner handles anything, what it is about *)
(* to send is not recorded, and what was sent is recorded, about to be, or  *)
(* known not to be.                                                         *)
SentIsKnown(id) ==
  sends[id] = 1 /\ (Recorded(id) \/ \E w \in Workers : In(w, "markSent") /\ task[w].id = id)

NotOvertaken ==
  faults = 0 =>
    /\ \A w \in Workers : ~In(w, "idle") => owner = w
    /\ \A w \in Workers : task[w].phase \in {"mark", "send"} => ~Recorded(task[w].id)
    /\ \A id \in Ids \ unrecorded : sends[id] > 0 => SentIsKnown(id)

DeliveryInv == DeliveriesAreCounted /\ NotOvertaken

LEMMA HandedInLog ==
  ASSUME WorkerInv
  PROVE  Handed \in 0..Len(log)
<1>1. /\ owner \in Workers \cup {NoWorker} /\ Len(log) \in Nat
      /\ \A w \in Workers : position[w] \in 0..Len(log)
  BY LogItems DEF WorkerInv, WorkerTypeOK
<1> QED
  BY <1>1 DEF Handed, WorkerInv, OwnerInOrder

LEMMA DeliveryInitHolds ==
  ASSUME StoreTypeOK, FreshRows, WorkerInit
  PROVE  DeliveryInv
<1> USE DEF WorkerInit
<1>1. \A id \in Ids : Sending(id) = {}
  BY DEF Sending, BeforeSend, Idle
<1>2. Len(log) \in Nat /\ Handed = 0
  BY DEF StoreTypeOK, Handed
<1>3. ASSUME NEW id \in Ids
      PROVE  sends[id] + 0 <= Copies(id) * faults + CopiesUpTo(id, Handed)
  <2>1. Copies(id) \in Nat /\ CopiesUpTo(id, Handed) \in Nat
    BY <1>2, PlacesAreFinite, CopiesAreCopiesUpTo
  <2> QED
    BY <2>1
<1>4. DeliveriesAreCounted
  BY <1>1, <1>3, FS_EmptySet, Zenon DEF DeliveriesAreCounted
<1> QED
  BY <1>4 DEF DeliveryInv, NotOvertaken, In, Idle

-----------------------------------------------------------------------------
(* The bound on deliveries.                                                 *)

(* The numbers in the bound.                                                *)
LEMMA BoundTypes ==
  ASSUME WorkerInv, DeliveriesAreCounted, NEW id \in Ids
  PROVE  /\ sends[id] \in Nat /\ Cardinality(Sending(id)) \in Nat
         /\ Copies(id) \in Nat /\ faults \in Nat
         /\ Handed \in 0..Len(log) /\ Len(log) \in Nat
         /\ CopiesUpTo(id, Handed) \in Nat /\ CopiesUpTo(id, Handed) <= Copies(id)
         /\ sends[id] + Cardinality(Sending(id)) <= Copies(id) * faults + CopiesUpTo(id, Handed)
<1>1. sends[id] \in Nat /\ faults \in Nat
  BY WorkerAssumption DEF WorkerInv, WorkerTypeOK
<1>2. Handed \in 0..Len(log) /\ Len(log) \in Nat
  BY HandedInLog, LogItems
<1>3. /\ Copies(id) \in Nat /\ CopiesUpTo(id, Handed) \in Nat
      /\ CopiesUpTo(id, Handed) <= Copies(id)
  BY <1>2, PlacesAreFinite, CopiesGrow, CopiesAreCopiesUpTo
<1>4. /\ Cardinality(Sending(id)) \in Nat
      /\ sends[id] + Cardinality(Sending(id)) <= Copies(id) * faults + CopiesUpTo(id, Handed)
  BY FS_CardinalityType DEF DeliveriesAreCounted
<1> QED
  BY <1>1, <1>2, <1>3, <1>4

\* The part of the invariant that is about one notification.
Counted(id) ==
  /\ IsFiniteSet(Sending(id))
  /\ sends[id] + Cardinality(Sending(id)) <= Copies(id) * faults + CopiesUpTo(id, Handed)

(* Nothing is sent and no handler starts.                                   *)
LEMMA CountedStays ==
  ASSUME WorkerInv, DeliveriesAreCounted, NEW id \in Ids,
         UNCHANGED <<log, faults>>, sends'[id] = sends[id],
         Sending(id)' \subseteq Sending(id),
         Handed' \in Nat, Handed <= Handed'
  PROVE  Counted(id)'
<1>1. IsFiniteSet(Sending(id)') /\ Cardinality(Sending(id)') <= Cardinality(Sending(id))
  BY FS_Subset DEF DeliveriesAreCounted
<1>2. Cardinality(Sending(id)') \in Nat
  BY <1>1, FS_CardinalityType
<1>3. CopiesUpTo(id, Handed) <= CopiesUpTo(id, Handed') /\ CopiesUpTo(id, Handed') \in Nat
  BY BoundTypes, CopiesGrow, PlacesAreFinite
<1>4. CopiesUpTo(id, Handed)' = CopiesUpTo(id, Handed') /\ Copies(id)' = Copies(id)
  BY DEF CopiesUpTo, Places, Copies
<1> QED
  BY <1>1, <1>2, <1>3, <1>4, BoundTypes DEF Counted

(* A handler sends: it is one delivery more and one handler less.           *)
LEMMA CountedWhenSent ==
  ASSUME WorkerInv, DeliveriesAreCounted, NEW id \in Ids, NEW w \in Sending(id),
         UNCHANGED <<log, faults>>, sends'[id] = sends[id] + 1,
         Sending(id)' = Sending(id) \ {w}, Handed' = Handed
  PROVE  Counted(id)'
<1>1. IsFiniteSet(Sending(id)') /\ Cardinality(Sending(id)') = Cardinality(Sending(id)) - 1
  BY FS_RemoveElement DEF DeliveriesAreCounted
<1>2. CopiesUpTo(id, Handed)' = CopiesUpTo(id, Handed) /\ Copies(id)' = Copies(id)
  BY DEF CopiesUpTo, Places, Copies
<1> QED
  BY <1>1, <1>2, BoundTypes DEF Counted

(* A record is handed to a handler.                                         *)
LEMMA CountedWhenHanded ==
  ASSUME WorkerInv, DeliveriesAreCounted, NEW id \in Ids, NEW w,
         UNCHANGED <<log, faults>>, sends'[id] = sends[id],
         Handed' = Handed + 1, log[Handed + 1] = id,
         Sending(id)' = Sending(id) \cup {w}
  PROVE  Counted(id)'
<1>1. /\ IsFiniteSet(Sending(id)')
      /\ Cardinality(Sending(id)') <= Cardinality(Sending(id)) + 1
      /\ Cardinality(Sending(id)') \in Nat
  <2>1. IsFiniteSet(Sending(id)) /\ Cardinality(Sending(id)) \in Nat
    BY BoundTypes DEF DeliveriesAreCounted
  <2>2. /\ IsFiniteSet(Sending(id) \cup {w})
        /\ Cardinality(Sending(id) \cup {w}) =
             IF w \in Sending(id) THEN Cardinality(Sending(id)) ELSE Cardinality(Sending(id)) + 1
    BY <2>1, FS_AddElement
  <2> QED
    BY <2>1, <2>2
<1>2. CopiesUpTo(id, Handed)' = CopiesUpTo(id, Handed + 1) /\ Copies(id)' = Copies(id)
  BY DEF CopiesUpTo, Places, Copies
<1>3. CopiesUpTo(id, Handed + 1) = CopiesUpTo(id, Handed) + 1
  BY BoundTypes, CopiesUpToNext
<1> DEFINE bound == Copies(id) * faults
           some == Cardinality(Sending(id))
           more == Cardinality(Sending(id)')
           upTo == CopiesUpTo(id, Handed)
<1>4. /\ bound \in Int /\ sends[id] \in Nat /\ some \in Nat /\ upTo \in Nat
      /\ sends[id] + some <= bound + upTo
  BY BoundTypes
<1>5. more \in Nat /\ more <= some + 1
  BY <1>1
<1> HIDE DEF bound, some, more, upTo
<1>6. sends[id] + more <= bound + (upTo + 1)
  BY <1>4, <1>5
<1>7. sends'[id] + Cardinality(Sending(id)') <= Copies(id)' * faults' + CopiesUpTo(id, Handed)'
  BY <1>2, <1>3, <1>6 DEF bound, more, upTo
<1> QED
  BY <1>1, <1>7 DEF Counted

(* A fault ends an assignment at most; the next may hand out everything.    *)
LEMMA CountedAfterFault ==
  ASSUME WorkerInv, DeliveriesAreCounted, NEW id \in Ids,
         UNCHANGED <<log, sends>>, faults' = faults + 1,
         Sending(id)' \subseteq Sending(id), Handed' \in Nat
  PROVE  Counted(id)'
<1>1. IsFiniteSet(Sending(id)') /\ Cardinality(Sending(id)') <= Cardinality(Sending(id))
  BY FS_Subset DEF DeliveriesAreCounted
<1>2. Cardinality(Sending(id)') \in Nat
  BY <1>1, FS_CardinalityType
<1>3. CopiesUpTo(id, Handed') \in Nat
  BY PlacesAreFinite
<1>4. CopiesUpTo(id, Handed)' = CopiesUpTo(id, Handed') /\ Copies(id)' = Copies(id)
  BY DEF CopiesUpTo, Places, Copies
<1>5. Copies(id) * (faults + 1) = Copies(id) * faults + Copies(id)
  BY BoundTypes
<1> DEFINE bound == Copies(id) * faults
           some == Cardinality(Sending(id))
           fewer == Cardinality(Sending(id)')
           upTo == CopiesUpTo(id, Handed)
           all == Copies(id)
           next == CopiesUpTo(id, Handed')
<1>6. /\ bound \in Int /\ sends[id] \in Nat /\ some \in Nat /\ upTo \in Nat /\ all \in Nat
      /\ sends[id] + some <= bound + upTo /\ upTo <= all
  BY BoundTypes
<1>7. fewer \in Nat /\ fewer <= some /\ next \in Nat
  BY <1>1, <1>2, <1>3
<1> HIDE DEF bound, some, fewer, upTo, all, next
<1>8. sends[id] + fewer <= (bound + all) + next
  BY <1>6, <1>7
<1>9. sends'[id] + Cardinality(Sending(id)') <= Copies(id)' * faults' + CopiesUpTo(id, Handed)'
  BY <1>4, <1>5, <1>8 DEF bound, fewer, all, next
<1> QED
  BY <1>1, <1>9 DEF Counted

(* More records arrive.                                                     *)
LEMMA CountedWhenLogGrows ==
  ASSUME WorkerInv, DeliveriesAreCounted, NEW id \in Ids,
         NEW more \in Seq(Ids), log' = log \o more,
         UNCHANGED workerVars
  PROVE  Counted(id)'
<1>1. UNCHANGED <<owner, faults, position, task, sends>>
  BY DEF workerVars, groupVars, history
<1>2. /\ Len(log) \in Nat /\ Len(log') \in Nat /\ Len(log') >= Len(log)
      /\ \A i \in 1..Len(log) : log'[i] = log[i]
  BY LogGrows DEF WorkerInv, StoreTypeOK
<1>3. Sending(id)' = Sending(id) /\ Handed' = Handed
  BY <1>1 DEF Sending, Handed, In
<1>4. Places(id, Handed)' = Places(id, Handed)
  BY <1>2, <1>3, BoundTypes DEF Places
<1>5. CopiesUpTo(id, Handed)' = CopiesUpTo(id, Handed)
  BY <1>4 DEF CopiesUpTo
<1>6. Copies(id)' \in Nat /\ Copies(id) <= Copies(id)'
  <2>1. Places(id, Len(log)) \in SUBSET Places(id, Len(log))'
    BY <1>2 DEF Places
  <2>2. IsFiniteSet(Places(id, Len(log))')
    <3>1. IsFiniteSet(1..Len(log'))
      BY <1>2, FS_Interval
    <3> QED
      BY <3>1, FS_Subset DEF Places
  <2>3. /\ Cardinality(Places(id, Len(log))) <= Cardinality(Places(id, Len(log))')
        /\ Cardinality(Places(id, Len(log))') \in Nat
    BY <2>1, <2>2, FS_Subset, FS_CardinalityType
  <2> QED
    BY <2>3 DEF Copies, Places
<1>7. ASSUME NEW a \in Nat, NEW b \in Nat, NEW f \in Nat, a <= b
      PROVE  a * f <= b * f
  BY <1>7, Z3
<1>8. Copies(id) * faults <= Copies(id)' * faults
  BY <1>6, <1>7, BoundTypes
<1> DEFINE bound == Copies(id) * faults
           wider == Copies(id)' * faults
           upTo == CopiesUpTo(id, Handed)
           some == Cardinality(Sending(id))
<1>9. /\ bound \in Int /\ sends[id] \in Nat /\ some \in Nat /\ upTo \in Nat
      /\ sends[id] + some <= bound + upTo
  BY BoundTypes
<1>10. wider \in Int
  BY <1>6, BoundTypes
<1>11. bound <= wider
  BY <1>8
<1> HIDE DEF bound, wider, upTo, some
<1>12. sends[id] + some <= wider + upTo
  BY <1>9, <1>10, <1>11
<1>13. /\ sends[id] + Cardinality(Sending(id)) <= Copies(id)' * faults + CopiesUpTo(id, Handed)
      /\ IsFiniteSet(Sending(id))
  BY <1>12 DEF DeliveriesAreCounted, wider, upTo, some
<1> QED
  BY <1>1, <1>3, <1>5, <1>13 DEF Counted

-----------------------------------------------------------------------------
(* Steps that send nothing and start no handler.                            *)
LEMMA QuietStepIsCounted ==
  ASSUME WorkerInv, DeliveriesAreCounted, UNCHANGED <<log, faults, sends>>,
         \A v \in Workers :
           task'[v].phase \in BeforeSend =>
             task[v].phase \in BeforeSend /\ task'[v].id = task[v].id,
         Handed' \in Nat, Handed <= Handed'
  PROVE  DeliveriesAreCounted'
<1> SUFFICES ASSUME NEW id \in Ids PROVE Counted(id)'
  BY DEF DeliveriesAreCounted, Counted
<1>1. Sending(id)' \subseteq Sending(id)
  BY DEF Sending
<1> QED
  BY <1>1, CountedStays

(* A handler goes on, or returns: its owner has been handed as much as      *)
(* before.                                                                  *)
LEMMA HandlerStepIsHanded ==
  ASSUME WorkerInv, NEW w \in Workers, ~In(w, "idle"), UNCHANGED groupVars,
         \/ Stay /\ \E p \in TaskPhases \ {"idle"} : GotoPhase(w, p)
         \/ Return(w)
  PROVE  Handed' = Handed
<1>1. /\ task \in [Workers -> [phase : TaskPhases, id : Ids \cup {NoId}]]
      /\ position \in [Workers -> 0..Len(log)]
      /\ owner' = owner /\ owner \in Workers \cup {NoWorker}
  BY DEF WorkerInv, WorkerTypeOK, groupVars
<1>2. CASE Stay /\ \E p \in TaskPhases \ {"idle"} : GotoPhase(w, p)
  <2>1. position' = position /\ \A v \in Workers : In(v, "idle")' <=> In(v, "idle")
    BY <1>1, <1>2 DEF GotoPhase, In, Stay
  <2> QED
    BY <1>1, <2>1 DEF Handed
<1>3. CASE Return(w)
  <2>1. /\ task'[w].phase = "idle" /\ \A v \in Workers \ {w} : task'[v] = task[v]
        /\ owner = w => position'[w] = position[w] + 1
        /\ owner # w => position' = position
    BY <1>1, <1>3 DEF Return, Idle
  <2> QED
    BY <1>1, <2>1 DEF Handed, In
<1> QED
  BY <1>2, <1>3

(* ... and the notification, if it was before its send, is the same.        *)
LEMMA QuietHandlerIsCounted ==
  ASSUME WorkerInv, DeliveriesAreCounted, NEW w \in Workers, ~In(w, "idle"),
         UNCHANGED <<log, groupVars, sends>>,
         \/ /\ Stay
            /\ \E p \in TaskPhases \ {"idle"} :
                 GotoPhase(w, p) /\ (p \in BeforeSend => task[w].phase \in BeforeSend)
         \/ Return(w)
  PROVE  DeliveriesAreCounted'
<1>1. task \in [Workers -> [phase : TaskPhases, id : Ids \cup {NoId}]]
  BY DEF WorkerInv, WorkerTypeOK
<1>2. Handed' = Handed /\ Handed \in Nat
  BY HandlerStepIsHanded, HandedInLog
<1>3. ASSUME NEW v \in Workers, task'[v].phase \in BeforeSend
      PROVE  task[v].phase \in BeforeSend /\ task'[v].id = task[v].id
  BY <1>1, <1>3 DEF GotoPhase, Return, Idle, BeforeSend
<1> QED
  BY <1>2, <1>3, QuietStepIsCounted DEF groupVars

LEMMA SendIsCounted ==
  ASSUME WorkerInv, DeliveriesAreCounted, NEW w \in Workers, Send(w)
  PROVE  DeliveriesAreCounted'
<1>1. /\ ~In(w, "idle") /\ task[w].phase = "send" /\ Stay
      /\ UNCHANGED <<log, groupVars>> /\ faults' = faults
  BY DEF Send, In, storeVars, groupVars
<1>2. PICK id \in Ids : id = task[w].id
  BY <1>1, TaskId
<1>3. CASE UNCHANGED sends /\ GotoPhase(w, "retry")
  BY <1>1, <1>3, QuietHandlerIsCounted DEF TaskPhases, BeforeSend
<1>4. CASE sends' = [sends EXCEPT ![id] = @ + 1] /\ GotoPhase(w, "markSent")
  <2>1. /\ task \in [Workers -> [phase : TaskPhases, id : Ids \cup {NoId}]]
        /\ sends \in [Ids -> Nat]
    BY DEF WorkerInv, WorkerTypeOK
  <2>2. Handed' = Handed
    BY <1>1, <1>4, HandlerStepIsHanded DEF TaskPhases
  <2>3. /\ task'[w].phase = "markSent" /\ \A v \in Workers \ {w} : task'[v] = task[v]
        /\ sends'[id] = sends[id] + 1 /\ \A i \in Ids \ {id} : sends'[i] = sends[i]
    BY <1>4, <2>1 DEF GotoPhase
  <2>4. w \in Sending(id) /\ Sending(id)' = Sending(id) \ {w}
    BY <1>1, <1>2, <2>3 DEF Sending, BeforeSend
  <2>5. Counted(id)'
    BY <1>1, <2>2, <2>3, <2>4, CountedWhenSent
  <2>6. ASSUME NEW i \in Ids \ {id}
        PROVE  Counted(i)'
    <3>1. Sending(i)' \subseteq Sending(i)
      BY <2>3 DEF Sending, BeforeSend
    <3>2. Handed \in Nat /\ Handed <= Handed
      BY HandedInLog
    <3> QED
      BY <1>1, <2>2, <2>3, <3>1, <3>2, CountedStays
  <2> QED
    BY <2>5, <2>6 DEF DeliveriesAreCounted, Counted
<1> QED
  BY <1>2, <1>3, <1>4 DEF Send

LEMMA HandlerIsCounted ==
  ASSUME WorkerInv, DeliveriesAreCounted, NEW w \in Workers, HandleNotification(w)
  PROVE  DeliveriesAreCounted'
<1> USE DEF TaskPhases, BeforeSend
<1>1. CASE CheckRow(w)
  BY <1>1, QuietHandlerIsCounted DEF CheckRow, In, storeVars, history
<1>2. CASE MarkProcessing(w)
  <2>1. /\ ~In(w, "idle") /\ task[w].phase = "mark" /\ Stay
        /\ UNCHANGED <<log, groupVars, sends>>
        /\ GotoPhase(w, "send") \/ GotoPhase(w, "retry")
    BY <1>2 DEF MarkProcessing, In, history
  <2> QED
    BY <2>1, QuietHandlerIsCounted
<1>3. CASE Send(w)
  BY <1>3, SendIsCounted
<1>4. CASE MarkSent(w)
  <2>1. /\ ~In(w, "idle") /\ UNCHANGED <<log, groupVars, sends>>
        /\ Return(w) \/ (GotoPhase(w, "retry") /\ Stay)
    BY <1>4 DEF MarkSent, In
  <2> QED
    BY <2>1, QuietHandlerIsCounted
<1>5. CASE SendToRetryQueue(w)
  <2>1. /\ ~In(w, "idle") /\ Stay /\ UNCHANGED <<log, groupVars, sends>>
        /\ GotoPhase(w, "markFailed") \/ GotoPhase(w, "dlq")
    BY <1>5 DEF SendToRetryQueue, In, history
  <2> QED
    BY <2>1, QuietHandlerIsCounted
<1>6. CASE SendToDLQ(w)
  BY <1>6, QuietHandlerIsCounted DEF SendToDLQ, In
<1>7. CASE MarkFailed(w)
  BY <1>7, QuietHandlerIsCounted DEF MarkFailed, In, history
<1> QED
  BY <1>1, <1>2, <1>3, <1>4, <1>5, <1>6, <1>7 DEF HandleNotification

LEMMA AssignIsCounted ==
  ASSUME WorkerInv, DeliveriesAreCounted, NEW w \in Workers, Assign(w)
  PROVE  DeliveriesAreCounted'
<1>1. /\ UNCHANGED <<log, faults, sends, task>> /\ owner = NoWorker
      /\ owner' = w /\ In(w, "idle")
  BY DEF Assign, storeVars, history
<1>2. /\ position \in [Workers -> 0..Len(log)] /\ committed \in Nat /\ Len(log) \in Nat
      /\ position' = [position EXCEPT ![w] = IF committed = 0 THEN Len(log) ELSE committed]
  BY LogItems DEF WorkerInv, WorkerTypeOK, Assign
<1>3. Handed = 0 /\ Handed' \in Nat
  BY <1>1, <1>2, WorkerAssumption DEF Handed, In
<1> QED
  BY <1>1, <1>2, <1>3, QuietStepIsCounted

LEMMA FetchIsCounted ==
  ASSUME WorkerInv, DeliveriesAreCounted, NEW w \in Workers, Fetch(w)
  PROVE  DeliveriesAreCounted'
<1>1. /\ UNCHANGED <<log, owner, faults, sends>> /\ owner = w /\ In(w, "idle")
      /\ position[w] + 1 <= Len(log)
  BY DEF Fetch, storeVars, groupVars
<1>2. /\ task \in [Workers -> [phase : TaskPhases, id : Ids \cup {NoId}]]
      /\ position \in [Workers -> 0..Len(log)]
  BY DEF WorkerInv, WorkerTypeOK
<1>3. Handed = position[w] /\ Handed \in Nat
  BY <1>1, HandedInLog, WorkerAssumption DEF Handed
<1>4. CASE w \in registered
  <2>1. /\ UNCHANGED position
        /\ task' = [task EXCEPT ![w] = [phase |-> "check", id |-> log[position[w] + 1]]]
    BY <1>4 DEF Fetch
  <2>2. PICK id \in Ids : id = log[Handed + 1]
    BY <1>1, <1>3, LogItems
  <2>3. /\ task'[w].phase = "check" /\ task'[w].id = id
        /\ \A v \in Workers \ {w} : task'[v] = task[v]
    BY <1>2, <1>3, <2>1, <2>2
  <2>4. Handed' = Handed + 1
    BY <1>1, <1>3, <2>1, <2>3, WorkerAssumption DEF Handed, In
  <2>5. Sending(id)' = Sending(id) \cup {w}
    BY <1>1, <2>3 DEF Sending, BeforeSend, In
  <2>6. Counted(id)'
    BY <1>1, <2>2, <2>4, <2>5, CountedWhenHanded
  <2>7. ASSUME NEW i \in Ids \ {id}
        PROVE  Counted(i)'
    <3>1. Sending(i)' \subseteq Sending(i)
      BY <2>3 DEF Sending
    <3> QED
      BY <1>1, <1>3, <2>4, <3>1, CountedStays
  <2> QED
    BY <2>6, <2>7 DEF DeliveriesAreCounted, Counted
<1>5. CASE w \notin registered
  <2>1. UNCHANGED task /\ position' = [position EXCEPT ![w] = position[w] + 1]
    BY <1>5 DEF Fetch
  <2>2. Handed' = Handed + 1
    BY <1>1, <1>2, <1>3, <2>1, WorkerAssumption DEF Handed, In
  <2> QED
    BY <1>1, <1>3, <2>1, <2>2, QuietStepIsCounted
<1> QED
  BY <1>4, <1>5

LEMMA FaultIsCounted ==
  ASSUME WorkerInv, DeliveriesAreCounted,
         LoseSession \/ \E w \in Workers : CrashWorker(w)
  PROVE  DeliveriesAreCounted'
<1> SUFFICES ASSUME NEW id \in Ids PROVE Counted(id)'
  BY DEF DeliveriesAreCounted, Counted
<1>1. /\ UNCHANGED <<log, sends, position>> /\ faults' = faults + 1
      /\ owner' \in {owner, NoWorker}
  BY DEF LoseSession, CrashWorker, storeVars, history
<1>2. \A v \in Workers : task'[v] = task[v] \/ task'[v] = Idle
  BY DEF LoseSession, CrashWorker, WorkerInv, WorkerTypeOK
<1>3. Sending(id)' \subseteq Sending(id)
  BY <1>2 DEF Sending, BeforeSend, Idle
<1>4. Handed' \in Nat
  <2>1. owner' = NoWorker \/ (owner' \in Workers /\ position'[owner'] \in Nat)
    BY <1>1, LogItems DEF WorkerInv, WorkerTypeOK
  <2> QED
    BY <2>1 DEF Handed
<1> QED
  BY <1>1, <1>3, <1>4, CountedAfterFault

LEMMA WorkerStepIsCounted ==
  WorkerInv /\ DeliveriesAreCounted /\ [WorkerNext]_workerFrame => DeliveriesAreCounted'
<1> SUFFICES ASSUME WorkerInv, DeliveriesAreCounted, [WorkerNext]_workerFrame
             PROVE  DeliveriesAreCounted'
  OBVIOUS
<1>1. ASSUME UNCHANGED <<log, owner, faults, position, task, sends>>
      PROVE  DeliveriesAreCounted'
  <2>1. Handed' = Handed /\ Handed \in Nat
    BY <1>1, HandedInLog DEF Handed, In
  <2> QED
    BY <1>1, <2>1, QuietStepIsCounted
<1>2. ASSUME NEW w \in Workers, WorkerStep(w)
      PROVE  DeliveriesAreCounted'
  <2>1. CASE RegisterHandler(w) \/ AutoCommit(w)
    BY <1>1, <2>1 DEF RegisterHandler, AutoCommit, storeVars, history
  <2> QED
    BY <1>2, <2>1, AssignIsCounted, FetchIsCounted, HandlerIsCounted DEF WorkerStep
<1>3. CASE UNCHANGED workerFrame
  BY <1>1, <1>3 DEF workerFrame, workerVars, storeVars, groupVars, history
<1> QED
  BY <1>2, <1>3, FaultIsCounted DEF WorkerNext

-----------------------------------------------------------------------------
(* Before the first fault nobody is overtaken.                              *)

(* A step of the one handler that runs, which neither sends nor records.    *)
LEMMA QuietHandlerNotOvertaken ==
  ASSUME WorkerInv, NotOvertaken, NEW w \in Workers, ~In(w, "idle"),
         UNCHANGED groupVars, UNCHANGED <<sends, unrecorded>>,
         \A i \in Ids : Recorded(i)' = Recorded(i),
         ~In(w, "markSent"),
         (\E p \in TaskPhases : GotoPhase(w, p)) \/ task' = [task EXCEPT ![w] = Idle],
         task'[w].phase \in {"mark", "send"} => ~Recorded(task[w].id)
  PROVE  NotOvertaken'
<1> SUFFICES ASSUME faults' = 0
             PROVE  /\ \A v \in Workers : task'[v].phase # "idle" => owner' = v
                    /\ \A v \in Workers :
                         task'[v].phase \in {"mark", "send"} => ~Recorded(task[v].id)'
                    /\ \A id \in Ids \ unrecorded' : sends'[id] > 0 => SentIsKnown(id)'
  BY DEF NotOvertaken, In
<1>1. /\ task \in [Workers -> [phase : TaskPhases, id : Ids \cup {NoId}]]
      /\ faults = 0 /\ owner' = owner
  BY DEF WorkerInv, WorkerTypeOK, groupVars
<1>2. /\ \A v \in Workers \ {w} : task'[v] = task[v]
      /\ task'[w].id = task[w].id \/ task'[w].phase = "idle"
  BY <1>1 DEF GotoPhase, Idle
<1>3. owner = w /\ \A v \in Workers \ {w} : task'[v].phase = "idle"
  BY <1>1, <1>2 DEF NotOvertaken, In
<1>4. task'[w].phase \in {"mark", "send"} => ~Recorded(task[w].id)'
  <2> SUFFICES ASSUME task'[w].phase \in {"mark", "send"} PROVE ~Recorded(task[w].id)'
    OBVIOUS
  <2>1. PICK i \in Ids : i = task[w].id /\ i = task'[w].id
    BY <1>2, TaskId
  <2>2. ~Recorded(i)'
    BY <2>1
  <2> QED
    BY <2>1, <2>2 DEF Recorded, Exists
<1>5. ASSUME NEW id \in Ids \ unrecorded', sends'[id] > 0
      PROVE  SentIsKnown(id)'
  <2>1. SentIsKnown(id)
    BY <1>1, <1>5 DEF NotOvertaken
  <2>2. Recorded(id)
    BY <1>2, <1>3, <2>1 DEF SentIsKnown, In
  <2> QED
    BY <2>1, <2>2 DEF SentIsKnown
<1> QED
  BY <1>1, <1>3, <1>4, <1>5

LEMMA SendNotOvertaken ==
  ASSUME WorkerInv, NotOvertaken, NEW w \in Workers, Send(w)
  PROVE  NotOvertaken'
<1>1. /\ ~In(w, "idle") /\ task[w].phase = "send"
      /\ UNCHANGED <<rows, owner, faults, unrecorded>> /\ UNCHANGED groupVars
  BY DEF Send, In, storeVars, groupVars
<1>2. PICK id \in Ids : id = task[w].id
  BY <1>1, TaskId
<1>3. \A i \in Ids : Recorded(i)' = Recorded(i)
  BY <1>1 DEF Recorded, Exists
<1>4. /\ task \in [Workers -> [phase : TaskPhases, id : Ids \cup {NoId}]]
      /\ sends \in [Ids -> Nat]
  BY DEF WorkerInv, WorkerTypeOK
<1>5. CASE UNCHANGED sends /\ GotoPhase(w, "retry")
  <2>1. task'[w].phase = "retry"
    BY <1>4, <1>5 DEF GotoPhase
  <2> QED
    BY <1>1, <1>3, <1>5, <2>1, QuietHandlerNotOvertaken DEF TaskPhases, In
<1>6. CASE sends' = [sends EXCEPT ![id] = @ + 1] /\ GotoPhase(w, "markSent")
  <2> SUFFICES ASSUME faults = 0
               PROVE  /\ \A v \in Workers : task'[v].phase # "idle" => owner = v
                      /\ \A v \in Workers : task'[v].phase \notin {"mark", "send"}
                      /\ \A i \in Ids \ unrecorded : sends'[i] > 0 => SentIsKnown(i)'
    BY <1>1 DEF NotOvertaken, In
  <2>1. /\ task'[w].phase = "markSent" /\ task'[w].id = id
        /\ \A v \in Workers \ {w} : task'[v] = task[v]
        /\ sends'[id] = sends[id] + 1 /\ \A i \in Ids \ {id} : sends'[i] = sends[i]
    BY <1>2, <1>4, <1>6 DEF GotoPhase
  <2>2. owner = w /\ \A v \in Workers \ {w} : task'[v].phase = "idle" /\ task[v].phase = "idle"
    BY <1>1, <2>1 DEF NotOvertaken, In
  <2>3. ~Recorded(id) /\ ~\E v \in Workers : In(v, "markSent")
    BY <1>1, <1>2, <2>2 DEF NotOvertaken, In
  <2>4. ASSUME NEW i \in Ids \ unrecorded, sends'[i] > 0
        PROVE  SentIsKnown(i)'
    <3>1. CASE i = id
      <4>1. sends[id] = 0
        BY <1>4, <2>3, <2>4, <3>1 DEF NotOvertaken, SentIsKnown
      <4> QED
        BY <2>1, <3>1, <4>1 DEF SentIsKnown, In
    <3>2. CASE i # id
      <4>1. SentIsKnown(i) /\ Recorded(i)
        BY <2>1, <2>3, <2>4, <3>2 DEF NotOvertaken, SentIsKnown
      <4> QED
        BY <1>3, <2>1, <3>2, <4>1 DEF SentIsKnown
    <3> QED
      BY <3>1, <3>2
  <2> QED
    BY <2>1, <2>2, <2>4
<1> QED
  BY <1>2, <1>5, <1>6 DEF Send

(* What an update by a worker does to the evidence.                         *)
LEMMA UpdateRecords ==
  ASSUME WorkerInv, NEW id \in Ids, NEW new, NEW applied \in BOOLEAN,
         Exists(id) => new \in Row, UpdateRow(id, new, applied)
  PROVE  /\ \A i \in Ids \ {id} : Recorded(i)' = Recorded(i)
         /\ applied /\ Exists(id) => Recorded(id)' = new.sentAt
         /\ ~(applied /\ Exists(id)) => Recorded(id)' = Recorded(id)
<1>1. rows \in [Ids -> Row \cup {NoRow}]
  BY DEF WorkerInv, StoreTypeOK
<1>2. CASE applied /\ Exists(id)
  <2>1. rows'[id] = new /\ new # NoRow /\ \A i \in Ids \ {id} : rows'[i] = rows[i]
    BY <1>1, <1>2, StoreAssumption DEF UpdateRow
  <2>2. new.sentAt \in BOOLEAN
    BY <1>2 DEF Row
  <2> QED
    BY <1>2, <2>1, <2>2 DEF Recorded, Exists
<1>3. CASE ~(applied /\ Exists(id))
  <2>1. rows' = rows
    BY <1>3 DEF UpdateRow
  <2> QED
    BY <1>3, <2>1 DEF Recorded, Exists
<1> QED
  BY <1>2, <1>3

LEMMA MarkSentNotOvertaken ==
  ASSUME WorkerInv, NotOvertaken, NEW w \in Workers, MarkSent(w)
  PROVE  NotOvertaken'
<1>1. /\ ~In(w, "idle") /\ task[w].phase = "markSent"
      /\ UNCHANGED <<owner, faults, sends>>
  BY DEF MarkSent, In, groupVars
<1>2. PICK id \in Ids : id = task[w].id
  BY <1>1, TaskId
<1>3. PICK new : new = [rows[id] EXCEPT !.status = "SENT", !.sentAt = TRUE]
  OBVIOUS
<1>4. PICK applied \in BOOLEAN, ok \in BOOLEAN :
        /\ UpdateRow(id, new, applied)
        /\ unrecorded' = IF applied /\ Exists(id) THEN unrecorded ELSE unrecorded \cup {id}
        /\ IF ok THEN Return(w) ELSE GotoPhase(w, "retry") /\ Stay
  BY <1>2, <1>3 DEF MarkSent
<1>5. Exists(id) => new \in Row /\ new.sentAt
  BY <1>3 DEF WorkerInv, StoreTypeOK, Exists, Row, Statuses
<1>6. /\ \A i \in Ids \ {id} : Recorded(i)' = Recorded(i)
      /\ applied /\ Exists(id) => Recorded(id)'
  BY <1>4, <1>5, UpdateRecords
<1>7. task \in [Workers -> [phase : TaskPhases, id : Ids \cup {NoId}]]
  BY DEF WorkerInv, WorkerTypeOK
<1> SUFFICES ASSUME faults = 0
             PROVE  /\ \A v \in Workers : task'[v].phase # "idle" => owner = v
                    /\ \A v \in Workers : task'[v].phase \notin {"mark", "send"}
                    /\ \A i \in Ids \ unrecorded' : sends[i] > 0 => SentIsKnown(i)'
  BY <1>1 DEF NotOvertaken, In
<1>8. /\ task'[w].phase \in {"idle", "retry"}
      /\ \A v \in Workers \ {w} : task'[v] = task[v]
  BY <1>4, <1>7 DEF GotoPhase, Return, Idle
<1>9. owner = w /\ \A v \in Workers \ {w} : task[v].phase = "idle"
  BY <1>1 DEF NotOvertaken, In
<1>10. ASSUME NEW i \in Ids \ unrecorded', sends[i] > 0
       PROVE  SentIsKnown(i)'
  <2>1. SentIsKnown(i)
    BY <1>4, <1>10 DEF NotOvertaken
  <2>2. Recorded(i)'
    <3>1. CASE i = id
      BY <1>4, <1>6, <1>10, <3>1
    <3>2. CASE i # id
      BY <1>2, <1>6, <1>9, <2>1, <3>2 DEF SentIsKnown, In
    <3> QED
      BY <3>1, <3>2
  <2> QED
    BY <1>1, <2>1, <2>2 DEF SentIsKnown
<1> QED
  BY <1>8, <1>9, <1>10

LEMMA HandlerNotOvertaken ==
  ASSUME WorkerInv, NotOvertaken, NEW w \in Workers, HandleNotification(w)
  PROVE  NotOvertaken'
<1>0. task \in [Workers -> [phase : TaskPhases, id : Ids \cup {NoId}]]
  BY DEF WorkerInv, WorkerTypeOK
<1>1. ASSUME UNCHANGED rows
      PROVE  \A i \in Ids : Recorded(i)' = Recorded(i)
  BY <1>1 DEF Recorded, Exists
<1>2. CASE CheckRow(w)
  <2>1. /\ ~In(w, "idle") /\ ~In(w, "markSent")
        /\ UNCHANGED groupVars /\ UNCHANGED <<sends, unrecorded>> /\ UNCHANGED rows
        /\ \/ GotoPhase(w, "retry")
           \/ task' = [task EXCEPT ![w] = Idle]
           \/ ~AlreadySent(task[w].id) /\ GotoPhase(w, "mark")
    BY <1>2 DEF CheckRow, In, storeVars, history, Return
  <2>2. \/ task'[w].phase \in {"retry", "idle"}
        \/ ~AlreadySent(task[w].id) /\ GotoPhase(w, "mark")
    BY <1>0, <2>1 DEF GotoPhase, Idle
  <2>3. ~AlreadySent(task[w].id) => ~Recorded(task[w].id)
    BY DEF AlreadySent, Recorded
  <2> QED
    BY <1>1, <2>1, <2>2, <2>3, QuietHandlerNotOvertaken DEF TaskPhases
<1>3. CASE MarkProcessing(w)
  <2>1. /\ ~In(w, "idle") /\ ~In(w, "markSent") /\ task[w].phase = "mark"
        /\ UNCHANGED groupVars /\ UNCHANGED <<sends, unrecorded>>
        /\ GotoPhase(w, "send") \/ GotoPhase(w, "retry")
    BY <1>3 DEF MarkProcessing, In, history
  <2>2. PICK id \in Ids : id = task[w].id
    BY <2>1, TaskId
  <2>3. PICK new : new = [rows[id] EXCEPT !.status = "PROCESSING"]
    OBVIOUS
  <2>4. PICK applied \in BOOLEAN : UpdateRow(id, new, applied)
    BY <1>3, <2>2, <2>3 DEF MarkProcessing
  <2>5. Exists(id) => new \in Row /\ new.sentAt = rows[id].sentAt
    BY <2>3 DEF WorkerInv, StoreTypeOK, Exists, Row, Statuses
  <2>6. \A i \in Ids : Recorded(i)' = Recorded(i)
    <3>1. Exists(id) => Recorded(id) = new.sentAt
      BY <2>5 DEF Recorded, Row
    <3> QED
      BY <2>4, <2>5, <3>1, UpdateRecords
  <2>7. \/ ~Recorded(task[w].id)
        \/ faults # 0
    BY <2>1 DEF NotOvertaken
  <2>8. CASE faults # 0
    BY <2>1, <2>8 DEF NotOvertaken, groupVars
  <2> QED
    BY <2>1, <2>6, <2>7, <2>8, QuietHandlerNotOvertaken DEF TaskPhases
<1>4. CASE Send(w)
  BY <1>4, SendNotOvertaken
<1>5. CASE MarkSent(w)
  BY <1>5, MarkSentNotOvertaken
<1>6. CASE SendToRetryQueue(w) \/ SendToDLQ(w)
  <2>1. /\ ~In(w, "idle") /\ ~In(w, "markSent")
        /\ UNCHANGED groupVars /\ UNCHANGED <<sends, unrecorded>> /\ UNCHANGED rows
        /\ GotoPhase(w, "markFailed") \/ GotoPhase(w, "dlq")
    BY <1>6 DEF SendToRetryQueue, SendToDLQ, In, history
  <2>2. task'[w].phase \in {"markFailed", "dlq"}
    BY <1>0, <2>1 DEF GotoPhase
  <2> QED
    BY <1>1, <2>1, <2>2, QuietHandlerNotOvertaken DEF TaskPhases
<1>7. CASE MarkFailed(w)
  <2>1. /\ ~In(w, "idle") /\ ~In(w, "markSent")
        /\ UNCHANGED groupVars /\ UNCHANGED <<sends, unrecorded>>
        /\ task' = [task EXCEPT ![w] = Idle]
    BY <1>7 DEF MarkFailed, In, history, Return
  <2>2. PICK id \in Ids : id = task[w].id
    BY <2>1, TaskId
  <2>3. PICK new : new = [rows[id] EXCEPT !.status = "FAILED"]
    OBVIOUS
  <2>4. PICK applied \in BOOLEAN : UpdateRow(id, new, applied)
    BY <1>7, <2>2, <2>3 DEF MarkFailed
  <2>5. Exists(id) => new \in Row /\ new.sentAt = rows[id].sentAt
    BY <2>3 DEF WorkerInv, StoreTypeOK, Exists, Row, Statuses
  <2>6. \A i \in Ids : Recorded(i)' = Recorded(i)
    <3>1. Exists(id) => Recorded(id) = new.sentAt
      BY <2>5 DEF Recorded, Row
    <3> QED
      BY <2>4, <2>5, <3>1, UpdateRecords
  <2>7. task'[w].phase = "idle"
    BY <1>0, <2>1 DEF Idle
  <2> QED
    BY <2>1, <2>6, <2>7, QuietHandlerNotOvertaken
<1> QED
  BY <1>2, <1>3, <1>4, <1>5, <1>6, <1>7 DEF HandleNotification

(* A step outside the handlers, after which the same ones run, or one more  *)
(* of the owner.                                                            *)
LEMMA GroupNotOvertaken ==
  ASSUME WorkerInv, NotOvertaken,
         UNCHANGED <<rows, faults, sends, unrecorded>>,
         \A v \in Workers : In(v, "idle") \/ owner = v => owner' = v \/ task'[v].phase = "idle",
         \A v \in Workers :
           task'[v] = task[v] \/ (In(v, "idle") /\ task'[v].phase = "check")
  PROVE  NotOvertaken'
<1> SUFFICES ASSUME faults = 0
             PROVE  /\ \A v \in Workers : task'[v].phase # "idle" => owner' = v
                    /\ \A v \in Workers :
                         task'[v].phase \in {"mark", "send"} => ~Recorded(task[v].id)'
                    /\ \A id \in Ids \ unrecorded : sends[id] > 0 => SentIsKnown(id)'
  BY DEF NotOvertaken, In
<1>1. \A v \in Workers : task'[v].phase # "idle" => owner' = v
  BY DEF NotOvertaken, In
<1>2. ASSUME NEW v \in Workers, task'[v].phase \in {"mark", "send"}
      PROVE  ~Recorded(task[v].id)'
  BY <1>2 DEF NotOvertaken, Recorded, Exists
<1>3. ASSUME NEW id \in Ids \ unrecorded, sends[id] > 0
      PROVE  SentIsKnown(id)'
  BY <1>3 DEF NotOvertaken, SentIsKnown, Recorded, Exists, In
<1> QED
  BY <1>1, <1>2, <1>3

LEMMA WorkerStepNotOvertaken ==
  WorkerInv /\ NotOvertaken /\ [WorkerNext]_workerFrame => NotOvertaken'
<1> SUFFICES ASSUME WorkerInv, NotOvertaken, [WorkerNext]_workerFrame
             PROVE  NotOvertaken'
  OBVIOUS
<1>0. /\ task \in [Workers -> [phase : TaskPhases, id : Ids \cup {NoId}]]
      /\ faults \in Nat
  BY WorkerAssumption DEF WorkerInv, WorkerTypeOK
<1>1. ASSUME UNCHANGED <<rows, owner, faults, task, sends, unrecorded>>
      PROVE  NotOvertaken'
  BY <1>1, GroupNotOvertaken DEF In
<1>2. ASSUME NEW w \in Workers, WorkerStep(w)
      PROVE  NotOvertaken'
  <2>1. CASE RegisterHandler(w) \/ AutoCommit(w)
    BY <1>1, <2>1 DEF RegisterHandler, AutoCommit, storeVars, history
  <2>2. CASE Assign(w)
    BY <2>2, GroupNotOvertaken, WorkerAssumption DEF Assign, In, storeVars, history
  <2>3. CASE Fetch(w)
    <3>1. /\ UNCHANGED <<rows, faults, sends, unrecorded, owner>>
          /\ owner = w /\ In(w, "idle")
          /\ \/ task' = task
             \/ task' = [task EXCEPT ![w] = [phase |-> "check", id |-> log[position[w] + 1]]]
      BY <2>3 DEF Fetch, storeVars, groupVars
    <3>2. \A v \in Workers :
            task'[v] = task[v] \/ (In(v, "idle") /\ task'[v].phase = "check" /\ v = w)
      BY <1>0, <3>1
    <3>3. \A v \in Workers : In(v, "idle") \/ owner = v => owner' = v \/ task'[v].phase = "idle"
      BY <3>1, <3>2 DEF In
    <3> QED
      BY <3>1, <3>2, <3>3, GroupNotOvertaken
  <2> QED
    BY <1>2, <2>1, <2>2, <2>3, HandlerNotOvertaken DEF WorkerStep
<1>3. CASE LoseSession \/ \E w \in Workers : CrashWorker(w)
  <2>1. faults' # 0
    BY <1>0, <1>3 DEF LoseSession, CrashWorker
  <2> QED
    BY <2>1 DEF NotOvertaken
<1>4. CASE UNCHANGED workerFrame
  BY <1>1, <1>4 DEF workerFrame, workerVars, storeVars, groupVars, history
<1> QED
  BY <1>2, <1>3, <1>4 DEF WorkerNext

-----------------------------------------------------------------------------
LEMMA DeliveryStepKeeps ==
  WorkerInv /\ DeliveryInv /\ [WorkerNext]_workerFrame => DeliveryInv'
BY WorkerStepIsCounted, WorkerStepNotOvertaken DEF DeliveryInv

LEMMA DeliveryEnvironmentKeeps ==
  ASSUME WorkerInv, DeliveryInv, Environment
  PROVE  DeliveryInv'
<1>1. DeliveriesAreCounted'
  <2> SUFFICES ASSUME NEW id \in Ids PROVE Counted(id)'
    BY DEF DeliveriesAreCounted, Counted
  <2>1. PICK more \in Seq(Ids) : log' = log \o more
    BY DEF Environment
  <2> QED
    BY <2>1, CountedWhenLogGrows DEF Environment, DeliveryInv
<1>2. NotOvertaken'
  <2>1. UNCHANGED <<owner, faults, task, sends, unrecorded>>
    BY DEF Environment, workerVars, groupVars, history
  <2>2. ASSUME NEW id \in Ids
        PROVE  Recorded(id)' = Recorded(id)
    BY DEF Environment, Recorded, Exists, StoreTypeOK, WorkerInv, Row
  <2> SUFFICES ASSUME faults = 0
               PROVE  /\ \A v \in Workers : In(v, "idle")' \/ owner' = v
                      /\ \A v \in Workers :
                           task[v].phase \in {"mark", "send"} => ~Recorded(task[v].id)'
                      /\ \A id \in Ids \ unrecorded : sends[id] > 0 => SentIsKnown(id)'
    BY <2>1 DEF NotOvertaken, In
  <2>3. \A v \in Workers : In(v, "idle")' \/ owner' = v
    BY <2>1 DEF DeliveryInv, NotOvertaken, In
  <2>4. ASSUME NEW v \in Workers, task[v].phase \in {"mark", "send"}
        PROVE  ~Recorded(task[v].id)'
    <3>1. PICK id \in Ids : id = task[v].id
      BY <2>4, TaskId DEF In
    <3>2. ~Recorded(id)'
      BY <2>2, <2>4, <3>1 DEF DeliveryInv, NotOvertaken
    <3> QED
      BY <2>1, <3>1, <3>2 DEF Recorded, Exists
  <2>5. ASSUME NEW id \in Ids \ unrecorded, sends[id] > 0
        PROVE  SentIsKnown(id)'
    BY <2>1, <2>2, <2>5 DEF DeliveryInv, NotOvertaken, SentIsKnown, In
  <2> QED
    BY <2>3, <2>4, <2>5
<1> QED
  BY <1>1, <1>2 DEF DeliveryInv

-----------------------------------------------------------------------------
(* What the invariants say.                                                 *)

LEMMA CountsExplainDuplicates ==
  WorkerInv /\ DeliveryInv => DuplicatesHaveACause
<1> SUFFICES ASSUME WorkerInv, DeliveryInv, NEW id \in Ids
             PROVE  /\ sends[id] > 1 => faults > 0 \/ (Copies(id) > 1 /\ id \in unrecorded)
                    /\ sends[id] <= Copies(id) * (faults + 1)
  BY DEF DuplicatesHaveACause
<1>1. /\ sends[id] \in Nat /\ Copies(id) \in Nat /\ faults \in Nat
      /\ Cardinality(Sending(id)) \in Nat /\ CopiesUpTo(id, Handed) \in Nat
      /\ CopiesUpTo(id, Handed) <= Copies(id)
      /\ sends[id] + Cardinality(Sending(id)) <= Copies(id) * faults + CopiesUpTo(id, Handed)
  BY BoundTypes DEF DeliveryInv
<1>2. Copies(id) * (faults + 1) = Copies(id) * faults + Copies(id)
  BY <1>1
<1>3. Copies(id) * faults \in Nat
  BY <1>1
<1>4. sends[id] <= Copies(id) * faults + Copies(id)
  BY <1>1, <1>3
<1>5. ASSUME sends[id] > 1, faults = 0
      PROVE  Copies(id) > 1 /\ id \in unrecorded
  <2>1. Copies(id) * faults = 0
    BY <1>1, <1>5
  <2>2. Copies(id) > 1
    BY <1>1, <1>4, <1>5, <2>1
  <2>3. id \in unrecorded
    BY <1>1, <1>5 DEF DeliveryInv, NotOvertaken, SentIsKnown
  <2> QED
    BY <2>2, <2>3
<1> QED
  BY <1>1, <1>2, <1>4, <1>5

LEMMA RecordedIsSentAgainAfterAFault ==
  ASSUME WorkerInv, DeliveryInv, [WorkerNext]_workerFrame,
         NEW id \in Ids, Recorded(id), sends'[id] # sends[id]
  PROVE  faults > 0
<1>1. sends \in [Ids -> Nat] /\ faults \in Nat
  BY WorkerAssumption DEF WorkerInv, WorkerTypeOK
<1>2. PICK w \in Workers : Send(w)
  BY DEF WorkerNext, WorkerStep, LoseSession, CrashWorker, RegisterHandler, Assign,
         AutoCommit, Fetch, HandleNotification, CheckRow, MarkProcessing, MarkSent,
         SendToRetryQueue, SendToDLQ, MarkFailed, workerFrame, workerVars, history
<1>3. task[w].phase = "send" /\ task[w].id = id
  BY <1>1, <1>2 DEF Send, In
<1>4. faults # 0
  BY <1>3 DEF DeliveryInv, NotOvertaken
<1> QED
  BY <1>1, <1>4
=============================================================================
