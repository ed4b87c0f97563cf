------------------------- MODULE NotificationWorker -------------------------
(***************************************************************************)
(* The workers of consumer group notification-workers, one per instance:   *)
(* KafkaConsumerService hands the records of topic notifications one at a  *)
(* time to NotificationWorkerService.handleNotification, which has one     *)
(* action here per await.  Records of one notification share a partition   *)
(* (the key is the user), so a single partition is modelled.               *)
(*                                                                         *)
(* kafkajs commits offsets by itself, some time after handlers returned.   *)
(* The group gives the partition to another worker when its owner stops    *)
(* sending heartbeats, which a crashed owner does and a stalled one may do *)
(* while its handler goes on.  The consumer subscribes without             *)
(* fromBeginning: a group that has committed nothing starts at the end of  *)
(* the topic, and what is on it by then is never read.                     *)
(*                                                                         *)
(* Nest runs onModuleInit of the global KafkaModule before that of the     *)
(* notification module: a process that starts consumes before its handler  *)
(* is registered, and gives what it reads until then to a default handler, *)
(* which logs it.                                                          *)
(***************************************************************************)
EXTENDS NotificationStore

CONSTANTS
  Workers,
  NoWorker,
  MaxRetries,  \* MAX_RETRIES, 5 in the code
  MaxFaults    \* bound: crashes and lost sessions in one behaviour

ASSUME WorkerAssumption ==
  NoWorker \notin Workers /\ MaxRetries \in Nat /\ MaxFaults \in Nat

VARIABLES
  registered, \* the workers whose handler for the topic is registered
  owner,      \* the worker the partition is assigned to
  committed,  \* the group's committed offset, 0 while nothing is committed
  latest,     \* the end of the log when the group last started there
  position,   \* position[w]: records worker w is done with since assignment
  task,       \* task[w]: where worker w is in handleNotification
  faults,     \* crashes and lost sessions so far
  sends,      \* history: how often a provider accepted notification id
  unrecorded, \* history: notifications whose SENT update failed after a send
  dropped,    \* history: notifications neither parked nor sent: the DLQ refused
  ignored     \* history: offsets of the records the default handler took

groupVars == <<registered, owner, committed, latest, faults>>
history == <<sends, unrecorded, dropped, ignored>>
workerVars == <<groupVars, position, task, history>>
workerFrame == <<storeVars, workerVars>>

TaskPhases == {"idle", "check", "mark", "send", "markSent",
               "retry", "dlq", "markFailed"}

WorkerTypeOK ==
  /\ registered \subseteq Workers
  /\ owner \in Workers \cup {NoWorker}
  /\ committed \in 0..Len(log)
  /\ latest \in 0..Len(log)
  /\ position \in [Workers -> 0..Len(log)]
  /\ task \in [Workers -> [phase : TaskPhases, id : Ids \cup {NoId}]]
  /\ faults \in 0..MaxFaults
  /\ sends \in [Ids -> Nat]
  /\ unrecorded \subseteq Ids
  /\ dropped \subseteq Ids
  /\ ignored \subseteq 1..Len(log)

Idle == [phase |-> "idle", id |-> NoId]

WorkerInit ==
  /\ registered = {}
  /\ owner = NoWorker
  /\ committed = 0
  /\ latest = 0
  /\ position = [w \in Workers |-> 0]
  /\ task = [w \in Workers |-> Idle]
  /\ faults = 0
  /\ sends = [id \in Ids |-> 0]
  /\ unrecorded = {}
  /\ dropped = {}
  /\ ignored = {}

In(w, phase) == task[w].phase = phase
GotoPhase(w, phase) == task' = [task EXCEPT ![w].phase = phase]
Current(w) == rows[task[w].id]

(* The handler returns; eachMessage never throws, so the record is done.    *)
Return(w) ==
  /\ task' = [task EXCEPT ![w] = Idle]
  /\ position' = IF owner = w THEN [position EXCEPT ![w] = @ + 1] ELSE position

Stay == UNCHANGED position

-----------------------------------------------------------------------------
(* The consumer group.                                                      *)

(* A worker without a running handler is assigned the partition and starts  *)
(* at the committed offset or, as there is none yet, at the end of the log. *)
Assign(w) ==
  /\ owner = NoWorker
  /\ In(w, "idle")
  /\ owner' = w
  /\ latest' = IF committed = 0 THEN Len(log) ELSE latest
  /\ position' = [position EXCEPT ![w] = IF committed = 0 THEN Len(log) ELSE committed]
  /\ UNCHANGED <<storeVars, registered, committed, task, faults, history>>

(* The owner's session times out; its handler, if any, runs on.             *)
LoseSession ==
  /\ owner # NoWorker
  /\ faults < MaxFaults
  /\ faults' = faults + 1
  /\ owner' = NoWorker
  /\ UNCHANGED <<storeVars, registered, committed, latest, position, task, history>>

(* The process of worker w dies and is started again.                       *)
CrashWorker(w) ==
  /\ faults < MaxFaults
  /\ registered' = registered \ {w}
  /\ faults' = faults + 1
  /\ task' = [task EXCEPT ![w] = Idle]
  /\ owner' = IF owner = w THEN NoWorker ELSE owner
  /\ UNCHANGED <<storeVars, committed, latest, position, history>>

(* A slip in the commit: the record under way counts as handled.            *)
AutoCommitEarly(w) ==
  /\ owner = w
  /\ position[w] < Len(log)
  /\ committed <= position[w]
  /\ committed' = position[w] + 1
  /\ UNCHANGED <<storeVars, registered, owner, latest, position, task, faults, history>>

(* A slip in the commit: the offset of the record after the next one.       *)
AutoCommitPastNext(w) ==
  /\ owner = w
  /\ committed < position[w]
  /\ latest < position[w]
  /\ committed' = position[w] + 1
  /\ UNCHANGED <<storeVars, registered, owner, latest, position, task, faults, history>>

(* kafkajs auto-commits what the owner's handler has returned from: nothing *)
(* before the first record since it started at the end of the log.          *)
AutoCommit(w) ==
  /\ owner = w
  /\ committed < position[w]
  /\ latest < position[w]
  /\ committed' = position[w]
  /\ UNCHANGED <<storeVars, registered, owner, latest, position, task, faults, history>>

(* NotificationWorkerService.onModuleInit: the handler is registered.       *)
RegisterHandler(w) ==
  /\ w \notin registered
  /\ registered' = registered \cup {w}
  /\ UNCHANGED <<storeVars, owner, committed, latest, faults, position, task, history>>

(* eachMessage: the next record of the partition goes to the handler, or to *)
(* defaultMessageHandler, which is done with it at once.                    *)
Fetch(w) ==
  LET offset == position[w] + 1
  IN  /\ owner = w
      /\ In(w, "idle")
      /\ offset <= Len(log)
      /\ IF w \in registered
         THEN /\ task' = [task EXCEPT ![w] = [phase |-> "check", id |-> log[offset]]]
              /\ UNCHANGED <<position, ignored>>
         ELSE /\ position' = [position EXCEPT ![w] = offset]
              /\ ignored' = ignored \cup {offset}
              /\ UNCHANGED task
      /\ UNCHANGED <<storeVars, groupVars, sends, unrecorded, dropped>>

-----------------------------------------------------------------------------
(* handleNotification.                                                      *)

(* A slip in the skip test: the status alone, which MarkFailed overwrites.  *)
AlreadySentByStatus(id) == Exists(id) /\ rows[id].status = "SENT"

AlreadySent(id) == Exists(id) /\ (rows[id].status = "SENT" \/ rows[id].sentAt)

(* findUnique: an error goes to the catch block, a row already sent is      *)
(* skipped, anything else (a missing row too) is processed.                 *)
CheckRow(w) ==
  /\ In(w, "check")
  /\ \/ GotoPhase(w, "retry") /\ Stay
     \/ AlreadySent(task[w].id) /\ Return(w)
     \/ ~AlreadySent(task[w].id) /\ GotoPhase(w, "mark") /\ Stay
  /\ UNCHANGED <<storeVars, groupVars, history>>

(* update status PROCESSING; an error, or no such row, goes to the catch.   *)
MarkProcessing(w) ==
  LET id == task[w].id
  IN  /\ In(w, "mark")
      /\ \E applied, ok \in BOOLEAN :
           /\ ok => applied /\ Exists(id)
           /\ UpdateRow(id, [rows[id] EXCEPT !.status = "PROCESSING"], applied)
           /\ GotoPhase(w, IF ok THEN "send" ELSE "retry")
      /\ Stay
      /\ UNCHANGED <<log, retryTopic, dlqTopic, groupVars, history>>

(* A slip in the processor: what it turns away does not raise an error.     *)
SendNeverThrows(w) ==
  LET id == task[w].id
  IN  /\ In(w, "send")
      /\ \/ sends' = [sends EXCEPT ![id] = @ + 1]
         \/ UNCHANGED sends
      /\ GotoPhase(w, "markSent")
      /\ Stay
      /\ UNCHANGED <<storeVars, groupVars, unrecorded, dropped, ignored>>

(* processor.processNotification: the provider takes the notification, or   *)
(* it is turned away before (bad payload, unknown channel, open circuit).   *)
Send(w) ==
  LET id == task[w].id
  IN  /\ In(w, "send")
      /\ \/ sends' = [sends EXCEPT ![id] = @ + 1] /\ GotoPhase(w, "markSent")
         \/ UNCHANGED sends /\ GotoPhase(w, "retry")
      /\ Stay
      /\ UNCHANGED <<storeVars, groupVars, unrecorded, dropped, ignored>>

(* update status SENT, sentAt: when it fails, a delivered notification goes *)
(* down the failure path.                                                   *)
MarkSent(w) ==
  LET id == task[w].id
  IN  /\ In(w, "markSent")
      /\ \E applied, ok \in BOOLEAN :
           /\ ok => applied /\ Exists(id)
           /\ UpdateRow(id, [rows[id] EXCEPT !.status = "SENT", !.sentAt = TRUE], applied)
           /\ unrecorded' = IF applied /\ Exists(id) THEN unrecorded
                            ELSE unrecorded \cup {id}
           /\ IF ok THEN Return(w) ELSE GotoPhase(w, "retry") /\ Stay
      /\ UNCHANGED <<log, retryTopic, dlqTopic, groupVars, sends, dropped, ignored>>

ShouldRetry(retryCount) == retryCount < MaxRetries

(* Messages come from create, which writes retryCount 0; the messages that  *)
(* sendToRetryQueue writes with a higher count are never read back.         *)
RetryCount == 0

(* A slip in sendToRetryQueue: its own catch block does not reach the DLQ.  *)
SendToRetryQueueSwallows(w) ==
  /\ In(w, "retry")
  /\ \E acked \in BOOLEAN :
       retryTopic' \in AfterSend(retryTopic, task[w].id, acked)
  /\ GotoPhase(w, "markFailed")
  /\ Stay
  /\ UNCHANGED <<rows, log, dlqTopic, groupVars, history>>

(* sendToRetryQueue: notifications-retry while attempts are left; the DLQ   *)
(* when they are not, or when the send fails.                               *)
SendToRetryQueue(w) ==
  /\ In(w, "retry")
  /\ IF ShouldRetry(RetryCount + 1)
     THEN \E acked \in BOOLEAN :
            /\ retryTopic' \in AfterSend(retryTopic, task[w].id, acked)
            /\ GotoPhase(w, IF acked THEN "markFailed" ELSE "dlq")
     ELSE UNCHANGED retryTopic /\ GotoPhase(w, "dlq")
  /\ Stay
  /\ UNCHANGED <<rows, log, dlqTopic, groupVars, history>>

(* sendToDLQ: a failure is logged as critical and forgotten.                *)
SendToDLQ(w) ==
  LET id == task[w].id
  IN  /\ In(w, "dlq")
      /\ \E acked \in BOOLEAN :
           /\ dlqTopic' \in AfterSend(dlqTopic, id, acked)
           /\ dropped' = IF acked THEN dropped ELSE dropped \cup {id}
      /\ GotoPhase(w, "markFailed")
      /\ Stay
      /\ UNCHANGED <<rows, log, retryTopic, groupVars, sends, unrecorded, ignored>>

(* update status FAILED; an error, or no such row, is logged. sentAt stays. *)
MarkFailed(w) ==
  LET id == task[w].id
  IN  /\ In(w, "markFailed")
      /\ \E applied \in BOOLEAN :
           UpdateRow(id, [rows[id] EXCEPT !.status = "FAILED"], applied)
      /\ Return(w)
      /\ UNCHANGED <<log, retryTopic, dlqTopic, groupVars, history>>

HandleNotification(w) ==
  \/ CheckRow(w)
  \/ MarkProcessing(w)
  \/ Send(w)
  \/ MarkSent(w)
  \/ SendToRetryQueue(w)
  \/ SendToDLQ(w)
  \/ MarkFailed(w)

(* What the process of a worker does by itself.                             *)
WorkerStep(w) ==
  \/ RegisterHandler(w)
  \/ Assign(w)
  \/ AutoCommit(w)
  \/ Fetch(w)
  \/ HandleNotification(w)

WorkerNext ==
  \/ LoseSession
  \/ \E w \in Workers : WorkerStep(w) \/ CrashWorker(w)

-----------------------------------------------------------------------------
(* Properties.                                                              *)
Parked(id) == id \in retryTopic \/ id \in dlqTopic

Recorded(id) == Exists(id) /\ rows[id].sentAt

Settled(id) == Recorded(id) \/ Parked(id) \/ id \in dropped

Ignored(id) == \E i \in ignored : log[i] = id

Skipped(id) == \E i \in 1..latest : log[i] = id

(* Once the group has started, at least once, across crashes, lost sessions *)
(* and failing stores: what it has committed will not be read again, so     *)
(* each such record is recorded as sent, kept on notifications-retry or     *)
(* notifications-dlq, or lost in one of three ways: it was on the log when  *)
(* the group started at the end of it, with nothing committed; it was       *)
(* refused by the DLQ itself, which sendToDLQ logs as critical; or it was   *)
(* read by a process that had not yet registered its handler.               *)
CommittedIsSettled ==
  \A i \in 1..committed : i <= latest \/ Settled(log[i]) \/ i \in ignored

(* sentAt is evidence: it is set only after a provider took the             *)
(* notification, whichever worker sets it and whatever it overwrites.       *)
RecordedWasSent == \A id \in Ids : Recorded(id) => sends[id] > 0

(* A FAILED row an operator looks at has its message kept on a topic, or    *)
(* the DLQ refused it.                                                      *)
FailedIsKept ==
  \A id \in Ids :
    Exists(id) /\ rows[id].status = "FAILED" => Parked(id) \/ id \in dropped

(* How duplicates come about: a notification is accepted twice only after a *)
(* crash or a lost session, or when its record is on the log twice and the  *)
(* first delivery could not be recorded; and never more often than its      *)
(* copies can be handed out.                                                *)
DuplicatesHaveACause ==
  \A id \in Ids :
    /\ sends[id] > 1 => faults > 0 \/ (Copies(id) > 1 /\ id \in unrecorded)
    /\ sends[id] <= Copies(id) * (faults + 1)

(* The skip test of handleNotification does its work as long as nobody      *)
(* overtakes it: a notification whose sentAt is set is sent again only      *)
(* after a session was lost or a worker crashed.                            *)
RecordedIsNotResent ==
  [][\A id \in Ids :
       Recorded(id) /\ sends'[id] # sends[id] => faults > 0]_workerFrame

-----------------------------------------------------------------------------
(* What the documentation says, and the code does not do.                   *)

(* docs/SYSTEM_DESIGN.md: "autoCommit: false  // Manual commit after        *)
(* processing".  No record is committed that handleNotification was never   *)
(* given.                                                                   *)
CommittedIsProcessed == \A i \in 1..committed : i \notin ignored
=============================================================================
