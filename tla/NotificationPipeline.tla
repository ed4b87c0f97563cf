------------------------ MODULE NotificationPipeline ------------------------
(***************************************************************************)
(* From POST /notifications to the provider: the API's request handlers,   *)
(* the worker group and the operator's manual retry, over one database and *)
(* one Kafka log.                                                          *)
(***************************************************************************)
EXTENDS NotificationService, NotificationWorker, AdminController

pipelineVars == <<storeVars, serviceVars, workerVars, retrial>>

PipelineInit ==
  /\ StoreInit
  /\ ServiceInit
  /\ WorkerInit
  /\ AdminInit

(* The time in scheduledFor comes.                                          *)
ComeDue(id) ==
  /\ Exists(id)
  /\ rows[id].early
  /\ rows' = [rows EXCEPT ![id].early = FALSE]
  /\ UNCHANGED <<log, retryTopic, dlqTopic, serviceVars, workerVars, retrial>>

PipelineNext ==
  \/ ServiceNext /\ UNCHANGED <<workerVars, retrial>>
  \/ WorkerNext /\ UNCHANGED <<serviceVars, retrial>>
  \/ AdminNext /\ UNCHANGED <<serviceVars, workerVars>>
  \/ \E id \in Ids : ComeDue(id)

(* Request handlers and worker processes that can take a step take one; no  *)
(* fairness is asked of clients, operators, faults or the expiry of keys.   *)
PipelineFairness ==
  /\ \A r \in Requests : WF_pipelineVars(Handle(r) /\ UNCHANGED <<workerVars, retrial>>)
  /\ \A w \in Workers : WF_pipelineVars(WorkerStep(w) /\ UNCHANGED <<serviceVars, retrial>>)

PipelineSpec == PipelineInit /\ [][PipelineNext]_pipelineVars

FairPipeline == PipelineSpec /\ PipelineFairness

-----------------------------------------------------------------------------
(* Persist first, publish second: whatever a worker holds or a provider     *)
(* took has its row, so the updates of handleNotification never miss, and   *)
(* the row carries the key its request came with.                           *)
NoWorkWithoutRow ==
  /\ \A w \in Workers : task[w].id # NoId => Exists(task[w].id)
  /\ \A id \in Ids :
       sends[id] > 0 => \E r \in Requests : req[r].id = id /\ rows[id].key = req[r].key

(* The manual retry never loses a notification: a row it sets back to       *)
(* PENDING is one the workers have settled, so its message is kept on a     *)
(* topic (or it was delivered after all, or the DLQ refused it).            *)
ResetRowsAreSettled ==
  \A a \in Admins : retrial[a].phase \in {"reset", "queued"} => Settled(retrial[a].id)

(* Every request that is answered after an acknowledged send leads to a     *)
(* notification that is recorded as sent, or kept on a topic, or lost in    *)
(* one of the three ways CommittedIsSettled names.                          *)
CreatedSettles ==
  \A r \in Requests, id \in Ids :
    At(r, "created") /\ req[r].id = id ~> Settled(id) \/ Ignored(id) \/ Skipped(id)

-----------------------------------------------------------------------------
(* What the documentation says, and the code does not do.                   *)

(* kafka-consumer.service.ts: "Failed messages are automatically routed to  *)
(* DLQ after max retries".  A message on notifications-retry is retried     *)
(* until it is sent or reaches the DLQ.                                     *)
RetriesComeToAnEnd ==
  \A id \in Ids : id \in retryTopic ~> Recorded(id) \/ id \in dlqTopic

(* docs/DEMO_SCRIPT.md: a notification scheduled for later is picked up "at *)
(* the right time".  No provider gets it before.                            *)
ScheduledIsNotSentEarly ==
  \A id \in Ids : sends[id] > 0 => ~rows[id].early
=============================================================================
