------------------------- MODULE BacklogConsumption -------------------------
(***************************************************************************)
(* The workers alone, on the records the API leaves for them: every record *)
(* has its row and nothing has been processed yet.  Records come at any    *)
(* time, before the group has started as well as after.                    *)
(***************************************************************************)
EXTENDS NotificationWorker

CONSTANT Backlogs  \* the records that may come, in their order on the log

ASSUME BacklogAssumption == Backlogs \subseteq Seq(Ids)

vars == workerFrame

Init ==
  /\ log = <<>>
  /\ rows \in [Ids -> {row \in Row : row.status = "PENDING" /\ ~row.sentAt /\ ~row.early}]
  /\ retryTopic = {}
  /\ dlqTopic = {}
  /\ WorkerInit

(* The next record of a backlog comes.                                      *)
Arrive ==
  /\ \E backlog \in Backlogs :
       /\ Len(log) < Len(backlog)
       /\ log = SubSeq(backlog, 1, Len(log))
       /\ log' = Append(log, backlog[Len(log) + 1])
  /\ UNCHANGED <<rows, retryTopic, dlqTopic, workerVars>>

Next == WorkerNext \/ Arrive

Spec == Init /\ [][Next]_vars

TypeOK == StoreTypeOK /\ WorkerTypeOK
=============================================================================
