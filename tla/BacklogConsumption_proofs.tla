----------------------- MODULE BacklogConsumption_proofs -----------------------
(***************************************************************************)
(* What the workers make of a backlog: nothing the group has committed is  *)
(* lost without a trace, and nothing is delivered more often than its      *)
(* records and the faults explain, for any number of workers,              *)
(* notifications, records and faults.                                      *)
(***************************************************************************)
EXTENDS BacklogConsumption, NotificationWorker_proofs

IInv == WorkerInv /\ DeliveryInv

LEMMA BacklogInitHolds == Init => IInv
<1> SUFFICES ASSUME Init PROVE IInv
  OBVIOUS
<1>1. log \in Seq(Ids)
  BY BacklogAssumption DEF Init
<1>2. /\ rows \in [Ids -> Row]
      /\ \A id \in Ids : ~rows[id].sentAt /\ rows[id].status = "PENDING"
  BY DEF Init
<1>3. StoreTypeOK
  BY <1>1, <1>2 DEF Init, StoreTypeOK
<1>4. FreshRows
  BY <1>2 DEF FreshRows
<1>5. WorkerInit
  BY DEF Init
<1> QED
  BY <1>3, <1>4, <1>5, WorkerInitHolds, DeliveryInitHolds DEF IInv

(* A record that comes is one more in the log of an environment that leaves *)
(* everything else alone.                                                   *)
LEMMA ArrivalIsEnvironment ==
  ASSUME IInv, Arrive
  PROVE  Environment
<1>1. PICK backlog \in Backlogs :
        Len(log) < Len(backlog) /\ log' = Append(log, backlog[Len(log) + 1])
  BY DEF Arrive
<1>2. StoreTypeOK /\ log \in Seq(Ids) /\ backlog \in Seq(Ids)
  BY BacklogAssumption DEF IInv, WorkerInv, StoreTypeOK
<1>3. PICK id \in Ids : id = backlog[Len(log) + 1]
  BY <1>1, <1>2
<1>4. log' = log \o <<id>> /\ <<id>> \in Seq(Ids) /\ log' \in Seq(Ids)
  BY <1>1, <1>2, <1>3
<1>5. UNCHANGED <<rows, retryTopic, dlqTopic, workerVars>>
  BY DEF Arrive
<1>6. StoreTypeOK'
  BY <1>2, <1>4, <1>5 DEF StoreTypeOK
<1> QED
  BY <1>4, <1>5, <1>6 DEF Environment, Exists

LEMMA BacklogStepKeeps == IInv /\ [Next]_vars => IInv'
<1>1. ASSUME IInv, Arrive PROVE IInv'
  BY <1>1, ArrivalIsEnvironment, EnvironmentKeeps, DeliveryEnvironmentKeeps DEF IInv
<1>2. IInv /\ [WorkerNext]_vars => IInv'
  BY WorkerStepKeeps, DeliveryStepKeeps DEF IInv, vars
<1> QED
  BY <1>1, <1>2 DEF Next

LEMMA BacklogInvariant == Spec => []IInv
BY BacklogInitHolds, BacklogStepKeeps, PTL DEF Spec

(* Types, for any instance.                                                 *)
THEOREM BacklogTypes == Spec => []TypeOK
<1>1. IInv => TypeOK
  BY DEF IInv, WorkerInv, TypeOK
<1> QED
  BY <1>1, BacklogInvariant, PTL

(* At least once: a record the group will not read again is recorded as     *)
(* sent, kept on a topic, refused by the DLQ, was read before its handler   *)
(* was registered (NotificationWorkerService.handleNotification), or was on *)
(* the log when the group started at its end (KafkaConsumerService).        *)
THEOREM CommittedRecordsAreSettled == Spec => []CommittedIsSettled
<1>1. IInv => CommittedIsSettled
  BY DEF IInv, WorkerInv
<1> QED
  BY <1>1, BacklogInvariant, PTL

(* sentAt is evidence of a delivery, whichever worker wrote it.             *)
THEOREM SentAtIsEvidence == Spec => []RecordedWasSent
<1>1. IInv => RecordedWasSent
  BY DEF IInv, WorkerInv
<1> QED
  BY <1>1, BacklogInvariant, PTL

(* A FAILED row has its message on a topic, or the DLQ refused it.          *)
THEOREM FailedMessagesAreKept == Spec => []FailedIsKept
<1>1. IInv => FailedIsKept
  BY DEF IInv, WorkerInv
<1> QED
  BY <1>1, BacklogInvariant, PTL

(* A notification is accepted twice only after a fault, or when its record  *)
(* is on the log twice and the first delivery could not be recorded; and at *)
(* most once per record and assignment of the partition.                    *)
THEOREM DuplicatesAreExplained == Spec => []DuplicatesHaveACause
<1>1. IInv => DuplicatesHaveACause
  BY CountsExplainDuplicates DEF IInv
<1> QED
  BY <1>1, BacklogInvariant, PTL

(* The skip test of handleNotification: what is recorded as sent is sent    *)
(* again only after a session was lost or a worker crashed.                 *)
THEOREM SkipTestHolds == Spec => RecordedIsNotResent
<1> DEFINE Step ==
      \A id \in Ids : Recorded(id) /\ sends'[id] # sends[id] => faults > 0
<1>1. IInv /\ [Next]_vars => [Step]_workerFrame
  <2>1. Arrive => UNCHANGED sends
    BY DEF Arrive, workerVars, history
  <2> QED
    BY <2>1, RecordedIsSentAgainAfterAFault DEF IInv, vars, Next
<1>2. Spec => [][Step]_workerFrame
  BY <1>1, BacklogInvariant, PTL DEF Spec
<1> QED
  BY <1>2 DEF RecordedIsNotResent
=============================================================================
