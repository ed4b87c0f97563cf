--------------------------- MODULE AdminController --------------------------
(***************************************************************************)
(* POST /admin/notifications/:id/retry (AdminController.retryNotification): *)
(* the row is read, and reset to PENDING if the status read was FAILED.    *)
(* Nothing is published.                                                   *)
(***************************************************************************)
EXTENDS NotificationStore

CONSTANT Admins  \* executions of the endpoint

VARIABLE retrial \* the executions: phase and the notification asked for

RetrialPhases == {"idle", "reset", "queued", "failed"}

AdminTypeOK == retrial \in [Admins -> [phase : RetrialPhases, id : Ids \cup {NoId}]]

AdminInit == retrial = [a \in Admins |-> [phase |-> "idle", id |-> NoId]]

(* A slip in the endpoint: the status of the row is not looked at.          *)
ReadForRetryAnyStatus(a, id) ==
  /\ retrial[a].phase = "idle"
  /\ Exists(id)
  /\ retrial' = [retrial EXCEPT ![a] = [phase |-> "reset", id |-> id]]
  /\ UNCHANGED storeVars

(* findUnique: the request goes on if the row is there and FAILED.  Refused *)
(* here, it has changed nothing and counts as not made.                     *)
ReadForRetry(a, id) ==
  /\ retrial[a].phase = "idle"
  /\ Exists(id)
  /\ rows[id].status = "FAILED"
  /\ retrial' = [retrial EXCEPT ![a] = [phase |-> "reset", id |-> id]]
  /\ UNCHANGED storeVars

(* update to PENDING by id alone, whatever the status is by now; sentAt is  *)
(* not touched.  The answer is "Notification queued for retry".             *)
ResetForRetry(a) ==
  LET id == retrial[a].id
  IN  /\ retrial[a].phase = "reset"
      /\ \E applied, ok \in BOOLEAN :
           /\ ok => applied /\ Exists(id)
           /\ UpdateRow(id, [rows[id] EXCEPT !.status = "PENDING"], applied)
           /\ retrial' = [retrial EXCEPT ![a].phase = IF ok THEN "queued" ELSE "failed"]
      /\ UNCHANGED <<log, retryTopic, dlqTopic>>

AdminNext ==
  \E a \in Admins : ResetForRetry(a) \/ \E id \in Ids : ReadForRetry(a, id)
=============================================================================
