--------------------------- MODULE RetentionSystem --------------------------
(***************************************************************************)
(* Retention against the rest of the system: the archival runs and the     *)
(* cleanup, the operator who sends old FAILED notifications back to        *)
(* PENDING, and the worker that finishes what is pending.                  *)
(***************************************************************************)
EXTENDS Archival, AdminController, Functions

vars == <<storeVars, archivalVars, retrial>>

(* There are keys enough for every row to have its own.                     *)
ASSUME RetentionAssumption == Injection(Ids, Keys) # {}

(* Old rows, under way or completed, each with a key of its own (which one  *)
(* makes no difference here).                                               *)
KeyOf == CHOOSE keyOf \in Injection(Ids, Keys) : TRUE

OldRow(id, status) ==
  [key |-> KeyOf[id], status |-> status, sentAt |-> status = "SENT", early |-> FALSE]

Init ==
  /\ \E status \in [Ids -> {"PENDING", "SENT", "FAILED"}] :
       rows = [id \in Ids |-> OldRow(id, status[id])]
  /\ log = <<>>
  /\ retryTopic = {}
  /\ dlqTopic = {}
  /\ ArchivalInit
  /\ AdminInit

(* A worker finishes an old notification that is still under way.           *)
WorkerFinishes(id) ==
  /\ Exists(id)
  /\ rows[id].status = "PENDING"
  /\ \/ rows' = [rows EXCEPT ![id].status = "SENT", ![id].sentAt = TRUE]
     \/ rows' = [rows EXCEPT ![id].status = "FAILED"]
  /\ UNCHANGED <<log, retryTopic, dlqTopic, archivalVars, retrial>>

Next ==
  \/ ArchivalNext /\ UNCHANGED retrial
  \/ AdminNext /\ UNCHANGED archivalVars
  \/ \E id \in Ids : WorkerFinishes(id)

(* A run goes on once it is started, and the database does not roll back    *)
(* every transaction of a run for ever.                                     *)
Fairness ==
  \A x \in Runs :
    /\ WF_vars((FindBatch(x) \/ MoveBatch(x) \/ MoveFails(x) \/ ReleaseLock(x))
               /\ UNCHANGED retrial)
    /\ SF_vars(MoveBatch(x) /\ UNCHANGED retrial)

Spec == Init /\ [][Next]_vars

FairSpec == Spec /\ Fairness

TypeOK == StoreTypeOK /\ ArchivalTypeOK /\ AdminTypeOK

-----------------------------------------------------------------------------
(* The move is atomic in both directions, however many runs share a batch:  *)
(* no row is in a table and in its archive, and a row that is in neither    *)
(* was deleted by the cleanup job.                                          *)
InOneTableOrCleaned ==
  \A id \in Ids :
    /\ ~(Exists(id) /\ archive[id] # NoRow)
    /\ Exists(id) \/ archive[id] # NoRow \/ id \in cleaned

(* The archived copy is the row that was deleted, although it was read      *)
(* before the transaction: only a manual retry can come in between, because *)
(* nothing else changes a completed row.                                    *)
CopyIsCurrentUnlessRetried ==
  [][\A id \in Ids :
       Exists(id) /\ ~Exists(id)' /\ id \notin cleaned' =>
         archive'[id] = rows[id] \/ \E a \in Admins : retrial[a].id = id]_vars

(* What is archived stays as it was archived, also when a second run comes  *)
(* with an older reading of the same row.                                   *)
ArchiveIsFinal ==
  [][\A id \in Ids : archive[id] # NoRow => archive'[id] = archive[id]]_vars

(* A run that has started ends, whatever the other runs, the cleanup and    *)
(* the operator do to its batches.                                          *)
RunsEnd ==
  \A x \in Runs : run[x] # "idle" ~> run[x] = "done"

-----------------------------------------------------------------------------
(* archival.job.ts: "Distributed locking (prevents multiple instances       *)
(* running)".                                                               *)
OneInstanceAtATime ==
  \A x, y \in DailyRuns :
    run[x] \in {"find", "move"} /\ run[y] \in {"find", "move"} => x = y

(* archival.service.ts: "Notifications: 90 days in hot storage, then        *)
(* archived".  A notification that left the table is in the archive.        *)
OldNotificationsAreArchived ==
  \A id \in Ids : Exists(id) \/ archive[id] # NoRow
=============================================================================
