------------------------------ MODULE Archival ------------------------------
(***************************************************************************)
(* Retention: ArchivalService moves old completed notifications to the     *)
(* archive table, ArchivalJob runs it every night on every instance behind *)
(* a Redis key meant as a lock (and on demand without it), and             *)
(* CleanupService deletes old notifications at the same hour.  All rows    *)
(* here are old enough for both.  A run works in batches: one action reads *)
(* a batch, another moves it in a transaction.  (archiveOldEvents is the   *)
(* same loop over the events table, which nothing else here changes.)      *)
(***************************************************************************)
EXTENDS NotificationStore

CONSTANTS
  DailyRuns,  \* executions of runDailyArchival, over all instances
  ManualRuns, \* executions of runManualArchival
  BatchSize   \* BATCH_SIZE, 1000 in the code

Runs == DailyRuns \cup ManualRuns

ASSUME ArchivalAssumption ==
  BatchSize \in Nat \ {0} /\ DailyRuns \cap ManualRuns = {}

VARIABLES
  archive, \* archived_notifications by originalId
  run,     \* run[x]: where execution x is
  batch,   \* batch[x]: the rows execution x read last, as it read them
  lock,    \* job:archival:lock is present in Redis
  cleaned  \* history: the notifications cleanupOldNotifications deleted

archivalVars == <<archive, run, batch, lock, cleaned>>

RunPhases == {"idle", "find", "move", "unlock", "done"}
Completed == {"SENT", "FAILED", "DELIVERED"}
NoBatch == [id \in {} |-> NoRow]

ArchivalTypeOK ==
  /\ archive \in [Ids -> Row \cup {NoRow}]
  /\ run \in [Runs -> RunPhases]
  /\ DOMAIN batch = Runs
  /\ \A x \in Runs : \E S \in SUBSET Ids : batch[x] \in [S -> Row]
  /\ lock \in BOOLEAN
  /\ cleaned \subseteq Ids

ArchivalInit ==
  /\ archive = [id \in Ids |-> NoRow]
  /\ run = [x \in Runs |-> "idle"]
  /\ batch = [x \in Runs |-> NoBatch]
  /\ lock = FALSE
  /\ cleaned = {}

Goto(x, phase) == run' = [run EXCEPT ![x] = phase]

\* Where an execution goes when runArchival returns.
Leave(x) == Goto(x, IF x \in DailyRuns THEN "unlock" ELSE "done")

-----------------------------------------------------------------------------
(* ArchivalService.archiveOldNotifications.                                 *)

(* A slip in the query: the condition on the status is missing.             *)
EligibleAnyStatus == {id \in Ids : Exists(id)}

Eligible == {id \in Ids : Exists(id) /\ rows[id].status \in Completed}

(* findMany with take: BATCH_SIZE rows of no particular order.              *)
Selections(ids) ==
  {S \in SUBSET ids :
     \/ Cardinality(S) = BatchSize
     \/ S = ids /\ Cardinality(ids) < BatchSize}

(* A slip in the loop: hasMore stays true when nothing is found.            *)
FindBatchEndless(x) ==
  /\ run[x] = "find"
  /\ \E S \in Selections(Eligible) :
       /\ batch' = [batch EXCEPT ![x] = [id \in S |-> rows[id]]]
       /\ Goto(x, "move")
  /\ UNCHANGED <<storeVars, archive, lock, cleaned>>

(* The loop reads a batch; nothing to read ends it, an error starts it over *)
(* with nothing changed.                                                    *)
FindBatch(x) ==
  /\ run[x] = "find"
  /\ \E S \in Selections(Eligible) :
       /\ batch' = [batch EXCEPT ![x] = [id \in S |-> rows[id]]]
       /\ IF S = {} THEN Leave(x) ELSE Goto(x, "move")
  /\ UNCHANGED <<storeVars, archive, lock, cleaned>>

(* A slip in the copy: an upsert instead of skipDuplicates.                 *)
WithCopiesUpsert(copies) ==
  [id \in Ids |-> IF id \in DOMAIN copies THEN copies[id] ELSE archive[id]]

(* createMany with skipDuplicates, from the rows as they were read.         *)
WithCopies(copies) ==
  [id \in Ids |-> IF archive[id] = NoRow /\ id \in DOMAIN copies
                  THEN copies[id] ELSE archive[id]]

(* A slip in the transaction: the originals are deleted by condition, as    *)
(* the cleanup does, and not by the ids that were read.                     *)
WithoutByCondition(ids) ==
  [id \in Ids |-> IF Exists(id) /\ rows[id].status \in Completed THEN NoRow ELSE rows[id]]

(* deleteMany by id, whatever the rows say by now.                          *)
Without(ids) == [id \in Ids |-> IF id \in ids THEN NoRow ELSE rows[id]]

(* The transaction commits: copies in, originals out.                       *)
MoveBatch(x) ==
  /\ run[x] = "move"
  /\ archive' = WithCopies(batch[x])
  /\ rows' = Without(DOMAIN batch[x])
  /\ batch' = [batch EXCEPT ![x] = NoBatch]
  /\ Goto(x, "find")
  /\ UNCHANGED <<log, retryTopic, dlqTopic, lock, cleaned>>

(* The transaction is rolled back; the error is logged and the loop goes on *)
(* with another findMany.                                                   *)
MoveFails(x) ==
  /\ run[x] = "move"
  /\ batch' = [batch EXCEPT ![x] = NoBatch]
  /\ Goto(x, "find")
  /\ UNCHANGED <<storeVars, archive, lock, cleaned>>

-----------------------------------------------------------------------------
(* ArchivalJob.                                                             *)

(* runDailyArchival: the lock is taken with SETEX, which answers OK whether *)
(* or not the key was there; an error skips the archival but not the        *)
(* release in `finally`.                                                    *)
StartDaily(x) ==
  /\ x \in DailyRuns
  /\ run[x] = "idle"
  /\ \/ lock' = TRUE /\ Goto(x, "find")
     \/ lock' \in {TRUE, lock} /\ Goto(x, "unlock")
  /\ UNCHANGED <<storeVars, archive, batch, cleaned>>

(* runManualArchival takes no lock.                                         *)
StartManual(x) ==
  /\ x \in ManualRuns
  /\ run[x] = "idle"
  /\ Goto(x, "find")
  /\ UNCHANGED <<storeVars, archive, batch, lock, cleaned>>

(* finally: del, of whoever's lock it is; Redis may fail that too.          *)
ReleaseLock(x) ==
  /\ run[x] = "unlock"
  /\ lock' \in {FALSE, lock}
  /\ Goto(x, "done")
  /\ UNCHANGED <<storeVars, archive, batch, cleaned>>

(* LOCK_TTL passes.                                                         *)
LockExpires ==
  /\ lock
  /\ lock' = FALSE
  /\ UNCHANGED <<storeVars, archive, run, batch, cleaned>>

-----------------------------------------------------------------------------
(* CleanupService.cleanupOldNotifications: one deleteMany.                  *)
CleanupOldNotifications ==
  LET old == {id \in Ids : Exists(id) /\ rows[id].status \in {"SENT", "FAILED"}}
  IN  /\ old # {}
      /\ rows' = Without(old)
      /\ cleaned' = cleaned \cup old
      /\ UNCHANGED <<log, retryTopic, dlqTopic, archive, run, batch, lock>>

RunStep(x) ==
  \/ StartDaily(x)
  \/ StartManual(x)
  \/ FindBatch(x)
  \/ MoveBatch(x)
  \/ MoveFails(x)
  \/ ReleaseLock(x)

ArchivalNext ==
  \/ \E x \in Runs : RunStep(x)
  \/ LockExpires
  \/ CleanupOldNotifications
=============================================================================
