------------------------ MODULE RetentionSystem_proofs ------------------------
(***************************************************************************)
(* The archival moves rows and loses none, for any number of overlapping   *)
(* runs, rows and operators, and any batch size.                           *)
(***************************************************************************)
EXTENDS RetentionSystem, TLAPS

-----------------------------------------------------------------------------
(* The inductive invariant.                                                 *)

(* The retrials: exactly the executions that have begun know their row.     *)
RetrialFits ==
  /\ retrial \in [Admins -> [phase : RetrialPhases, id : Ids \cup {NoId}]]
  /\ \A a \in Admins : retrial[a].phase = "idle" <=> retrial[a].id = NoId

(* What the moves need of the types.                                        *)
TablesFit ==
  /\ rows \in [Ids -> Row \cup {NoRow}]
  /\ archive \in [Ids -> Row \cup {NoRow}]
  /\ run \in [Runs -> RunPhases]
  /\ RetrialFits
  /\ DOMAIN batch = Runs
  /\ \A x \in Runs :
       /\ DOMAIN batch[x] \subseteq Ids
       /\ \A id \in DOMAIN batch[x] : batch[x][id] \in Row

Retried(id) == \E a \in Admins : retrial[a].id = id

(* What a run has read and not yet moved is a completed row, and the row as *)
(* it still is, unless an operator asked for that row to be retried.        *)
ReadingsAreCurrent ==
  \A x \in Runs : \A id \in DOMAIN batch[x] :
    Exists(id) /\ ~Retried(id) =>
      batch[x][id] = rows[id] /\ rows[id].status \in Completed

IInv == TablesFit /\ InOneTableOrCleaned /\ ReadingsAreCurrent

LEMMA InitHolds == Init => IInv
<1> SUFFICES ASSUME Init PROVE IInv
  OBVIOUS
<1>1. KeyOf \in [Ids -> Keys]
  BY RetentionAssumption DEF KeyOf, Injection, IsInjective
<1>2. PICK status \in [Ids -> {"PENDING", "SENT", "FAILED"}] :
        rows = [id \in Ids |-> OldRow(id, status[id])]
  BY DEF Init
<1>3. \A id \in Ids : OldRow(id, status[id]) \in Row
  BY <1>1, <1>2 DEF OldRow, Row, Statuses
<1>4. \A x \in Runs : batch[x] = NoBatch /\ DOMAIN batch[x] = {}
  BY DEF Init, ArchivalInit, NoBatch
<1>5. TablesFit
  <2>1. rows \in [Ids -> Row \cup {NoRow}]
    BY <1>2, <1>3
  <2>2. archive \in [Ids -> Row \cup {NoRow}] /\ run \in [Runs -> RunPhases] /\ DOMAIN batch = Runs
    BY DEF Init, ArchivalInit, RunPhases
  <2>3. RetrialFits
    BY DEF Init, AdminInit, RetrialPhases, RetrialFits
  <2> QED
    BY <1>4, <2>1, <2>2, <2>3 DEF TablesFit
<1>6. InOneTableOrCleaned
  BY <1>2, <1>3, StoreAssumption DEF Init, ArchivalInit, InOneTableOrCleaned, Exists
<1>7. ReadingsAreCurrent
  BY <1>4 DEF ReadingsAreCurrent
<1> QED
  BY <1>5, <1>6, <1>7 DEF IInv

-----------------------------------------------------------------------------
(* The archival runs.                                                       *)

(* A step that moves runs and the lock about.                               *)
LEMMA RunMoves ==
  ASSUME IInv, UNCHANGED <<rows, archive, cleaned, retrial>>,
         run' \in [Runs -> RunPhases],
         batch' = batch \/ \E x \in Runs : batch' = [batch EXCEPT ![x] = NoBatch]
  PROVE  IInv'
<1>1. DOMAIN batch' = Runs /\ \A x \in Runs : batch'[x] = batch[x] \/ batch'[x] = NoBatch
  BY DEF IInv, TablesFit
<1>2. DOMAIN NoBatch = {}
  BY DEF NoBatch
<1>3. TablesFit' /\ InOneTableOrCleaned'
  BY <1>1, <1>2 DEF IInv, TablesFit, RetrialFits, InOneTableOrCleaned, Exists
<1>4. ReadingsAreCurrent'
  BY <1>1, <1>2 DEF IInv, ReadingsAreCurrent, Exists, Retried
<1> QED
  BY <1>3, <1>4 DEF IInv

LEMMA FindBatchKeeps ==
  ASSUME IInv, NEW x \in Runs, FindBatch(x), UNCHANGED retrial
  PROVE  IInv'
<1>1. UNCHANGED <<rows, archive, cleaned>> /\ run' \in [Runs -> RunPhases]
  BY DEF FindBatch, storeVars, Leave, Goto, RunPhases, IInv, TablesFit
<1>2. PICK S \in Selections(Eligible) : batch' = [batch EXCEPT ![x] = [id \in S |-> rows[id]]]
  BY DEF FindBatch
<1>3. S \subseteq Ids /\ \A id \in S : Exists(id) /\ rows[id].status \in Completed
  BY DEF Selections, Eligible
<1>4. /\ DOMAIN batch' = Runs
      /\ batch'[x] = [id \in S |-> rows[id]]
      /\ \A y \in Runs \ {x} : batch'[y] = batch[y]
  BY <1>2 DEF IInv, TablesFit
<1>5. \A id \in S : rows[id] \in Row
  BY <1>3 DEF IInv, TablesFit, Exists
<1>6. TablesFit'
  BY <1>1, <1>3, <1>4, <1>5 DEF IInv, TablesFit, RetrialFits
<1>7. InOneTableOrCleaned'
  BY <1>1 DEF IInv, InOneTableOrCleaned, Exists
<1>8. ReadingsAreCurrent'
  BY <1>1, <1>3, <1>4 DEF IInv, ReadingsAreCurrent, Exists, Retried
<1> QED
  BY <1>6, <1>7, <1>8 DEF IInv

(* The table and the archive after a move, row by row.                      *)
LEMMA Moved ==
  ASSUME IInv, NEW x \in Runs, MoveBatch(x)
  PROVE  /\ \A id \in DOMAIN batch[x] :
              /\ rows'[id] = NoRow
              /\ archive'[id] = IF archive[id] = NoRow THEN batch[x][id] ELSE archive[id]
         /\ \A id \in Ids \ DOMAIN batch[x] :
              rows'[id] = rows[id] /\ archive'[id] = archive[id]
         /\ rows' \in [Ids -> Row \cup {NoRow}]
         /\ archive' \in [Ids -> Row \cup {NoRow}]
<1>1. DOMAIN batch[x] \subseteq Ids /\ \A id \in DOMAIN batch[x] : batch[x][id] \in Row
  BY DEF IInv, TablesFit
<1>2. /\ rows' = [id \in Ids |-> IF id \in DOMAIN batch[x] THEN NoRow ELSE rows[id]]
      /\ archive' = [id \in Ids |-> IF archive[id] = NoRow /\ id \in DOMAIN batch[x]
                                    THEN batch[x][id] ELSE archive[id]]
  BY DEF MoveBatch, Without, WithCopies
<1> QED
  BY <1>1, <1>2 DEF IInv, TablesFit

LEMMA MoveBatchKeeps ==
  ASSUME IInv, NEW x \in Runs, MoveBatch(x), UNCHANGED retrial
  PROVE  IInv'
<1>1. /\ UNCHANGED cleaned /\ run' \in [Runs -> RunPhases]
      /\ DOMAIN batch' = Runs
      /\ \A y \in Runs : batch'[y] = IF y = x THEN NoBatch ELSE batch[y]
      /\ DOMAIN NoBatch = {}
  BY DEF MoveBatch, Goto, RunPhases, NoBatch, IInv, TablesFit
<1>2. TablesFit'
  BY <1>1, Moved DEF IInv, TablesFit, RetrialFits
<1>3. InOneTableOrCleaned'
  <2> SUFFICES ASSUME NEW id \in Ids
               PROVE  /\ ~(rows'[id] # NoRow /\ archive'[id] # NoRow)
                      /\ rows'[id] # NoRow \/ archive'[id] # NoRow \/ id \in cleaned'
    BY DEF InOneTableOrCleaned, Exists
  <2>1. CASE id \in DOMAIN batch[x]
    <3>1. batch[x][id] # NoRow
      BY <2>1, StoreAssumption DEF IInv, TablesFit
    <3> QED
      BY <2>1, <3>1, Moved
  <2>2. CASE id \notin DOMAIN batch[x]
    BY <1>1, <2>2, Moved DEF IInv, InOneTableOrCleaned, Exists
  <2> QED
    BY <2>1, <2>2
<1>4. ReadingsAreCurrent'
  <2> SUFFICES ASSUME NEW y \in Runs, NEW id \in DOMAIN batch'[y],
                      rows'[id] # NoRow, ~Retried(id)
               PROVE  batch'[y][id] = rows'[id] /\ rows'[id].status \in Completed
    BY DEF ReadingsAreCurrent, Exists, Retried
  <2>1. y # x /\ batch'[y] = batch[y] /\ id \in Ids
    BY <1>1 DEF IInv, TablesFit
  <2>2. rows'[id] = rows[id]
    BY <2>1, Moved
  <2> QED
    BY <2>1, <2>2 DEF IInv, ReadingsAreCurrent, Exists
<1> QED
  BY <1>2, <1>3, <1>4 DEF IInv

LEMMA ArchivalKeeps ==
  ASSUME IInv, ArchivalNext, UNCHANGED retrial
  PROVE  IInv'
<1>1. ASSUME NEW x \in Runs, RunStep(x) PROVE IInv'
  <2> USE DEF RunPhases
  <2>1. \A p \in RunPhases : Goto(x, p) => run' \in [Runs -> RunPhases]
    BY DEF Goto, IInv, TablesFit
  <2>2. CASE StartDaily(x)
    BY <2>1, <2>2, RunMoves DEF StartDaily, storeVars
  <2>3. CASE StartManual(x)
    BY <2>1, <2>3, RunMoves DEF StartManual, storeVars
  <2>4. CASE MoveFails(x)
    BY <2>1, <2>4, RunMoves DEF MoveFails, storeVars
  <2>5. CASE ReleaseLock(x)
    BY <2>1, <2>5, RunMoves DEF ReleaseLock, storeVars
  <2> QED
    BY <1>1, <2>2, <2>3, <2>4, <2>5, FindBatchKeeps, MoveBatchKeeps DEF RunStep
<1>2. CASE LockExpires
  BY <1>2, RunMoves DEF LockExpires, storeVars, IInv, TablesFit
<1>3. CASE CleanupOldNotifications
  <2>1. PICK old \in SUBSET Ids :
          /\ \A id \in old : Exists(id)
          /\ rows' = Without(old)
          /\ cleaned' = cleaned \cup old
          /\ UNCHANGED <<archive, run, batch>>
    BY <1>3 DEF CleanupOldNotifications
  <2>2. \A id \in Ids : rows'[id] = IF id \in old THEN NoRow ELSE rows[id]
    BY <2>1 DEF Without
  <2>3. TablesFit'
    BY <2>1, <2>2 DEF Without, IInv, TablesFit, RetrialFits
  <2>4. InOneTableOrCleaned'
    BY <2>1, <2>2 DEF IInv, InOneTableOrCleaned, Exists
  <2>5. ReadingsAreCurrent'
    BY <2>1, <2>2 DEF IInv, TablesFit, ReadingsAreCurrent, Exists, Retried
  <2> QED
    BY <2>3, <2>4, <2>5 DEF IInv
<1> QED
  BY <1>1, <1>2, <1>3 DEF ArchivalNext

-----------------------------------------------------------------------------
(* The rest of the system only ever updates rows.                           *)

LEMMA RowChanges ==
  ASSUME IInv, UNCHANGED archivalVars, NEW id \in Ids, NEW new \in Row,
         Exists(id), rows' = [rows EXCEPT ![id] = new],
         \A i \in Ids : Retried(i) => Retried(i)',
         RetrialFits',
         rows[id].status \notin Completed \/ Retried(id)
  PROVE  IInv'
<1>1. /\ rows' \in [Ids -> Row \cup {NoRow}]
      /\ \A i \in Ids \ {id} : rows'[i] = rows[i]
      /\ rows'[id] # NoRow
  BY StoreAssumption DEF IInv, TablesFit
<1>2. TablesFit' /\ InOneTableOrCleaned'
  BY <1>1 DEF IInv, TablesFit, InOneTableOrCleaned, archivalVars, Exists
<1>3. ReadingsAreCurrent'
  <2> SUFFICES ASSUME NEW x \in Runs, NEW i \in DOMAIN batch[x], rows'[i] # NoRow, ~Retried(i)'
               PROVE  batch[x][i] = rows'[i] /\ rows'[i].status \in Completed
    BY DEF ReadingsAreCurrent, Exists, archivalVars
  <2>1. i \in Ids /\ ~Retried(i)
    BY DEF IInv, TablesFit
  <2>2. i # id
    BY <2>1 DEF IInv, ReadingsAreCurrent
  <2> QED
    BY <1>1, <2>1, <2>2 DEF IInv, ReadingsAreCurrent, Exists
<1> QED
  BY <1>2, <1>3 DEF IInv

LEMMA RowsStay ==
  ASSUME IInv, UNCHANGED <<archivalVars, rows>>,
         \A i \in Ids : Retried(i) => Retried(i)',
         RetrialFits'
  PROVE  IInv'
<1>1. TablesFit' /\ InOneTableOrCleaned'
  BY DEF IInv, TablesFit, InOneTableOrCleaned, archivalVars, Exists
<1>2. ReadingsAreCurrent'
  BY DEF IInv, TablesFit, ReadingsAreCurrent, archivalVars, Exists
<1> QED
  BY <1>1, <1>2 DEF IInv

LEMMA AdminKeeps ==
  ASSUME IInv, AdminNext, UNCHANGED archivalVars
  PROVE  IInv'
<1>1. ASSUME NEW a \in Admins, NEW id \in Ids, ReadForRetry(a, id) PROVE IInv'
  <2>1. /\ UNCHANGED rows
        /\ retrial \in [Admins -> [phase : RetrialPhases, id : Ids \cup {NoId}]]
        /\ retrial[a].phase = "idle"
        /\ retrial[a].id = NoId
        /\ retrial' = [retrial EXCEPT ![a] = [phase |-> "reset", id |-> id]]
    BY <1>1 DEF ReadForRetry, storeVars, IInv, TablesFit, RetrialFits
  <2>2. RetrialFits'
    BY <2>1, StoreAssumption DEF RetrialFits, RetrialPhases, IInv, TablesFit
  <2>3. \A i \in Ids : Retried(i) => Retried(i)'
    BY <2>1, StoreAssumption DEF Retried
  <2> QED
    BY <2>1, <2>2, <2>3, RowsStay
<1>2. ASSUME NEW a \in Admins, ResetForRetry(a) PROVE IInv'
  <2>1. /\ retrial \in [Admins -> [phase : RetrialPhases, id : Ids \cup {NoId}]]
        /\ \A b \in Admins : retrial[b].phase = "idle" <=> retrial[b].id = NoId
        /\ retrial[a].phase = "reset" /\ retrial[a].id \in Ids
    BY <1>2 DEF ResetForRetry, IInv, TablesFit, RetrialFits
  <2>2. PICK id \in Ids : id = retrial[a].id
    BY <2>1
  <2>3. PICK new : new = [rows[id] EXCEPT !.status = "PENDING"]
    OBVIOUS
  <2>4. PICK applied \in BOOLEAN, p \in {"queued", "failed"} :
          UpdateRow(id, new, applied) /\ retrial' = [retrial EXCEPT ![a].phase = p]
    BY <1>2, <2>2, <2>3 DEF ResetForRetry
  <2>5. /\ \A b \in Admins : retrial'[b].id = retrial[b].id
        /\ \A b \in Admins : retrial'[b].phase = IF b = a THEN p ELSE retrial[b].phase
        /\ retrial' \in [Admins -> [phase : RetrialPhases, id : Ids \cup {NoId}]]
    BY <2>1, <2>4 DEF RetrialPhases
  <2>6. RetrialFits' /\ \A i \in Ids : Retried(i) => Retried(i)'
    BY <2>1, <2>5, StoreAssumption DEF RetrialFits, Retried
  <2>7. CASE UNCHANGED rows
    BY <2>6, <2>7, RowsStay
  <2>8. CASE Exists(id) /\ rows' = [rows EXCEPT ![id] = new]
    <3>1. new \in Row /\ Retried(id)
      BY <2>2, <2>3, <2>8 DEF IInv, TablesFit, Exists, Row, Statuses, Retried
    <3> QED
      BY <2>6, <2>8, <3>1, RowChanges
  <2> QED
    BY <2>4, <2>7, <2>8 DEF UpdateRow
<1> QED
  BY <1>1, <1>2 DEF AdminNext

LEMMA WorkerFinishesKeeps ==
  ASSUME IInv, NEW id \in Ids, WorkerFinishes(id)
  PROVE  IInv'
<1>1. /\ Exists(id) /\ rows[id].status \notin Completed
      /\ rows[id] \in Row
      /\ UNCHANGED archivalVars /\ UNCHANGED retrial
  BY DEF WorkerFinishes, Completed, Exists, IInv, TablesFit
<1>2. PICK new : /\ new \in {[rows[id] EXCEPT !.status = "SENT", !.sentAt = TRUE],
                             [rows[id] EXCEPT !.status = "FAILED"]}
                 /\ rows' = [rows EXCEPT ![id] = new]
  BY DEF WorkerFinishes
<1>3. new \in Row
  BY <1>1, <1>2 DEF Row, Statuses
<1>4. RetrialFits' /\ \A i \in Ids : Retried(i) => Retried(i)'
  BY <1>1 DEF RetrialFits, IInv, TablesFit, Retried
<1> QED
  BY <1>1, <1>2, <1>3, <1>4, RowChanges

LEMMA StepKeeps == IInv /\ [Next]_vars => IInv'
<1> SUFFICES ASSUME IInv, [Next]_vars PROVE IInv'
  OBVIOUS
<1>1. CASE UNCHANGED vars
  BY <1>1, RowsStay DEF vars, storeVars, RetrialFits, IInv, TablesFit, Retried
<1> QED
  BY <1>1, ArchivalKeeps, AdminKeeps, WorkerFinishesKeeps DEF Next

LEMMA RetentionInvariant == Spec => []IInv
<1> QED
  BY InitHolds, StepKeeps, PTL DEF Spec

-----------------------------------------------------------------------------
(* A row is in the table or in the archive and not in both, or the cleanup  *)
(* job deleted it, however many runs read it (ArchivalService).             *)
THEOREM MovesAreAtomic == Spec => []InOneTableOrCleaned
<1>1. IInv => InOneTableOrCleaned
  BY DEF IInv
<1> QED
  BY <1>1, RetentionInvariant, PTL

(* Nothing overwrites or removes an archived row: a second run that comes   *)
(* with an older reading of it is refused by skipDuplicates.                *)
THEOREM ArchivedRowsAreFinal == Spec => ArchiveIsFinal
<1>1. IInv /\ [Next]_vars =>
        [\A id \in Ids : archive[id] # NoRow => archive'[id] = archive[id]]_vars
  <2> SUFFICES ASSUME IInv, Next, NEW id \in Ids, archive[id] # NoRow
               PROVE  archive'[id] = archive[id]
    OBVIOUS
  <2>1. ASSUME NEW x \in Runs, MoveBatch(x) PROVE archive'[id] = archive[id]
    BY <2>1, Moved
  <2>2. ASSUME NEW x \in Runs, RunStep(x) PROVE archive'[id] = archive[id]
    BY <2>1, <2>2 DEF RunStep, StartDaily, StartManual, FindBatch, MoveFails, ReleaseLock
  <2> QED
    BY <2>2 DEF Next, ArchivalNext, LockExpires, CleanupOldNotifications, AdminNext,
       WorkerFinishes, archivalVars
<1> QED
  BY <1>1, RetentionInvariant, PTL DEF Spec, ArchiveIsFinal

(* The copy that goes into the archive is the row as it was deleted,        *)
(* although the transaction writes an earlier reading of it, unless an      *)
(* operator sent the row back to PENDING in between.                        *)
THEOREM CopiesAreCurrent == Spec => CopyIsCurrentUnlessRetried
<1>1. IInv /\ [Next]_vars =>
        [\A id \in Ids :
           Exists(id) /\ ~Exists(id)' /\ id \notin cleaned' =>
             archive'[id] = rows[id] \/ \E a \in Admins : retrial[a].id = id]_vars
  <2> SUFFICES ASSUME IInv, Next, NEW id \in Ids,
                      Exists(id), ~Exists(id)', id \notin cleaned', ~Retried(id)
               PROVE  archive'[id] = rows[id]
    BY DEF Retried
  <2>1. ASSUME NEW x \in Runs, MoveBatch(x) PROVE archive'[id] = rows[id]
    <3>1. id \in DOMAIN batch[x]
      BY <2>1, Moved DEF Exists
    <3>2. batch[x][id] = rows[id] /\ archive[id] = NoRow
      BY <3>1 DEF IInv, ReadingsAreCurrent, InOneTableOrCleaned
    <3> QED
      BY <2>1, <3>1, <3>2, Moved
  <2>2. rows' # rows
    BY DEF Exists
  <2>3. ASSUME NEW x \in Runs, RunStep(x) PROVE archive'[id] = rows[id]
    BY <2>1, <2>2, <2>3 DEF RunStep, StartDaily, StartManual, FindBatch, MoveFails,
       ReleaseLock, storeVars
  <2>4. ~CleanupOldNotifications
    BY DEF CleanupOldNotifications, Without, Exists
  <2>5. ASSUME NEW i \in Ids, NEW new \in Row, rows' = [rows EXCEPT ![i] = new] PROVE FALSE
    BY <2>5, StoreAssumption DEF Exists, IInv, TablesFit
  <2>6. ASSUME NEW i \in Ids, WorkerFinishes(i) PROVE FALSE
    <3>1. rows[i] \in Row
      BY <2>6 DEF WorkerFinishes, Exists, IInv, TablesFit
    <3>2. PICK new : /\ new \in {[rows[i] EXCEPT !.status = "SENT", !.sentAt = TRUE],
                                 [rows[i] EXCEPT !.status = "FAILED"]}
                     /\ rows' = [rows EXCEPT ![i] = new]
      BY <2>6 DEF WorkerFinishes
    <3>3. new \in Row
      BY <3>1, <3>2 DEF Row, Statuses
    <3> QED
      BY <2>5, <3>2, <3>3
  <2>7. ASSUME NEW a \in Admins, ResetForRetry(a) PROVE FALSE
    <3>1. PICK i \in Ids : i = retrial[a].id
      BY <2>7 DEF ResetForRetry, IInv, TablesFit, RetrialFits
    <3>2. PICK new : new = [rows[i] EXCEPT !.status = "PENDING"]
      OBVIOUS
    <3>3. Exists(i) /\ rows' = [rows EXCEPT ![i] = new]
      BY <2>2, <2>7, <3>1, <3>2 DEF ResetForRetry, UpdateRow
    <3>4. new \in Row
      BY <3>2, <3>3 DEF Exists, IInv, TablesFit, Row, Statuses
    <3> QED
      BY <2>5, <3>3, <3>4
  <2>8. ~AdminNext
    BY <2>2, <2>7 DEF AdminNext, ReadForRetry, storeVars
  <2> QED
    BY <2>2, <2>3, <2>4, <2>6, <2>8 DEF Next, ArchivalNext, LockExpires, storeVars
<1> QED
  BY <1>1, RetentionInvariant, PTL DEF Spec, CopyIsCurrentUnlessRetried
=============================================================================
