----------------------------- MODULE UserErasure ----------------------------
(***************************************************************************)
(* AnonymizationService.anonymizeUserData for one user, against the parts  *)
(* of the system that write that user's notifications: the API, the        *)
(* worker, and the archival, which reads a batch before the transaction    *)
(* that copies and deletes it.  For each row the model keeps which columns *)
(* still hold what the user's request carried.  (Events and audit entries  *)
(* of the user are anonymised in the same transaction; nothing in the      *)
(* repository writes them.  A notification's other personal columns are    *)
(* redacted with the payload and copied with it.)                          *)
(***************************************************************************)
EXTENDS Naturals

CONSTANTS
  UserNotifs, \* the user's notification ids
  Movers,     \* executions of archiveOldNotifications
  Absent      \* no such row

Columns == {"payload", "content", "errorMessage"}

ASSUME ErasureAssumption == Absent \notin [holds : SUBSET Columns, settled : BOOLEAN]

VARIABLES
  person,     \* the users row: "known", or "anonymized"
  active,     \* the notifications table: the columns that hold personal data
  archived,   \* archived_notifications, by originalId
  snapshot,   \* snapshot[m]: the rows execution m has read and not yet moved
  afterwards  \* history: rows something personal was written to after, or
              \* out of, a reading from before the anonymisation

erasureVars == <<person, active, archived, snapshot, afterwards>>

NoSnapshot == [id \in UserNotifs |-> Absent]

ErasureInit ==
  /\ person = "known"
  /\ active = [id \in UserNotifs |-> Absent]
  /\ archived = [id \in UserNotifs |-> Absent]
  /\ snapshot = [m \in Movers |-> NoSnapshot]
  /\ afterwards = {}

Late(ids) == afterwards' = IF person = "anonymized" THEN afterwards \cup ids ELSE afterwards

\* NotificationService.create: the payload also goes to the deprecated column
\* `content`.  The user row survives its anonymisation, so later requests
\* still find it.
CreateForUser(id) ==
  /\ active[id] = Absent /\ archived[id] = Absent
  /\ active' = [active EXCEPT ![id] =
                  [holds |-> {"payload", "content"}, settled |-> FALSE]]
  /\ Late({id})
  /\ UNCHANGED <<person, archived, snapshot>>

\* The worker: SENT leaves these columns alone, FAILED writes the provider's
\* message, which may name the recipient.
SettleForUser(id) ==
  /\ active[id] # Absent /\ ~active[id].settled
  /\ \/ /\ active' = [active EXCEPT ![id].settled = TRUE]
        /\ UNCHANGED afterwards
     \/ /\ active' = [active EXCEPT ![id].settled = TRUE, ![id].holds = @ \cup {"errorMessage"}]
        /\ Late({id})
  /\ UNCHANGED <<person, archived, snapshot>>

ReadForArchive(m) ==
  /\ snapshot[m] = NoSnapshot
  /\ \E id \in UserNotifs : active[id] # Absent /\ active[id].settled
  /\ snapshot' = [snapshot EXCEPT ![m] =
       [id \in UserNotifs |->
          IF active[id] # Absent /\ active[id].settled THEN active[id] ELSE Absent]]
  /\ UNCHANGED <<person, active, archived, afterwards>>

\* createMany with skipDuplicates of the rows as they were read, without the
\* column `content`, and deleteMany by id.
MoveToArchive(m) ==
  /\ snapshot[m] # NoSnapshot
  /\ LET moved == {id \in UserNotifs : snapshot[m][id] # Absent}
     IN /\ archived' = [id \in UserNotifs |->
             IF id \in moved /\ archived[id] = Absent
             THEN [snapshot[m][id] EXCEPT !.holds = @ \ {"content"}]
             ELSE archived[id]]
        /\ active' = [id \in UserNotifs |-> IF id \in moved THEN Absent ELSE active[id]]
        /\ Late({id \in moved : archived[id] = Absent
                   /\ active[id] # Absent /\ snapshot[m][id].holds # active[id].holds})
  /\ snapshot' = [snapshot EXCEPT ![m] = NoSnapshot]
  /\ UNCHANGED person

MoveIsRolledBack(m) ==
  /\ snapshot[m] # NoSnapshot
  /\ snapshot' = [snapshot EXCEPT ![m] = NoSnapshot]
  /\ UNCHANGED <<person, active, archived, afterwards>>

\* A slip: the error message is left.
RedactedPayloadOnly(row) ==
  IF row = Absent THEN Absent ELSE [row EXCEPT !.holds = @ \ {"payload"}]

\* The columns the transaction overwrites in both tables.
Redacted(row) ==
  IF row = Absent THEN Absent ELSE [row EXCEPT !.holds = @ \ {"payload", "errorMessage"}]

\* anonymizeUserData: one transaction (one that fails changes nothing).
AnonymizeUserData ==
  /\ person' = "anonymized"
  /\ active' = [id \in UserNotifs |-> Redacted(active[id])]
  /\ archived' = [id \in UserNotifs |-> Redacted(archived[id])]
  /\ afterwards' = {}
  /\ UNCHANGED snapshot

ErasureNext ==
  \/ \E id \in UserNotifs : CreateForUser(id) \/ SettleForUser(id)
  \/ \E m \in Movers : ReadForArchive(m) \/ MoveToArchive(m) \/ MoveIsRolledBack(m)
  \/ AnonymizeUserData

ErasureSpec == ErasureInit /\ [][ErasureNext]_erasureVars

Holds(row, columns) == row # Absent /\ row.holds \cap columns # {}

(* After an anonymisation the payload and the error message of a row are    *)
(* gone from both tables, unless something personal was written since, or   *)
(* an archival carried over the row as it had read it before.               *)
ErasedUnlessWrittenSince ==
  person = "anonymized" =>
    \A id \in UserNotifs \ afterwards :
      /\ ~Holds(active[id], {"payload", "errorMessage"})
      /\ ~Holds(archived[id], {"payload", "errorMessage"})

(* anonymization.service.ts: "Anonymize all data for a user (GDPR right to  *)
(* be forgotten)".  Nothing of what the user's requests carried is left     *)
(* where nothing was written since.                                         *)
NothingPersonalIsLeft ==
  person = "anonymized" =>
    \A id \in UserNotifs \ afterwards :
      ~Holds(active[id], Columns) /\ ~Holds(archived[id], Columns)
=============================================================================
