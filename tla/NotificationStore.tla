------------------------- MODULE NotificationStore --------------------------
(***************************************************************************)
(* What the API and the workers share: the notifications table (Postgres   *)
(* through Prisma) and the three Kafka topics.  Neither store is code of   *)
(* this repository; this module says how the services see them.            *)
(*                                                                         *)
(* A call to a store may also fail after it took effect: the row is        *)
(* written or the record appended, and the answer is lost.  The producer   *)
(* retries inside one send() and is not idempotent, so a send may append   *)
(* its record twice.                                                       *)
(***************************************************************************)
EXTENDS Naturals, Sequences, FiniteSets

CONSTANTS
  Ids,      \* notification ids, never reused
  Keys,     \* idempotency keys
  NoId,     \* no notification id (null)
  NoRow,    \* no such row
  MaxCopies \* bound: the copies of a record one send may append (9 in kafkajs)

VARIABLES
  rows,       \* the notifications table, by id
  log,        \* topic notifications: the ids of its records, in order
  retryTopic, \* topic notifications-retry: ids of the records on it
  dlqTopic    \* topic notifications-dlq: ids of the records on it

storeVars == <<rows, log, retryTopic, dlqTopic>>

Statuses == {"SCHEDULED", "PENDING", "PROCESSING", "SENT", "FAILED"}

\* sentAt: the column is set.  early: scheduledFor lies in the future.
Row == [key : Keys, status : Statuses, sentAt : BOOLEAN, early : BOOLEAN]

ASSUME StoreAssumption ==
  /\ NoId \notin Ids
  /\ NoRow \notin Row
  /\ MaxCopies \in Nat \ {0}

StoreTypeOK ==
  /\ rows \in [Ids -> Row \cup {NoRow}]
  /\ log \in Seq(Ids)
  /\ retryTopic \subseteq Ids
  /\ dlqTopic \subseteq Ids

Exists(id) == rows[id] # NoRow

RowsOf(k) == {id \in Ids : Exists(id) /\ rows[id].key = k}

OnLog(id) == \E i \in 1..Len(log) : log[i] = id

Copies(id) == Cardinality({i \in 1..Len(log) : log[i] = id})

(* prisma.notification.update by id.  `applied` says whether the row        *)
(* changed; a missing row is never changed.                                 *)
UpdateRow(id, new, applied) ==
  rows' = IF applied /\ Exists(id) THEN [rows EXCEPT ![id] = new] ELSE rows

(* producer.send to topic notifications: one copy of the record per attempt *)
(* that reached the broker, and at least one if the send is acknowledged.   *)
AppendLog(id, acked) ==
  \E n \in (IF acked THEN 1 ELSE 0)..MaxCopies :
    log' = log \o [i \in 1..n |-> id]

(* producer.send to a topic nothing reads: what is on it afterwards.        *)
AfterSend(topic, id, acked) ==
  IF acked THEN {topic \cup {id}} ELSE {topic, topic \cup {id}}
=============================================================================
