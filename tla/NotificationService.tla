------------------------- MODULE NotificationService ------------------------
(***************************************************************************)
(* POST /notifications: NotificationService.create, one record per request *)
(* and one action per await, so that requests interleave as they do on the *)
(* event loop and between instances.  The idempotency key is looked up in  *)
(* Redis, the row is inserted, the key is stored in Redis, and only then   *)
(* is the message published, with notifications-retry as the fallback.     *)
(***************************************************************************)
EXTENDS NotificationStore

CONSTANTS
  Requests,      \* handler executions; a client that retries makes another one
  NoKey,         \* the key of a request that has not been made
  EarlyChoices   \* subset of BOOLEAN: may a request carry a future scheduledFor

ASSUME ServiceAssumption == NoKey \notin Keys /\ EarlyChoices \subseteq BOOLEAN

VARIABLES
  idem,  \* Redis: the notification id under idempotency:<key>
  req    \* the requests

serviceVars == <<idem, req>>

Active == {"check", "lookup", "insert", "store", "publish", "fallback"}
Answered == {"created", "createdUnsent", "duplicate"}
Phases == {"idle"} \cup Active \cup Answered \cup {"failed", "crashed"}

\* id is the row the request found or made, also when the client never learns it.
Request == [phase : Phases, key : Keys \cup {NoKey},
            id : Ids \cup {NoId}, early : BOOLEAN]

ServiceTypeOK ==
  /\ idem \in [Keys -> Ids \cup {NoId}]
  /\ req \in [Requests -> Request]

ServiceInit ==
  /\ idem = [k \in Keys |-> NoId]
  /\ req = [r \in Requests |->
              [phase |-> "idle", key |-> NoKey, id |-> NoId, early |-> FALSE]]

At(r, phase) == req[r].phase = phase
Goto(r, phase) == req' = [req EXCEPT ![r].phase = phase]
GotoWith(r, phase, id) == req' = [req EXCEPT ![r].phase = phase, ![r].id = id]

-----------------------------------------------------------------------------
(* A client sends a request; keys are shared by the retries of one client.  *)
Receive(r, k, early) ==
  /\ At(r, "idle")
  /\ req' = [req EXCEPT ![r] = [phase |-> "check", key |-> k,
                                id |-> NoId, early |-> early]]
  /\ UNCHANGED <<storeVars, idem>>

(* checkIdempotency: Redis GET, which may fail (500).                       *)
CheckIdempotency(r) ==
  LET cached == idem[req[r].key]
  IN  /\ At(r, "check")
      /\ \/ Goto(r, "failed")
         \/ cached # NoId /\ GotoWith(r, "lookup", cached)
         \/ cached = NoId /\ Goto(r, "insert")
      /\ UNCHANGED <<storeVars, idem>>

(* The duplicate's row: returned if it is there, 409 if it is not.          *)
LookupExisting(r) ==
  /\ At(r, "lookup")
  /\ \/ Goto(r, "failed")
     \/ Goto(r, IF Exists(req[r].id) THEN "duplicate" ELSE "failed")
  /\ UNCHANGED <<storeVars, idem>>

(* A slip in create: a status the schema does not know.                     *)
NewRowUnknownStatus(r) ==
  [key |-> req[r].key, early |-> req[r].early, sentAt |-> FALSE, status |-> "QUEUED"]

NewRow(r) ==
  [key |-> req[r].key, early |-> req[r].early, sentAt |-> FALSE,
   status |-> IF req[r].early THEN "SCHEDULED" ELSE "PENDING"]

(* A slip in create: nothing but the Redis lookup keeps two requests from   *)
(* inserting under the same key.                                            *)
InsertUnchecked(r) ==
  /\ At(r, "insert")
  /\ \/ Goto(r, "failed") /\ UNCHANGED rows
     \/ \E id \in {i \in Ids : ~Exists(i)} :
          /\ rows' = [rows EXCEPT ![id] = NewRow(r)]
          /\ \/ GotoWith(r, "store", id)
             \/ GotoWith(r, "failed", id)
  /\ UNCHANGED <<log, retryTopic, dlqTopic, idem>>

(* A slip in create: the insert is started and not awaited.                 *)
InsertNotAwaited(r) ==
  /\ At(r, "insert")
  /\ \E id \in {i \in Ids : ~Exists(i)} :
       /\ rows' \in {rows, [rows EXCEPT ![id] = NewRow(r)]}
       /\ GotoWith(r, "store", id)
  /\ UNCHANGED <<log, retryTopic, dlqTopic, idem>>

(* prisma.notification.create: idempotencyKey is @unique, so an insert under *)
(* a key that has a row is rejected (an unhandled P2002, hence 500).        *)
InsertRow(r) ==
  /\ At(r, "insert")
  /\ \/ Goto(r, "failed") /\ UNCHANGED rows
     \/ /\ RowsOf(req[r].key) = {}
        /\ \E id \in {i \in Ids : ~Exists(i)} :
             /\ rows' = [rows EXCEPT ![id] = NewRow(r)]
             /\ \/ GotoWith(r, "store", id)
                \/ GotoWith(r, "failed", id)   \* committed, answer lost
  /\ UNCHANGED <<log, retryTopic, dlqTopic, idem>>

(* A slip in storeIdempotency: the Redis key does not depend on the request. *)
StoreIdempotencyOneKey(r) ==
  /\ At(r, "store")
  /\ \/ idem' = [k \in Keys |-> req[r].id] /\ Goto(r, "publish")
     \/ UNCHANGED idem /\ Goto(r, "failed")
  /\ UNCHANGED storeVars

(* storeIdempotency: SETEX.  A failure is not caught: the request ends in   *)
(* 500 with its row persisted and nothing published.                        *)
StoreIdempotency(r) ==
  /\ At(r, "store")
  /\ \/ idem' = [idem EXCEPT ![req[r].key] = req[r].id] /\ Goto(r, "publish")
     \/ idem' = [idem EXCEPT ![req[r].key] = req[r].id] /\ Goto(r, "failed")
     \/ UNCHANGED idem /\ Goto(r, "failed")
  /\ UNCHANGED storeVars

(* publishToKafka, first try: sendNotification to topic notifications.      *)
Publish(r) ==
  /\ At(r, "publish")
  /\ \E acked \in BOOLEAN :
       /\ AppendLog(req[r].id, acked)
       /\ Goto(r, IF acked THEN "created" ELSE "fallback")
  /\ UNCHANGED <<rows, retryTopic, dlqTopic, idem>>

(* A slip in publishToKafka: a failed fallback taken for a queued message.  *)
PublishFallbackOptimistic(r) ==
  /\ At(r, "fallback")
  /\ \E acked \in BOOLEAN : retryTopic' \in AfterSend(retryTopic, req[r].id, acked)
  /\ Goto(r, "created")
  /\ UNCHANGED <<rows, log, dlqTopic, idem>>

(* publishToKafka, second try: notifications-retry.  If that fails too the  *)
(* error is logged and the client is still told 201.                        *)
PublishFallback(r) ==
  /\ At(r, "fallback")
  /\ \E acked \in BOOLEAN :
       /\ retryTopic' \in AfterSend(retryTopic, req[r].id, acked)
       /\ Goto(r, IF acked THEN "created" ELSE "createdUnsent")
  /\ UNCHANGED <<rows, log, dlqTopic, idem>>

(* The instance that serves the request goes down.                          *)
CrashRequest(r) ==
  /\ req[r].phase \in Active
  /\ Goto(r, "crashed")
  /\ UNCHANGED <<storeVars, idem>>

(* The 24 h of IDEMPOTENCY_TTL pass, or Redis drops the key.                *)
ExpireKey(k) ==
  /\ idem[k] # NoId
  /\ idem' = [idem EXCEPT ![k] = NoId]
  /\ UNCHANGED <<storeVars, req>>

Handle(r) ==
  \/ CheckIdempotency(r)
  \/ LookupExisting(r)
  \/ InsertRow(r)
  \/ StoreIdempotency(r)
  \/ Publish(r)
  \/ PublishFallback(r)

ServiceNext ==
  \/ \E r \in Requests :
       \/ \E k \in Keys, early \in EarlyChoices : Receive(r, k, early)
       \/ Handle(r)
       \/ CrashRequest(r)
  \/ \E k \in Keys : ExpireKey(k)

-----------------------------------------------------------------------------
(* The service on its own.                                                  *)
vars == <<storeVars, serviceVars>>

StoreInit ==
  /\ rows = [id \in Ids |-> NoRow]
  /\ log = <<>>
  /\ retryTopic = {}
  /\ dlqTopic = {}

Init == StoreInit /\ ServiceInit

Spec == Init /\ [][ServiceNext]_vars

TypeOK == StoreTypeOK /\ ServiceTypeOK

-----------------------------------------------------------------------------
(* Two requests with the same idempotency key that are both answered are    *)
(* told the same notification: whichever of them lost the race to insert,   *)
(* expired its cache entry or crashed in between.                           *)
SameKeySameAnswer ==
  \A r, s \in Requests :
    /\ req[r].phase \in Answered
    /\ req[s].phase \in Answered
    /\ req[r].key = req[s].key
    => req[r].id = req[s].id

(* A key cached in Redis names a row that exists and was created under that *)
(* very key, so "Duplicate request detected but notification not found"     *)
(* cannot happen while rows are not deleted.                                *)
CachedKeyNamesItsRow ==
  \A k \in Keys :
    idem[k] # NoId => Exists(idem[k]) /\ rows[idem[k]].key = k

Queued(id) == OnLog(id) \/ id \in retryTopic

(* No message without its row: whatever is on a topic can be looked up by   *)
(* the worker that reads it.  And no row is silently left unqueued: a row   *)
(* that is on no topic is still being worked on, or the request that made   *)
(* it ended in a failure, a crash or with both sends refused; a request     *)
(* that was answered after an acknowledged send is on a topic.              *)
QueuedOrExplained ==
  \A id \in Ids :
    /\ Queued(id) => Exists(id)
    /\ Exists(id) /\ ~Queued(id) =>
         \E r \in Requests :
           /\ req[r].id = id
           /\ req[r].phase \in {"store", "publish", "fallback",
                                "failed", "crashed", "createdUnsent"}
    /\ \A r \in Requests :
         req[r].id = id /\ At(r, "created") => Queued(id)

(* The service keeps the promise of IdempotentCreate.                       *)
BoundId(k) == IF RowsOf(k) = {} THEN NoId ELSE CHOOSE id \in RowsOf(k) : TRUE

Promise == INSTANCE IdempotentCreate WITH
  asked   <- [r \in Requests |-> req[r].key],
  binding <- [k \in Keys |-> BoundId(k)],
  answer  <- [r \in Requests |->
                IF req[r].phase \in Answered THEN req[r].id ELSE NoId]

ImplementsPromise == Promise!Spec
=============================================================================
