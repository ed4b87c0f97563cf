# A TLA+ verification project for the notification system

The repository is a NestJS service: clients create notifications over HTTP, the
API persists them in PostgreSQL and publishes them to Kafka, workers consume them
and hand them to e-mail, SMS, push or webhook providers, and scheduled jobs archive
and clean up what is old. Around this core stand rate limiters and caches in Redis,
an operator's console, and an AI/vector-database part. This directory models the
core of it and the components around it, checks the models with TLC and proves
theorems about their safety properties with TLAPS.

Paths below are relative to the repository's `src/` unless they start with `docs/`
or `prisma/`.

## 1. Inventory

| component | state it keeps | operations | talks to |
|---|---|---|---|
| Notification API (`notification/notification.service.ts`, `.controller.ts`) | none of its own; a request's locals between awaits | `create`, `findOne` | Redis (`idempotency:<key>`), table `notifications`, topics `notifications`, `notifications-retry` |
| Notification worker (`notification-worker.service.ts`, `notification-processor.service.ts`, `kafka/kafka-consumer.service.ts`) | handler registry, the record under way, consumer-group offsets (Kafka) | `onModuleInit`, `handleNotification`, `processNotification`, shutdown drain | Kafka group `notification-workers`, table `notifications`, breaker, retry service |
| Retry service (`notification/retry.service.ts`) | one circuit breaker per provider | `sendToRetryQueue`, `sendToDLQ`, `executeWithCircuitBreaker` | topics `notifications-retry`, `notifications-dlq`, providers |
| Circuit breaker (class in `retry.service.ts`) | state, two counters, time of the last failure | `execute`, `onSuccess`, `onFailure` | called by the processor |
| Kafka wrappers (`kafka/`) | connections, handler map | send, subscribe, pause/resume | broker |
| Manual retry (`admin/admin.controller.ts`) | none | `retryNotification`, read-only views | table `notifications` |
| Archival (`data-pipeline/archival.service.ts`, `jobs/archival.job.ts`) | batch read last; Redis key `job:archival:lock` | `archiveOldNotifications`, `archiveOldEvents`, nightly job, manual run | tables `notifications`, `archived_notifications`, Redis |
| Cleanup jobs (`jobs/cleanup.service.ts`) | none | delete old notifications, delete sessions, warm cache | table `notifications`, Redis |
| Rate limiters (`common/guards/`, `ai/guards/`) | token bucket per user in Redis | `canActivate` | Redis |
| Cache (`redis/cache.service.ts`) | cached values, versions, tag sets | get/set/getOrSet, versions, tags | Redis |
| Authentication (`auth/`) | users in memory | register, login, validate | - |
| Integrations, webhooks (`integrations/`) | provider clients | send, provider callbacks | providers, table `notifications` |
| Audit, export, anonymization (`data-pipeline/`) | - | queries, bulk updates | tables |
| LLM service, response cache (`ai/services/llm.service.ts`, `response-cache.service.ts`) | cached answers (Redis), hit counters | `generateCompletion`, invalidate, clear | LLM API, Redis |
| RAG generation (`ai/services/rag-generation.service.ts`, `ai.controller.ts`, `rag.controller.ts`) | spans under way | `generate`, the HTTP endpoints | retrieval, LLM, the cost books |
| Conversation memory (`ai/services/conversation-memory.service.ts`, `conversational-rag.service.ts`) | conversations in Redis or in memory | create, add a turn, prune, delete, clear | RAG generation |
| AI costs (`cost-tracking`, `ai-analytics`, `ai-cost-monitor`) | a window of metrics, rows `AIInteraction`, dates of the last alerts | track, store, report, check hourly | table `ai_interactions` |
| Retrieval, context assembly (`vector-db/services/retrieval`, `context-assembly`) | cached result lists, query statistics | five kinds of search, `assembleContext` | Qdrant, embeddings, cache |
| Embedding (`vector-db/services/embedding.service.ts`) | cached vectors | `generateEmbeddings`, retries | embedding API, cache |
| Vector index (`qdrant.service.ts`, `vector-db.controller.ts`) | a collection of points | upload, delete, change status, clean up, clear | Qdrant |
| Ingestion, chunking (`vector-db/services/ingestion/`, `text-processing/`) | a run over the table | extract, clean, validate, embed, upsert; chunk a template | table `notifications`, embedding, index |
| Health, metrics, logging, tracing, configuration | counters | - | - |

What is hard here, and what therefore has to hold:

* **API**: requests with one idempotency key run at the same time on several
  instances, and between any two of Redis, PostgreSQL and Kafka a call may fail, fail
  after it took effect, or the instance may die. All answers under one key must name
  one notification; a row that was never queued must be explicable.
* **Worker**: crashes, lost group sessions with the old handler still running,
  duplicated records, starting processes whose handler is not registered yet. Nothing
  may be committed and lost, `sentAt` must be evidence, duplicates must have a cause.
* **Breaker**: calls overlap and return in a later period of the circuit than they
  started in. The counters must fit the state, a recovered provider must get its
  traffic back, a dead one must be cut off.
* **Manual retry**: check and update are two calls. Retention: the batch is read
  outside the transaction that moves it, several runs and another deleting job share
  the table.
* **Redis-backed parts** (rate limiters, caches, conversation memory, cost alerts):
  read-compute-write without atomicity, rounding, fire-and-forget writes. What goes
  wrong then must have a cause one can name, and must not spread beyond it.
* **Requests to the model**: a request may be cached, repeated, refused, or fail in the
  retrieval before it. What the provider charges must be in the books once.
* **Search and ingestion**: cached results outlive the index they came from, a batch
  is partly cached and partly repeated, the table is paged by offset while it changes,
  points are read, changed and written back. Answers must belong to their questions.
* **Erasure**: one transaction against a table other parts keep writing, and a batch of
  it in the hands of the archival.

`PROJECT.json` lists every component and, under `hazards`, each of these at its line.

## 2. Modules

```
NotificationStore ----+-- NotificationService --+-- NotificationPipeline
 (table, log, topics) |     ~> IdempotentCreate |
                      +-- NotificationWorker ---+
                      |     BacklogConsumption  |
                      +-- AdminController ------+-- RetentionSystem
                      +-- Archival -------------+
CircuitBreaker ~> BreakerAutomaton           (~> : implements)

ResponseCache --- LLMService --- AIRequests          ContextAssembly --- Retrieval
RateLimiter   CacheService   AuthService   ConversationMemory   AICostMonitor
AIAnalytics   CostTracking   TextChunker   EmbeddingService     VectorIndex
Ingestion     UserErasure                      (all of these: MCComponents)
Ordering: under CostTracking, EmbeddingService and ContextAssembly
```

Theorems are in eight modules of their own: `NotificationService_proofs`,
`NotificationWorker_proofs` (lemmas on the worker's steps, which the next two share),
`BacklogConsumption_proofs`, `NotificationPipeline_proofs`, `RetentionSystem_proofs`,
`AccessComponents_proofs` (breaker, limiters, accounts, cache, erasure, ingestion),
`AIComponents_proofs` (cost alerts, dashboard, statistics, conversations, requests to the
model) and `SearchComponents_proofs` (embedding, vector index, searches, context).

**NotificationStore** is what the services share, as they see it: `rows` (Prisma
model `Notification`, with the columns the control reads: key, status, whether
`sentAt` is set, whether `scheduledFor` is in the future), `log` (topic
`notifications`, one partition) and the sets of ids on `notifications-retry` and
`notifications-dlq`, kept as sets because nothing reads them. Its operators say what a
call may do: an update that fails may have been applied (`UpdateRow`), a send that
fails may have appended, and one that succeeds may have appended more than once
(`AppendLog`, `AfterSend`), because the producer sets retries and not `idempotent`.

**NotificationService** is `create`, one action per await: `CheckIdempotency`,
`LookupExisting`, `InsertRow`, `StoreIdempotency`, `Publish`, `PublishFallback`, plus
`Receive`, `CrashRequest` and `ExpireKey`. A request's `phase` is the await it stands
before, `id` the row it found or made. `createdUnsent` is a 201 after both publishes
were refused. **IdempotentCreate** is what this promises: keys are bound once and
answers come from the binding. The refinement mapping takes the row under a key as
its binding and the `id` of an answered request as its answer.

**NotificationWorker** is a consumer group over that log. `Fetch` is `eachMessage`, then
one action per await of `handleNotification`: `CheckRow`, `MarkProcessing`, `Send` (the
processor with the provider behind it), `MarkSent`, and after an error `SendToRetryQueue`,
`SendToDLQ`, `MarkFailed`. Around it: `Assign`, `AutoCommit`, `LoseSession` (the handler
runs on), `CrashWorker`, and `RegisterHandler`, because a process consumes before
`onModuleInit` of the worker has run. The consumer subscribes without `fromBeginning`: as
long as the group has committed nothing, `Assign` puts the new owner at the end of the
log, which `latest` remembers, and what is on the log by then is never read (section 5).
The history variables `sends`, `unrecorded`, `dropped` and `ignored` record what the
system itself forgets. **BacklogConsumption** runs it on its own, on a log to which the
records of a backlog come one after the other, before and after the group has started.

**AdminController** is `retryNotification` in its two calls. **NotificationPipeline**
puts API, workers and operator over one store. **Archival** is the archival loop, its
nightly job with the Redis key, the manual run and the cleanup job;
**RetentionSystem** adds the operator and the worker that finishes old rows.

**CircuitBreaker** is the class in `retry.service.ts`, with calls that overlap:
`Execute` lets a call in, `Succeed` and `Fail` are its return, in whatever state the
circuit is by then. **BreakerAutomaton** is the three-state automaton it implements.
The counters are capped at their thresholds, which no comparison can tell apart.

**RateLimiter** is both token-bucket guards. A check takes its time (`Arrive`), reads
(`Answered`), and writes (`Save`) or refuses; `FailOpen` is a Redis error. The bucket is
named by `user.id || user.sub`, and `JwtUser` has neither: all users share one bucket.
`admitted` counts the admissions by bucket, `unpaid` the admissions that wrote over another
update and those Redis did not keep, `latest` the latest time at which a bucket was
written.

**CacheService** has one action per Redis call of a read (`GetOrSet`, `Fetch`, `Store`),
a write and each kind of invalidation. A value is the version of the source it was read
from, so staleness is a comparison; `overtaken`, `late` and `behind` are the causes of it.
Two next-state relations, `KeyedNext` and `VersionedNext`, share no variable they change.

**AuthService** has an action on each side of the awaited hashing; tokens carry the
`sub` that was counted before it.

**ConversationMemory** is the conversational request and, in it, `addTurn`: read, extend,
write back. In Redis the reader holds a copy, in the fallback the stored object.

**ResponseCache**, **LLMService** and **AIRequests** are layers of one request: the cache
with its counters, up to three attempts with the class of each error, and above that
the retrieval, the spans, and the two books (`tracked` in memory, `stored` rows).
**AICostMonitor** is the hourly check of the day's cost, **AIAnalytics** the rows and the
dashboard with its separate queries, **CostTracking** the window of metrics.

**TextChunker** and **ContextAssembly** are pure algorithms: four ways to cut a template,
and filter, deduplication, ranking and fitting of search results. **Ordering** is what
both the search and the statistics take from JavaScript, stable sorting and filtering, as
orders of the places of an array. Where the code removes and picks in a loop
(`deduplicateResults`, `rankWithDiversity`) the model says which set or order the loop
ends with, as one of which each pick is the one the loop makes; that there is exactly such
an order is proved. A text is a sequence of pieces, each with its place, its length, what
it ends with and what stands between it and the next: a blank, a bar or a blank line.
`splitIntoSentences` ends a sentence at every full stop and every bar and puts a blank in
the place of what it cut at; a heading without a full stop is one sentence with what
follows it. The loops of the chunker are functions of how many sentences or paragraphs
were taken; a document is the set of its words; scores are integers out of `Scale`.
**Retrieval** is the search with its cache, in its five kinds, with the number of results
and the threshold a caller asks for, which are in the key next to the hash of the query,
and hands what it found to `AssembleContext`. `answered` is the search an answer is of.
**EmbeddingService** is a batch: cache reads, one request with retries, cache writes.
**VectorIndex** is the collection, with the callers that upload, delete, clean up and
change a status; an upload goes under the id in its body, if there is one. **Ingestion**
is `ingestBatch` over documents and `ingestAll`, which pages over a changing table in an
order that leaves open which of the rows with one `createdAt` comes first, for each page
anew. (The statuses archived and deleted of a point are one, as no operation tells them
apart.) **UserErasure** is `anonymizeUserData` against API, worker and archival, each row
reduced to the columns that still hold what the user sent.

Definitions called a *slip* in their comment (`InsertUnchecked`, `AutoCommitEarly`,
...) are deliberately wrong variants of the definition below them. No specification
uses them; each is put in place of the right one to see a property fail.

## 3. Runs

| run | states | what it shows |
|---|---|---|
| `progress` | 133 634 | breaker: counters fit the state; refinement of the automaton; a recovered provider is let back in (`Recovers`), a dead one is cut off (`Trips`); searches: the cache catches up with the index (`SearchesCatchUp`) |
| `service` | 21 160 | same key, same answer; Redis names existing rows; a row on no topic has its explanation; refinement of `IdempotentCreate` |
| `backlog` | 581 810 | once a group has started, no committed record is lost but in three named ways; `sentAt` is evidence; FAILED means kept; duplicates have a cause |
| `pipeline` | 152 248 | persist before publish end to end; the manual retry resets only settled rows; every acknowledged creation settles, unless the group started behind it |
| `retention` | 27 864 | moves are atomic, copies current, the archive final, and every run ends |
| `components` | 555 483 | the components around the pipeline, a few properties each (below) |
| `unregistered` | violation | finding 1 |
| `retries` | violation | finding 2 |
| `scheduled` | violation | finding 3 |
| `lock` | violation | finding 4 |
| `cleanup` | violation | finding 5 |
| `forgotten` | violation | finding 6 |

The components of the run `components` share no state with one another, so `MCComponents`
explores them one at a time: its variable `subject` is chosen at the start and only that
component takes steps, from all of its initial states. What the run shows of each:

* limiters, `AdmissionsAreFunded`: admissions are paid for by the first bucket and the
  refill; each admission that wrote over another check's update, or that Redis did not
  count, gives away its own token and at most one full bucket. (The factor is exact: with
  one bucket and without the token the property fails.)
* cache, `StaleEntryHasACause`, `TagReachesItsEntries`, `VersionHidesOldCopies`: an entry
  is older than its source only while a writer is on its way, after a fill that was
  overtaken, or after a call that failed unnoticed; a tagged entry stays within reach of
  its tag unless it was tagged during an invalidation; a raised version hides older
  copies, except the first one, which leads from version 1 to version 1.
* accounts, `AccountsAreKeptApart`: two registrations of an address may both succeed, but
  a token leads to the account it was issued for unless registrations overlapped.
* conversations, `TotalsMatchTurns`, `KeepsTheLatestTurns`.
* requests to the model, `RequestsAreAccountedFor`: the books agree with the provider's
  bill, spans end, attempts and outcomes are counted once.
* cost alerts, dashboard, statistics: `OneAlertPerCostlyDay`, `DashboardAddsUp`,
  `StatisticsAreSound`.
* chunking, search, context: `ChunksAreSound`, `AnswersAreExplained`, for every template,
  relevance and index of the instance, against declarative definitions of what a cut, an
  answer and a context should be. The chunks have every piece of the text in order; what
  `splitIntoSentences` cut at may be a blank in them, so that a bar is lost. An answer to
  several queries has the best score of each document. A caller's reranking is not limited
  in the code, so the scores it makes are not said to be between 0 and 1.
* embedding, index, ingestion, erasure: `AnswersStayInPlace`, `IndexIsExplained`,
  `IngestionAddsUp` (an undisturbed run loads each row once, but among rows with one
  `createdAt` it may take one for another), `ErasedUnlessWrittenSince`.

The run `progress` has two subjects in the same way, the breaker with the fairness of its
own specification and the searches with that of theirs. Of the searches it asks what
becomes of the cache in the long run: the key of an entry is a hash, nothing drops it when
templates come or go, and a search that asked the index before a change may store its
answer after it. Once the changes end, every cached answer is from some time on one that
the index would give now, for the number and the threshold of its key, to a query with its
hash; with a key that forgets the threshold it is not.

**Bounds.** `service`: three requests over two keys give the race of two on one key, a
late third one, and a second key that must not be mixed up with the first; three ids
let every request insert. `MaxCopies` is 2 (kafkajs may make 9 attempts per send): one
duplicate per send is what the properties distinguish, and `DuplicatesHaveACause`
counts copies rather than bounding them. `backlog`: two workers, two records and one
fault are enough for a takeover with the old handler still running; the records,
of two notifications or twice of one, come at any time, so that the group starts before,
between and behind them. `MaxFaults` 2 and
three records were tried in an earlier version without registration and passed;
now they exceed the time of a run, and the theorems below hold for any number.
`MaxRetries` is 5 as in the code; retry counts never rise above 1 because nothing
reads the retry topic. `pipeline`: a single notification, scheduled for later so that
`ComeDue` matters, two workers, one fault and one operator; what several notifications
do to one another is in `service` and `backlog`. `retention`: a nightly and a manual
run that share batches, an operator and a worker; batches of 2 (1000 in the code)
leave both the full and the partial batch, and a run reads again what became eligible
meanwhile. Three rows were checked too (562 880 states). `progress`: two callers, failure
threshold 3 and success threshold 2, so that a stale call can meet any counter value.

`components`: two actors of each kind, since every race here is between two; the things
they act on are two where mixing them up is a hazard (keys, e-mails, points, rows) and one
where it is not (the bucket all users share, a conversation). Buckets of one token,
refilled every second tick, with four ticks, reach the TTL, the rounding and every order
of two checks; three overlapping checks passed in a run of their own (553 690 states).
`MaxSource` 1 and `MaxRows` 3: a write and its reader, and three versions, as the first
two are one. Two turns and four tokens per conversation make both kinds of pruning happen
in three turns. The memory of metrics holds one, so that the second request evicts. A day
has two ticks, the last of which is its last second, which the query misses; there are two
days. Requests cost 2, a warning comes at 2 and an alert at 4, so that a day passes one
and the other. The window of statistics holds three of four requests. Chunk sizes of 3 to
8 tokens (100 to 800 in the code) against texts of up to four pieces of one to three
tokens that end in every way (full stop, bar, heading, paragraph), and a
subject. Three documents, two of them alike; two queries with one hash between them; one
threshold and one entry in the cache at a time (`MaxEntries`), and two of both in
`progress`, where one result is asked for; caches of two results; two relevances per query, one that spreads
the documents and one that ties two of them; rerankings above and below the scale. Lists
of up to three texts, two with one hash, in batches of two with two attempts (100 and 3 in
the code). Tables of up to three rows with two values of `createdAt` in pages of two,
batches of up to two documents of four kinds.

Four properties that earlier runs checked and theorems or other runs cover are no longer
listed with them: the type invariants of breaker and retention (both proved as part of
the inductive invariants), that of the pipeline, and its `CommittedIsSettled`, which the
run `backlog` checks on larger instances.

`CHECK_DEADLOCK FALSE` wherever the system may come to rest: all requests answered,
log consumed, runs done.

**Fairness.** Breaker: callers go on calling and calls return, time passes. Pipeline:
a request handler and a worker process that can take a step take one (the event loop
runs a continuation once its call returned; a process that crashed is started again),
separately for each request and worker; nothing is asked of clients, operators, faults
or key expiry. Retention: a started run goes on, and its transaction does not roll
back for ever (strong fairness of `MoveBatch`): the loop has no attempt limit, so
with a batch that always fails `RunsEnd` is false of the code. Search: Redis drops each
entry when its hour is over (weak fairness of `ExpireSearch`); nothing is asked of the
callers, whose searches may stay under way for ever.

## 4. Theorems

All are for every value of the constants, under the named ASSUMEs, which TLC evaluates
in the runs. They say that a null is none of the things it stands for (`NoId`, `NoRow`,
`NoKey`, `NoWorker`, `Absent`, `NoPoint`), that bounds and sizes are natural numbers and
batches not empty, that prices and token counts are natural numbers, that a warning comes
no later than an alert, that a bucket holds no more than two refills (both guards: one),
that users are finitely many and some cost is the greatest a request can have, and that
what `ingestBatch` is given are lists. In most cases the property alone is not inductive;
what follows names what has to be added.

**The API** (`NotificationService_proofs`). `ServiceInv` adds to the types that keys are
unique in the table, that a request that knows an id knows the row under its own key, and
what each phase says of `key` and `id`. It is the uniqueness of keys, kept by the guard of
`InsertRow`, that makes two answers agree: `AnswersAgree`, `CacheNamesRows`,
`ServiceTypes`. `ServiceKeepsPromise` maps `Receive` to `Ask`, the insert to `Bind`, an
answering step to `Answer`, the rest to stutters. For `RowsAreQueuedOrExplained`,
`QueueInv` adds that what is queued has a row, that a row has a request that made it, and
that the id of a request that was answered after an acknowledged send is queued.

**The workers** (`NotificationWorker_proofs`, `BacklogConsumption_proofs`). `WorkerInv` ties
the offsets together: the owner is done with all it has counted, has counted at least what
is committed, and its handler holds the next record; a worker about to mark a row FAILED
has its message kept, one about to mark it SENT has had it accepted; status SENT implies
`sentAt`. With that `CommittedRecordsAreSettled`, `SentAtIsEvidence` and
`FailedMessagesAreKept` hold across every takeover, because settling is monotone: no step
takes a message off a topic or unsets `sentAt`. `DuplicatesAreExplained` needs counts:
`DeliveryInv` says that sends, with the handlers about to send, are at most the copies on
the log times the faults so far, plus the copies handed out under the present assignment
(`DeliveriesAreCounted`); and that before the first fault only the owner handles anything,
what it is about to send is not recorded as sent, and what was sent is recorded, about to
be recorded, or known not to be (`NotOvertaken`). `SkipTestHolds` is
the action property that goes with it. The lemmas are stated for one step of the worker in
a log that may grow, so that the pipeline can cite them.

**The pipeline** (`NotificationPipeline_proofs`). `PipelineInv` is the conjunction of the two
above, with the facts that join them: what a worker handles has a row, and the row an
operator is about to reset is settled. Each side's lemma for its own steps is reused; what
is proved here is that the steps of one side keep the other side's invariant: the API only
appends to the log and creates rows, the workers and the operator only change the status
of rows there are. `PromisesCompose` states the result for seven properties of the parts;
`WorkHasRows`, `ResetsLoseNothing`, `RetriesDoNotResend` are about the composition itself,
and `PipelineKeepsPromise` is the refinement of `IdempotentCreate` once more, for the whole.

**Circuit breaker** (`AccessComponents_proofs`). `CountersAlwaysFit` from an inductive
invariant that bounds both counters and ties them to the state; `BreakerImplementsAutomaton`
by mapping every step to an automaton step or a stutter.

**Retention** (`RetentionSystem_proofs`). The reading a run holds is the row as it still is,
and completed, unless an operator asked for it (`ReadingsAreCurrent`). From it
`MovesAreAtomic`, `ArchivedRowsAreFinal` and `CopiesAreCurrent`.

**Services around it** (`AccessComponents_proofs`).

* `AdmissionsFunded`: `LimiterInv` says of each bucket that at every time to come what has
  been admitted and what the bucket will then hold are covered by the funds of that time.
  It is a statement about the future because a refill is computed from a time that may be
  long past, and the lemma it needs is that refilling in two steps, each rounded down,
  gives no more than one step. A dropped bucket comes back full: that its TTL is as long
  as a complete refill takes is where the assumption on its size is used.
* `AccountsApart`: a registration under way found no account of its e-mail among those it
  looked at; a login holds an account of its e-mail.
* `StaleEntriesAreCaused`, `TagsReachEntries`, `VersionsHideCopies`, together from
  `CacheInv`: whoever still owes the cache an update has the entry before it, not behind
  (`StaleIsCaused`); an invalidation by tag holds everything that had the tag when it
  listed it; each version is due to one write whose increment is over, so that nothing is
  stored under a version to come.
* `ErasureHolds`: a row an archival run holds is still in the table or already in the
  archive (`SnapshotsHaveRows`). Otherwise the run could bring back a row that an
  anonymisation has found in neither, as if nothing had been erased.
* `IngestionCounts`: while nobody changes the table, a run has loaded as many rows as its
  offset says, at each place one with the instant of the row there (`LoadedSoFar`): two
  orders by `createdAt` differ only among rows of one instant. For the counts of a batch,
  `BatchIsCounted`: what the cleaner drops of the valid documents is among the copies.

**AI part** (`AIComponents_proofs`).

* `AlertsOnce`: as long as no checks overlapped, the noted days go up and whatever was raised
  has been noted or is about to be.
* `LatestTurnsAreKept`, `TotalsAreRight`: the one addition under way holds what is stored,
  and stored conversations and the copies that are held are booked, that is, have the sum
  of their turns as total.
* `RequestsAccounted`: `AIInv` is the property with the types, with attempts that failed
  before the one under way on the balance. A step changes one request slot; the lemma
  `StepKeeps` says that the invariant is kept if books, spans and counters move by as much
  as that slot's share of them, and each action is then a calculation with one slot.
* `ReportsAgree`: each report read so far is about all rows of the period that were there
  when the dashboard was opened, and some of those stored since, so that it lies between
  the cost of the former and that cost plus the margin (`ReportsAreSound`); and the sums
  over the groups of a report add up to the sum over its rows (`SumOfClasses`).
* `StatisticsSound`: `TrackingInv` says that the memory holds the latest requests without a
  gap, each under its number, across every eviction. The rest is about the operators: in
  every order by a numeric key each place comes once and the keys go up, so that the entry
  at a share of the list has that share of the others on its side (`EntryAtShare`,
  `PercentileIsRight`), and the costs of the models are a sum over classes.

**Search** (`SearchComponents_proofs`).

* `AnswersInPlace`: `EmbeddingInv` says of each call that the places filled so far are those
  of finished batches and of the part of the present one that was looked up, that each
  answer at a place is one for the text there, and that what the cache has under a hash
  belongs to a text with that hash. `BatchesFollow` is the arithmetic of batches.
* `IndexExplained`: what was uploaded is in the collection or noted as removed; what a
  change of status holds is in the collection, or was taken from it, and once it is written
  back is noted in `revived` until it is uploaded again.
* `AnswersExplained`: `RetrievalInv` says that every list that is cached, asked for or found
  is ranked: each document once, the best first, and scores within the scale unless a caller's
  function reranked them; of several queries, the best score. One lemma for
  each kind of search (`NormalizedAreRanked`, `HybridIsRanked`, `RerankedIsRanked`,
  `MergedIsRanked`, `SimilarIsRanked`) carries this to the answer. That its context is
  explained holds for any ranked list (`ContextExplained`): deduplication keeps a first one
  of every family of look-alikes, the ranking is a permutation that starts with the best
  score (`RankingExists`, `RankedByDiversity`), and the context is its longest beginning
  that fits (`LongestThatFits`, since tokens only grow).

The sums over tokens, costs and rows are folds of the community modules, whose definition is a
recursive function. What is proved about them (that the sum exists, does not depend on the
order in which members are chosen, and changes by a member's value when one is added or
removed) goes by induction over the natural numbers, stated with a set instead of a
predicate (`Counting`), from the library's theorem that `<` is well-founded.

Only model-checked: liveness (`Recovers`, `Trips`, `CreatedSettles`, `RunsEnd`,
`SearchesCatchUp`), which the prover does not reach, and the chunks of a template
(`ChunksAreSound`). Every other invariant and every action property
of the passing runs is stated by a theorem.

## 5. Findings

1. **A starting process loses records** (`unregistered`). `KafkaModule` is global and
   its `onModuleInit` starts consuming before the worker registers its handler; what is
   read in between is logged by `defaultMessageHandler` and auto-committed.
2. **Retries do not happen** (`retries`). The consumer subscribes to `notifications`
   only; a message parked on `notifications-retry` stays there.
3. **Scheduled notifications go out at once** (`scheduled`). `create` publishes them
   like any other and the worker never looks at `scheduledFor`; the scheduler the demo
   script describes does not exist.
4. **The archival lock does not lock** (`lock`). `SETEX` answers OK on an existing key,
   and `finally` deletes whoever's key it is. The moves stay correct nevertheless
   (`MovesAreAtomic`): the lock protects only against double work.
5. **Cleanup deletes what archival is to keep** (`cleanup`): same hour, same rows.
6. **The erasure forgets a column** (`forgotten`). `create` stores the payload also in the
   deprecated column `content`; `anonymizeUserData` redacts subject, payload and metadata
   and leaves `content`. (The archive has no such column.)

Noticed while reading, without a run of its own: the documentation claims exactly-once
processing, the code auto-commits and resends after a crash (at-least-once, bounded by
`DuplicatesHaveACause`); `docs/SYSTEM_DESIGN.md` shows `idempotent: true`, which the
producer does not set; the second request under a key is told the first was processed
although it may never have been published; the manual retry answers "queued for retry"
and publishes nothing; the DTO accepts channel PUSH, which the processor cannot route;
webhook handlers look rows up by `metadata.messageId`, which no code writes; the admin
DLQ and retry views read Redis keys no code writes; `MAX_RETRIES` is 5 in the retry
service and 3 in the documentation.

A consumer group that has committed nothing starts at the end of the topic, because
`subscribe` is called without `fromBeginning`: what was published before the group first
started is never read, and a worker that dies over its first record, before the first
auto-commit, leaves it PROCESSING, since its successor starts behind it. `CommittedIsSettled`
and `CreatedSettles` except these records by name.

In the components around it:

* `splitIntoSentences` marks sentence ends with a bar and splits at every bar, also at those
  of the text, which are lost; and it splits behind abbreviations, although its comment says
  that they are preserved.
* `AdminGuard` asks for a role that `JwtStrategy.validate` does not return, so the admin
  and data-pipeline endpoints answer 403; an audit entry is written with `req.user.id`,
  which is undefined, and the failing insert is swallowed. The same missing `id` makes all
  users share one rate-limit bucket.
* A streamed answer counts the numbers of its chunks instead of its tokens.
* `retryable` is decided by numbers and words anywhere in an error message.
* Batch embedding returns an object whose `results` two callers index as if it were the
  array; a non-empty batch throws there (`document-ingestion.service.ts:327`).
* The API stores channel `EMAIL`, the validator expects `email`: nothing the API created
  is ingested; `ingestAll`, the cleanups of vectors and `updateVectorStatus` have no
  caller.
* `normalizeScores` stretches the worst of several results to 0, which context assembly
  then drops, however good it was; `findSimilar` with an explicit `topK` may answer one
  too few.
* `overlapPercentage` 0 makes `slice(-0)` keep everything; chunk numbers start again at 0
  within a long paragraph; the `startOffset` of a chunk of paragraphs moves on by the
  overlap and not by the text before it; an overlap not below the chunk size would not
  terminate.
* An upload answers with the random id also when it was stored under the id of its body.
* A caller's reranking function may take scores out of 0 to 1.
* The routes `templates/count` and `conversations/health` are shadowed by the
  parameterised routes declared before them.
* The last second of a day is in no daily cost; a dashboard may report a negative number
  of failures; search ignores the status of a point.

## 6. Not modelled

Formatting, logging, metrics, tracing and configuration; provider clients and webhooks,
which change no row (above); health counters of the worker and its shutdown drain (a
cut-off handler is a crash, which is modelled); `archiveOldEvents`, the same loop on
a table without a second writer; transactions, pause and resume of the Kafka
wrappers, which the pipeline does not use. The event order across partitions is not
modelled: the record key is the user, so all records of a notification share one.

Of the components around the pipeline: the options of a search no caller in the repository
uses (all keywords required, averaged or added scores, copies kept, the given template left
in); query expansion, prompt compression, the evaluation
of answers, HTML cleaning and quality scores (string rewriting and scoring without state);
exports and the read-only reports that repeat a modelled query; the audit log, whose one
caller passes an undefined user; job monitoring, whose numbers nothing reads; session
cleanup and cache warming, whose tables and keys have no other user. Time of Redis and of
the services is one clock. A failing Redis call in the cache leaves Redis as it was.

## 7. Plan

Done: the pipeline with its stores, breaker and retention, the components around it, and
theorems about the safety properties the runs check, but for the chunker. What the proofs
do not reach is liveness; what the models leave out is in section 6.
