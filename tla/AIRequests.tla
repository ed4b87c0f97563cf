----------------------------- MODULE AIRequests -----------------------------
(***************************************************************************)
(* The requests that spend money on the model: AIController's              *)
(* generate-notification, which runs RAGGenerationService and books the    *)
(* cost in memory and in the database, its completion endpoint, which      *)
(* books in memory, and RAGController's endpoints, which book nothing.     *)
(***************************************************************************)
EXTENDS LLMService, Sequences, SequencesExt

CONSTANTS MaxMetrics,   \* maxMetricsInMemory: 10000
          MaxRequests   \* bound: requests

ASSUME RequestsAssumption == MaxMetrics \in Nat \ {0} /\ MaxRequests \in Nat

VARIABLES started,      \* history: requests that came in
          tracked,      \* CostTrackingService.metrics
          stored,       \* the AIInteraction rows
          openSpans,    \* spans started and not ended: per kind, how many
          spent,        \* history: what the provider charged, per kind of request
          lost          \* history: cost dropped from memory, cost of rows that could
                        \* not be stored, and retrievals that failed

aiVars == <<llmVars, started, tracked, stored, openSpans, spent, lost>>
books == <<tracked, stored, lost>>
NewRequest == [phase |-> "idle", kind |-> "none"]

AIInit ==
    /\ LLMInit
    /\ started = 0
    /\ tracked = << >> /\ stored = << >>
    /\ openSpans = [rag |-> 0, retrieval |-> 0, llm |-> 0]
    /\ spent = [notification |-> 0, completion |-> 0, rag |-> 0]
    /\ lost = [evicted |-> 0, unstored |-> 0, retrievals |-> 0]

UsesRetrieval(kind) == kind \in {"notification", "rag"}
Span(changes) == openSpans' = [s \in DOMAIN openSpans |->
    openSpans[s] + IF s \in DOMAIN changes THEN changes[s] ELSE 0]
RagSpan(r, change) == IF UsesRetrieval(request[r].kind) THEN change ELSE 0

\* A request comes in: RAGGenerationService.generate opens its span and that of
\* the retrieval, a completion goes straight to the model.
ReceiveRequest(r, kind, prompt, settings) ==
    /\ Stage(r, "idle") /\ started < MaxRequests
    /\ started' = started + 1
    /\ Update(r, [phase |-> IF UsesRetrieval(kind) THEN "retrieve" ELSE "lookup", kind |-> kind,
                  prompt |-> prompt, settings |-> settings, attempt |-> 0, answer |-> NoAnswer])
    /\ IF UsesRetrieval(kind) THEN Span([rag |-> 1, retrieval |-> 1]) ELSE UNCHANGED openSpans
    /\ UNCHANGED <<responseCacheVars, metrics, attempts, spent, books>>

\* Templates are retrieved and put together.  When the retrieval fails its span
\* stays open: only generate's own is ended.
Retrieve(r) ==
    /\ Stage(r, "retrieve")
    /\ \/ /\ Update(r, [request[r] EXCEPT !.phase = "lookup"])
          /\ Span([retrieval |-> -1]) /\ UNCHANGED lost
       \/ /\ Update(r, [request[r] EXCEPT !.phase = "failed"])
          /\ Span([rag |-> -1])
          /\ lost' = [lost EXCEPT !.retrievals = @ + 1]
    /\ UNCHANGED <<responseCacheVars, metrics, attempts, started, tracked, stored, spent>>

\* generateCompletion, with its span around the attempts.  The RAG span ends
\* with the answer or the error.
Generate(r) ==
    /\ GenerateCompletion(r)
    /\ LET before == request[r].phase
           after == request'[r].phase
       IN  Span([llm |-> (IF after = "attempt" THEN 1 ELSE 0)
                             - (IF before = "attempt" THEN 1 ELSE 0),
                 rag |-> RagSpan(r, IF after \in {"answered", "failed"} THEN -1 ELSE 0)])
    /\ spent' = IF Stage(r, "attempt") /\ request'[r].phase = "keep"
                THEN [spent EXCEPT ![request[r].kind] = @ + request'[r].answer.cost] ELSE spent
    /\ UNCHANGED <<started, books>>

Finished(r) == request[r].phase \in {"answered", "failed"}
Cost(r) == IF Stage(r, "failed") THEN 0 ELSE request[r].answer.cost
SumCosts(entries) == FoldSeq(LAMBDA e, sum : e + sum, 0, entries)

\* trackRequest, on success and on failure: the oldest metric leaves when there
\* are too many.  The answer of a completion goes out now, a notification's is
\* stored first.
TrackRequest(r) ==
    LET longer == Append(tracked, Cost(r))
        excess == Len(longer) > MaxMetrics
    IN  /\ Finished(r) /\ request[r].kind # "rag"
        /\ tracked' = IF excess THEN Tail(longer) ELSE longer
        /\ lost' = [lost EXCEPT !.evicted = @ + IF excess THEN Head(longer) ELSE 0]
        /\ Update(r, IF request[r].kind = "notification"
                     THEN [request[r] EXCEPT !.phase = "store", !.answer = [cost |-> Cost(r)]]
                     ELSE NewRequest)
        /\ UNCHANGED <<responseCacheVars, metrics, attempts, started, stored, openSpans, spent>>

\* storeInteraction: a database error is logged and swallowed.
StoreInteraction(r) ==
    /\ Stage(r, "store")
    /\ \/ stored' = Append(stored, request[r].answer.cost) /\ UNCHANGED lost
       \/ lost' = [lost EXCEPT !.unstored = @ + request[r].answer.cost] /\ UNCHANGED stored
    /\ Update(r, NewRequest)
    /\ UNCHANGED <<responseCacheVars, metrics, attempts, started, tracked, openSpans, spent>>

\* RAGController's endpoints answer and book nothing.
AnswerUntracked(r) ==
    /\ Finished(r) /\ request[r].kind = "rag"
    /\ Update(r, NewRequest)
    /\ UNCHANGED <<responseCacheVars, metrics, attempts, started, openSpans, spent, books>>

RequestStep(r) ==
    \/ \E kind \in DOMAIN spent, p \in Prompts, s \in Settings : ReceiveRequest(r, kind, p, s)
    \/ Retrieve(r) \/ Generate(r) \/ TrackRequest(r) \/ StoreInteraction(r) \/ AnswerUntracked(r)
AINext ==
    \/ \E r \in Prompters : RequestStep(r)
    \/ CacheMaintenance /\ UNCHANGED <<started, openSpans, spent, books>>
AISpec == AIInit /\ [][AINext]_aiVars

-----------------------------------------------------------------------------
Pending(kind, phases) ==
    LET waiting == {r \in Prompters : request[r].phase \in phases /\ request[r].kind = kind}
    IN  FoldFunctionOnSet(+, 0,
            [r \in Prompters |-> IF r \in waiting THEN Cost(r) ELSE 0], waiting)
Unbooked == {"keep", "answered"}

\* The books agree with the provider's bill: what notifications and completions
\* spent is in memory or on its way there, except what was dropped from a full
\* memory; what notifications spent is in the database or on its way, except for
\* rows that could not be stored.  A cached answer and a retried error cost
\* nothing, no answer is paid for twice, and none is booked twice.
SpendIsAccountedFor ==
    /\ spent.notification + spent.completion =
         SumCosts(tracked) + lost.evicted
            + Pending("notification", Unbooked) + Pending("completion", Unbooked)
    /\ spent.notification =
         SumCosts(stored) + lost.unstored + Pending("notification", Unbooked \cup {"store"})

\* Spans end with their calls, whichever way a call ends, but for the retrieval
\* spans of failed retrievals.
EverySpanEnds ==
    LET Running(phases) == Cardinality({r \in Prompters : request[r].phase \in phases})
        RunningRag(phases) == Cardinality({r \in Prompters :
            request[r].phase \in phases /\ UsesRetrieval(request[r].kind)})
    IN  /\ openSpans.llm = Running({"attempt"})
        /\ openSpans.rag = RunningRag({"retrieve", "lookup", "attempt", "keep"})
        /\ openSpans.retrieval = Running({"retrieve"}) + lost.retrievals

\* The metrics agree with what happened at the provider: every failed attempt is
\* one error, every answer one success, and a request that ends without an answer
\* is one failure however many attempts it made.
EveryCallIsCountedOnce ==
    /\ metrics.success = attempts.answered
    /\ metrics.errors = attempts.failed
    /\ metrics.error + lost.retrievals + metrics.success
        + Cardinality({r \in Prompters : request[r].phase \in {"retrieve", "lookup", "attempt"}})
        <= started
    /\ metrics.errors <= MaxAttempts * (metrics.error + metrics.success
        + Cardinality({r \in Prompters : Stage(r, "attempt")}))

\* The accounts of the requests to the model are right: money, spans, metrics.
RequestsAreAccountedFor == SpendIsAccountedFor /\ EverySpanEnds /\ EveryCallIsCountedOnce
=============================================================================
