----------------------------- MODULE LLMService -----------------------------
(***************************************************************************)
(* LLMService.generateCompletion: the response cache, then at most three   *)
(* attempts at the provider, each error sorted into a class that decides   *)
(* about the next attempt, then the cache again.  Metrics go to the        *)
(* observability service.                                                  *)
(***************************************************************************)
EXTENDS ResponseCache

CONSTANTS Prompters,    \* request slots, each used again and again
          Usages,       \* token usages of an answer: [input, output]
          Errors        \* what errors of the provider match, see HandleError

ASSUME UsageAssumption == Usages \subseteq [input : Nat, output : Nat]

MaxAttempts == 3        \* maxRetries

VARIABLES request,      \* per slot: its request
          metrics,      \* requests recorded per status, and errors
          attempts      \* history: calls of the provider, answered and failed

llmVars == <<responseCacheVars, request, metrics, attempts>>

LLMInit ==
    /\ ResponseCacheInit
    /\ request = [r \in Prompters |-> [phase |-> "idle"]]
    /\ metrics = [success |-> 0, error |-> 0, errors |-> 0]
    /\ attempts = [answered |-> 0, failed |-> 0]

CalculateCost(usage) == 3 * usage.input + 15 * usage.output   \* per million
Stage(r, phase) == request[r].phase = phase
Update(r, new) == request' = [request EXCEPT ![r] = new]

\* An answer carries what it cost to make, which is nothing when it is cached.
Answer(r, usage) ==
    [prompt |-> request[r].prompt, settings |-> request[r].settings,
     tokens |-> usage.input + usage.output, cost |-> CalculateCost(usage)]

\* A slip: a cached answer keeps its price.
LookupAtFullPrice(r) ==
    /\ Stage(r, "lookup")
    /\ \E found \in {answers[<<request[r].prompt, request[r].settings>>], NoAnswer} :
        /\ GetCached(request[r].prompt, request[r].settings, found)
        /\ Update(r, IF found # NoAnswer
                     THEN [request[r] EXCEPT !.phase = "answered", !.answer = found]
                     ELSE [request[r] EXCEPT !.phase = "attempt", !.attempt = 1])
    /\ UNCHANGED <<metrics, attempts>>

\* The cache is asked first; a hit ends the request.
Lookup(r) ==
    /\ Stage(r, "lookup")
    /\ \E found \in {answers[<<request[r].prompt, request[r].settings>>], NoAnswer} :
        /\ GetCached(request[r].prompt, request[r].settings, found)
        /\ Update(r, IF found # NoAnswer
                     THEN [request[r] EXCEPT !.phase = "answered",
                                             !.answer = [found EXCEPT !.cost = 0]]
                     ELSE [request[r] EXCEPT !.phase = "attempt", !.attempt = 1])
    /\ UNCHANGED <<metrics, attempts>>

\* The provider answers.
Succeed(r) ==
    /\ Stage(r, "attempt")
    /\ \E usage \in Usages : Update(r,
            [request[r] EXCEPT !.phase = "keep", !.answer = Answer(r, usage)])
    /\ metrics' = [metrics EXCEPT !.success = @ + 1]
    /\ attempts' = [attempts EXCEPT !.answered = @ + 1]
    /\ UNCHANGED responseCacheVars

\* An error has the first class it matches, in this order: by its status, or by
\* a number or a word anywhere in its message, so it may match several.
Classes == <<"rate_limit", "server", "timeout", "network", "auth", "invalid">>
HandleError(error) ==
    LET matched == {i \in DOMAIN Classes : Classes[i] \in error}
    IN  IF matched = {} THEN "unknown"
        ELSE Classes[CHOOSE i \in matched : \A j \in matched : i <= j]
Retryable(class, attempt) ==
    \/ class \in {"rate_limit", "server", "timeout", "network"}
    \/ class = "unknown" /\ attempt < 2

\* An attempt fails: the request ends, or the next attempt follows after a pause.
Fail(r) ==
    /\ Stage(r, "attempt")
    /\ \E error \in Errors :
        LET attempt == request[r].attempt
            again == Retryable(HandleError(error), attempt) /\ attempt < MaxAttempts
        IN  /\ Update(r, IF again THEN [request[r] EXCEPT !.attempt = @ + 1]
                         ELSE [request[r] EXCEPT !.phase = "failed"])
            /\ metrics' = [metrics EXCEPT !.errors = @ + 1, !.error = IF again THEN @ ELSE @ + 1]
    /\ attempts' = [attempts EXCEPT !.failed = @ + 1]
    /\ UNCHANGED responseCacheVars

\* The answer is cached before it is returned.
Keep(r) ==
    /\ Stage(r, "keep")
    /\ SetCached(request[r].prompt, request[r].settings, request[r].answer)
    /\ Update(r, [request[r] EXCEPT !.phase = "answered"])
    /\ UNCHANGED <<metrics, attempts>>

GenerateCompletion(r) == Lookup(r) \/ Succeed(r) \/ Fail(r) \/ Keep(r)
CacheMaintenance ==
    /\ (\E k \in CacheKeys : InvalidateCached(k)) \/ ClearAll \/ Reconnects
    /\ UNCHANGED <<request, metrics, attempts>>
=============================================================================
