---------------------------- MODULE ResponseCache ----------------------------
(***************************************************************************)
(* ResponseCacheService: answers of the model in Redis for a day, under a  *)
(* hash of the prompt, trimmed and in lower case, and of the settings.     *)
(* Every Redis error is counted and swallowed.                             *)
(***************************************************************************)
EXTENDS Naturals, FiniteSets

CONSTANTS Prompts,      \* system and user prompt joined, trimmed, in lower case:
                        \* prompts that differ in nothing else are one here
          Settings,     \* temperature and maxTokens of a request
          NoAnswer

VARIABLES up,         \* isConnected
          answers,    \* per key: the cached answer
          stats       \* cacheHits, cacheMisses, cacheErrors

responseCacheVars == <<up, answers, stats>>

CacheKeys == Prompts \X Settings

ResponseCacheInit ==
    /\ up \in BOOLEAN
    /\ answers = [k \in CacheKeys |-> NoAnswer]
    /\ stats = [hits |-> 0, misses |-> 0, errors |-> 0]

Count(what) == stats' = [stats EXCEPT ![what] = @ + 1]

\* get: found is the answer, or NoAnswer on a miss, on an error and when the
\* service has no connection.
GetCached(prompt, settings, found) ==
    LET cached == answers[<<prompt, settings>>]
    IN  /\ \/ ~up /\ found = NoAnswer /\ UNCHANGED stats
           \/ /\ up
              /\ \/ cached # NoAnswer /\ found = cached /\ Count("hits")
                 \/ cached = NoAnswer /\ found = NoAnswer /\ Count("misses")
                 \/ found = NoAnswer /\ Count("errors")
        /\ UNCHANGED <<up, answers>>

\* set: the answer replaces the one that is there.
SetCached(prompt, settings, answer) ==
    /\ \/ ~up /\ UNCHANGED <<answers, stats>>
       \/ /\ up
          /\ answers' = [answers EXCEPT ![<<prompt, settings>>] = answer]
          /\ UNCHANGED stats
       \/ up /\ Count("errors") /\ UNCHANGED answers
    /\ UNCHANGED up

\* invalidate and the end of an entry's day.
InvalidateCached(key) ==
    /\ answers[key] # NoAnswer
    /\ answers' = [answers EXCEPT ![key] = NoAnswer]
    /\ UNCHANGED <<up, stats>>

\* clearAll scans for all the keys of the service and deletes them together.
ClearAll ==
    /\ up
    /\ answers' = [k \in CacheKeys |-> NoAnswer]
    /\ UNCHANGED <<up, stats>>

\* resetStats.
ResetStats ==
    /\ stats' = [hits |-> 0, misses |-> 0, errors |-> 0]
    /\ UNCHANGED <<up, answers>>

\* getCacheSize, and what getStats and getCostSavings make of the counters.
CacheSize == IF up THEN Cardinality({k \in CacheKeys : answers[k] # NoAnswer}) ELSE 0
HitPercent ==
    LET total == stats.hits + stats.misses
    IN  IF total = 0 THEN 0 ELSE (100 * stats.hits) \div total

\* The connection breaks and comes back.
Reconnects == up' = ~up /\ UNCHANGED <<answers, stats>>
=============================================================================
