------------------------------ MODULE Retrieval ------------------------------
(***************************************************************************)
(* RetrievalService over the vector index: search through a cache of an    *)
(* hour, and the searches built on it: hybrid, expanded, reranked, with    *)
(* several queries, and for templates like a given one.  Templates are     *)
(* indexed and removed meanwhile.  The answer goes into the prompt.  (The  *)
(* options that average scores, ask for every keyword, or leave copies and *)
(* the given template in are left out.)                                    *)
(***************************************************************************)
EXTENDS ContextAssembly, SequencesExt

CONSTANTS Queries,          \* query texts with their filter; an expanded query is
                            \* a query of its own, and so is a template's content
          Relevances,       \* how near a document may be to a query
          HashOf,           \* simpleHash: per query, a number of 32 bits
          TopK,             \* topK of a caller: 10 by default
          MaxCached,        \* maxCachedResults: 50
          Thresholds,       \* scoreThreshold of a caller: 0.65, 0.7 or another
          Keyworded,        \* documents with the keyword of a hybrid search
          Boost,            \* keywordBoost, of Scale: 1.2
          Rerankings,       \* rerankingFunction of a caller, of Scale: any number
          MaxChanges,       \* bound: changes of the index
          MaxEntries        \* bound: answers cached at a time

ASSUME RetrievalAssumption ==
    /\ Relevances \subseteq [Queries -> [Documents -> Int]]
    /\ TopK \in Nat \ {0} /\ MaxCached \in Nat /\ Boost \in Nat
    /\ Thresholds \subseteq Int /\ Rerankings \subseteq [Documents -> Int]

NoResults == <<[id |-> "none", score |-> -1]>>

VARIABLES relevance,    \* of each document to each query; never changes
          index,        \* the documents Qdrant has
          searchCache,  \* per cache key: the cached results, or NoResults
          search,       \* the caller: its kind, and per query where the search stands
          found,        \* the results, once all its searches are back
          answered,     \* history: the search that found answers
          changes       \* history: changes of the index

retrievalVars == <<relevance, index, searchCache, search, found, answered, changes>>

CacheKeysOf == {<<HashOf[q], k, t>> : q \in Queries, k \in {TopK, TopK + 1, 3 * TopK},
                                      t \in Thresholds}
NoSearch == [kind |-> "none"]

RetrievalInit ==
    /\ relevance \in Relevances
    /\ index = Documents
    /\ searchCache = [key \in CacheKeysOf |-> NoResults]
    /\ search = NoSearch
    /\ found = << >> /\ answered = NoSearch
    /\ changes = 0

First(results, n) == SubSeq(results, 1, IF n < Len(results) THEN n ELSE Len(results))

\* QdrantService.search: the nearest topK over the threshold.
QdrantSearch(q, k, threshold) ==
    LET near == {d \in index : relevance[q][d] >= threshold}
    IN  First(ByScore(SetToSeq({[id |-> d, score |-> relevance[q][d]] : d \in near})), k)

\* normalizeScores stretches the scores over 0 .. 1: the worst of several results
\* gets 0, however good it is, and a single one gets 1.
NormalizeScores(results) ==
    LET scores == {results[i].score : i \in DOMAIN results}
        low == CHOOSE s \in scores : \A t \in scores : s <= t
        range == (CHOOSE s \in scores : \A t \in scores : t <= s) - low
    IN  [i \in DOMAIN results |-> [results[i] EXCEPT !.score =
            IF range = 0 THEN Scale ELSE ((@ - low) * Scale) \div range]]

Fresh(q, k, threshold) == NormalizeScores(QdrantSearch(q, k, threshold))
\* A slip: the threshold is not part of the key.
SearchCacheKeyOfQuery(q, k, threshold) == <<HashOf[q], k, CHOOSE t \in Thresholds : TRUE>>
\* getSearchCacheKey: queries whose hashes collide share their entries.
SearchCacheKey(q, k, threshold) == <<HashOf[q], k, threshold>>

\* A caller starts: with one query, or multiQuerySearch with several at a time.
\* searchWithReranking asks for three times as many results; findSimilar takes
\* the content of a template that must be there, and by default asks for one
\* result more.
Asks(kind) ==
    CASE kind = "reranked" -> {3 * TopK} [] kind = "similar" -> {TopK, TopK + 1} [] OTHER -> {TopK}
StartSearch(kind, queries, original) ==
    /\ search = NoSearch
    /\ kind = "multi" \/ Cardinality(queries) = 1
    /\ IF kind = "similar" THEN original \in index ELSE original = "none"
    /\ \E k \in Asks(kind), threshold \in Thresholds :
            search' = [kind |-> kind, original |-> original, topK |-> k, threshold |-> threshold,
                       asked |-> [q \in queries |-> NoResults],
                       results |-> [q \in queries |-> NoResults]]
    /\ found' = << >> /\ answered' = NoSearch
    /\ UNCHANGED <<relevance, index, searchCache, changes>>

\* search: a cached answer, whoever stored it under the key, or the embedding and
\* the index, and then the cache.  When the cache fails it is a miss, and nothing
\* is stored.
Searching(q) == search # NoSearch /\ q \in DOMAIN search.results /\ search.results[q] = NoResults
SearchCached(q) ==
    LET cached == searchCache[SearchCacheKey(q, search.topK, search.threshold)]
    IN  /\ Searching(q) /\ search.asked[q] = NoResults /\ cached # NoResults
        /\ search' = [search EXCEPT !.results[q] = cached]
        /\ UNCHANGED <<relevance, index, searchCache, found, answered, changes>>
SearchIndex(q) ==
    /\ Searching(q) /\ search.asked[q] = NoResults
    /\ search' = [search EXCEPT !.asked[q] = Fresh(q, search.topK, search.threshold)]
    /\ UNCHANGED <<relevance, index, searchCache, found, answered, changes>>
KeepSearch(q) ==
    LET key == SearchCacheKey(q, search.topK, search.threshold)
        results == search.asked[q]
    IN  /\ Searching(q) /\ results # NoResults
        /\ \/ /\ Cardinality({k \in CacheKeysOf \ {key} : searchCache[k] # NoResults}) < MaxEntries
              /\ searchCache' = [searchCache EXCEPT ![key] = First(results, MaxCached)]
           \/ UNCHANGED searchCache
        /\ search' = [search EXCEPT !.results[q] = results]
        /\ UNCHANGED <<relevance, index, found, answered, changes>>

\* hybridSearch: a keyword in the content or a tag raises the score, to 1 at most.
Hybrid(results) ==
    ByScore([i \in DOMAIN results |-> [results[i] EXCEPT !.score =
        IF results[i].id \notin Keyworded THEN @
        ELSE IF @ * Boost < Scale * Scale THEN (@ * Boost) \div Scale ELSE Scale]])
\* searchWithReranking: the score and the caller's own, six to four, and a cut.
\* Nothing limits the caller's, nor what comes of it.
Reranked(results, custom) ==
    First(ByScore([i \in DOMAIN results |-> [results[i] EXCEPT !.score =
        (6 * @ + 4 * custom[results[i].id]) \div 10]]), TopK)
\* A slip: a document found twice keeps the lower of its scores.
MergedWithLowest(results) ==
    LET all == UNION {ToSet(results[q]) : q \in DOMAIN results}
        worst == {r \in all : \A s \in all : s.id = r.id => s.score >= r.score}
    IN  ByScore(SetToSeq(worst))
\* multiQuerySearch: each document once, where two queries found it with the
\* higher of the scores (mergeStrategy max).
Merged(results) ==
    LET all == UNION {ToSet(results[q]) : q \in DOMAIN results}
        best == {r \in all : \A s \in all : s.id = r.id => s.score <= r.score}
    IN  ByScore(SetToSeq(best))
\* findSimilar: the template itself is left out of what was found.
Similar(results, original) ==
    First(Filtered(results, {i \in DOMAIN results : results[i].id # original}), TopK)

AnswerSearch ==
    /\ search # NoSearch /\ \A q \in DOMAIN search.results : search.results[q] # NoResults
    /\ LET only == search.results[CHOOSE q \in DOMAIN search.results : TRUE]
       IN  \/ search.kind = "plain" /\ found' = only
           \/ search.kind = "hybrid" /\ found' = Hybrid(only)
           \/ search.kind = "reranked" /\ \E custom \in Rerankings : found' = Reranked(only, custom)
           \/ search.kind = "multi" /\ found' = Merged(search.results)
           \/ search.kind = "similar" /\ found' = Similar(only, search.original)
    /\ search' = NoSearch /\ answered' = search
    /\ UNCHANGED <<relevance, index, searchCache, changes>>
SearchFails ==
    /\ search # NoSearch
    /\ search' = NoSearch
    /\ UNCHANGED <<relevance, index, searchCache, found, answered, changes>>

\* A template is indexed or removed: no cached result is dropped for it.  An
\* entry is dropped after an hour.
ChangeIndex(d) ==
    /\ changes < MaxChanges
    /\ index' = IF d \in index THEN index \ {d} ELSE index \cup {d}
    /\ changes' = changes + 1
    /\ UNCHANGED <<relevance, searchCache, search, found, answered>>
ExpireSearch(key) ==
    /\ searchCache[key] # NoResults
    /\ searchCache' = [searchCache EXCEPT ![key] = NoResults]
    /\ UNCHANGED <<relevance, index, search, found, answered, changes>>

RetrievalNext ==
    \/ \E kind \in {"plain", "hybrid", "reranked", "multi", "similar"},
          queries \in (SUBSET Queries) \ {{}}, d \in Documents \cup {"none"} :
            StartSearch(kind, queries, d)
    \/ \E q \in Queries : SearchCached(q) \/ SearchIndex(q) \/ KeepSearch(q)
    \/ AnswerSearch \/ SearchFails
    \/ \E d \in Documents : ChangeIndex(d)
    \/ \E key \in CacheKeysOf : ExpireSearch(key)
RetrievalSpec == RetrievalInit /\ [][RetrievalNext]_retrievalVars

\* Redis drops an entry when its hour is over, whatever else happens.
RetrievalFairness == \A key \in CacheKeysOf : WF_retrievalVars(ExpireSearch(key))
FairRetrieval == RetrievalSpec /\ RetrievalFairness

-----------------------------------------------------------------------------
\* A cached answer is one the index would give now: to some query with the hash,
\* for the number of results and the threshold of the key.
Current(key) ==
    \E q \in Queries : /\ HashOf[q] = key[1]
                       /\ searchCache[key] = First(Fresh(q, key[2], key[3]), MaxCached)

\* Once templates stop coming and going, the cache catches up: nothing tells it of
\* a change, and a search that had asked the index before may store its answer
\* after, but from some time on every cached answer is current.
SearchesCatchUp ==
    <>[][UNCHANGED index]_retrievalVars =>
        <>[](\A key \in CacheKeysOf : searchCache[key] # NoResults => Current(key))

\* Every kind of search answers each document once, the best first, with scores
\* from 0 to 1 where no caller's function has changed them; and an answer to
\* several queries has every document that one of them found, with the best
\* score it got.
AnswersAreRanked ==
    /\ \A i, j \in DOMAIN found : i < j =>
            found[i].score >= found[j].score /\ found[i].id # found[j].id
    /\ answered.kind # "reranked" => \A i \in DOMAIN found : found[i].score \in 0 .. Scale
    /\ answered.kind = "multi" =>
         \A q \in DOMAIN answered.results : \A r \in ToSet(answered.results[q]) :
            \E i \in DOMAIN found : /\ found[i].id = r.id /\ found[i].score >= r.score
                                    /\ \E p \in DOMAIN answered.results :
                                         found[i] \in ToSet(answered.results[p])

\* The context made of an answer is within its budget, has no template twice, and
\* has every result for which there is no reason to leave it out.  One such
\* reason is the stretching of the scores: of two good results the worse one is
\* below the minimum.
ContextsAreExplained == ContextIsExplained(found, AssembleContext(found))

\* What a search answers, and what the prompt gets of it.
AnswersAreExplained == AnswersAreRanked /\ ContextsAreExplained
=============================================================================
