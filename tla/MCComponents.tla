---------------------------- MODULE MCComponents ----------------------------
(* The components around the notification pipeline share no state with one  *)
(* another, so one model explores them one at a time: `subject` is chosen   *)
(* at the start, and only the chosen component takes steps.  The actors of  *)
(* all components are the same two model values, and so are the things they *)
(* act on.                                                                  *)
EXTENDS RateLimiter, CacheService, AuthService, ConversationMemory, AIRequests,
        AICostMonitor, AIAnalytics, CostTracking, MCChunker, MCRetrieval,
        EmbeddingService, VectorIndex, Ingestion, UserErasure, TLC

CONSTANTS Subjects, Actors, Things

VARIABLE subject

\* The components, in four groups.
frontVars == <<limiterVars, cacheVars, authVars, memoryVars>>
costVars == <<aiVars, monitorVars, analyticsVars, trackingVars>>
textVars == <<chunkerVars, retrievalVars, embeddingVars>>
storeVars == <<indexVars, ingestVars, erasureVars>>
componentVars == <<subject, frontVars, costVars, textVars, storeVars>>

-----------------------------------------------------------------------------
\* Data of the instances.
OneUsage == {[input |-> 1, output |-> 1]}
ErrorSets == {{}, {"auth"}, {"auth", "timeout"}}

\* Texts to embed: "a" and "b" have the same hash.
SmallLists == {<<>>, <<"a">>, <<"c", "a", "b">>}
SharedHashes == [t \in {"a", "b", "c"} |-> IF t = "c" THEN 2 ELSE 1]

\* Notifications to ingest: as the API stores them, as the seed does, and as the
\* extractor and the validator expect them.
TextOf(length, trimmed, same) == [length |-> length, trimmed |-> trimmed, same |-> same]
Document(channel, typed, fields) == [channel |-> channel, typed |-> typed, fields |-> fields]
FromApi == Document("EMAIL", TRUE, [column |-> TextOf(20, 20, 1)])
Seeded == Document("sms", FALSE, [column |-> TextOf(30, 30, 2)])
WithoutText == Document("sms", TRUE, [subject |-> TextOf(30, 30, 2)])
Complete == Document("email", TRUE, [html |-> TextOf(40, 35, 1), subject |-> TextOf(3, 3, 3)])
TooShort == Document("webhook", TRUE, [json |-> TextOf(9, 9, 3)])
SmallTable == {FromApi, Seeded}
SmallGiven == UNION {[1 .. n -> {FromApi, WithoutText, Complete, TooShort}] : n \in 1 .. 2}

-----------------------------------------------------------------------------
Is(name) == subject = name

\* A component that takes no step has one initial state.
Init ==
    /\ subject \in Subjects
    /\ LimiterInit /\ (Is("limiter") \/ guard = "global")
    /\ CacheInit /\ AuthInit /\ MonitorInit /\ AnalyticsInit /\ TrackingInit
    /\ MemoryInit /\ (Is("memory") \/ storage = "memory")
    /\ AIInit /\ (Is("requests") \/ up)
    /\ EmbeddingInit /\ IndexInit /\ ErasureInit
    /\ IF Is("retrieval") THEN RetrievalInit
       ELSE RetrievalInit /\ relevance = CHOOSE r \in SmallRelevances : TRUE
    /\ IF Is("ingestion") THEN IngestInit ELSE IngestInit /\ sent = << >>
    /\ IF Is("chunker") THEN ChunkerInit
       ELSE /\ template = CHOOSE t \in SmallTemplates : TRUE
            /\ wanted = "none" /\ chunks = << >>

FrontNext ==
    /\ \/ /\ Is("limiter") /\ LimiterNext
          /\ UNCHANGED <<cacheVars, authVars, memoryVars>>
       \/ /\ \/ Is("keyed") /\ KeyedNext
             \/ Is("versioned") /\ VersionedNext
          /\ UNCHANGED <<limiterVars, authVars, memoryVars>>
       \/ /\ Is("auth") /\ AuthNext
          /\ UNCHANGED <<limiterVars, cacheVars, memoryVars>>
       \/ /\ Is("memory") /\ MemoryNext
          /\ UNCHANGED <<limiterVars, cacheVars, authVars>>
    /\ UNCHANGED <<subject, costVars, textVars, storeVars>>

CostNext ==
    /\ \/ /\ Is("requests") /\ AINext
          /\ UNCHANGED <<monitorVars, analyticsVars, trackingVars>>
       \/ /\ Is("monitor") /\ MonitorNext
          /\ UNCHANGED <<aiVars, analyticsVars, trackingVars>>
       \/ /\ Is("analytics") /\ AnalyticsNext
          /\ UNCHANGED <<aiVars, monitorVars, trackingVars>>
       \/ /\ Is("tracking") /\ TrackingNext
          /\ UNCHANGED <<aiVars, monitorVars, analyticsVars>>
    /\ UNCHANGED <<subject, frontVars, textVars, storeVars>>

TextNext ==
    /\ \/ /\ Is("chunker") /\ ChunkTemplate
          /\ UNCHANGED <<retrievalVars, embeddingVars>>
       \/ /\ Is("retrieval") /\ RetrievalNext
          /\ UNCHANGED <<chunkerVars, embeddingVars>>
       \/ /\ Is("embedding") /\ EmbeddingNext
          /\ UNCHANGED <<chunkerVars, retrievalVars>>
    /\ UNCHANGED <<subject, frontVars, costVars, storeVars>>

StoreNext ==
    /\ \/ /\ Is("index") /\ IndexNext
          /\ UNCHANGED <<ingestVars, erasureVars>>
       \/ /\ Is("ingestion") /\ IngestNext
          /\ UNCHANGED <<indexVars, erasureVars>>
       \/ /\ Is("erasure") /\ ErasureNext
          /\ UNCHANGED <<indexVars, ingestVars>>
    /\ UNCHANGED <<subject, frontVars, costVars, textVars>>

Next == FrontNext \/ CostNext \/ TextNext \/ StoreNext
Spec == Init /\ [][Next]_componentVars

Symmetry == Permutations(Actors) \cup Permutations(Things)
=============================================================================
