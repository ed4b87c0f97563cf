---------------------------- MODULE CacheService ----------------------------
(***************************************************************************)
(* CacheService over RedisService: cache-aside reads, write-through,       *)
(* invalidation by key, pattern, tag and version, each Redis call a step   *)
(* of its own.  A value is the version of the source it was read from.     *)
(* The class catches the Redis errors of get, set and the invalidations:   *)
(* get answers null and the others answer false or 0, which no caller can  *)
(* tell from success.                                                      *)
(***************************************************************************)
EXTENDS Integers, FiniteSets, Functions

CONSTANTS Keys,          \* cached keys; all of them match the pattern
          Clients,       \* concurrent callers
          MaxSource,     \* bound: writes to the sources of the keys
          MaxRows        \* bound: writes to the versioned resource

ASSUME CacheAssumption == MaxSource \in Nat /\ MaxRows \in Nat

None == -1
Versions == 1 .. MaxRows + 1

VARIABLES source,     \* per key: how often the data behind it was written
          rows,       \* the same for the resource whose keys carry a version
          cache,      \* per key: the cached version, or None
          tagged,     \* members of the set under tag:<t>
          version,    \* the counter version:<resource>, 0 when missing
          listed,     \* per version in the key: the cached copy of the resource
          client,     \* per caller: the operation it is in
          overtaken,  \* history: keys with a reason to be stale
          withTag,    \* history: keys whose setWithTags completed
          late,       \* history: keys tagged during an invalidation by tag
          behind      \* history: versions whose copy was stored late, or kept by
                      \* a failed increment

redis == <<cache, tagged, version, listed>>
history == <<overtaken, withTag, late, behind>>
cacheVars == <<source, rows, redis, client, history>>

Free == [op |-> "free", key |-> None, val |-> None, todo |-> {}]

CacheInit ==
    /\ source = [k \in Keys |-> 0] /\ rows = 0
    /\ cache = [k \in Keys |-> None]
    /\ tagged = {} /\ version = 0
    /\ listed = [v \in Versions |-> None]
    /\ client = [c \in Clients |-> Free]
    /\ overtaken = {} /\ withTag = {} /\ late = {} /\ behind = {}

At(c, op) == client[c].op = op
Key(c) == client[c].key
Become(c, op) == client' = [client EXCEPT ![c] = op]
Done(c) == Become(c, Free)

\* get: the value, or null when it is missing and when Redis fails.
Get(k) == {cache[k], None}

\* set: the entry, or nothing when Redis fails.  What the source has left
\* behind, and an old entry a failed set leaves there, are noted.
Set(k, v) ==
    \/ /\ cache' = [cache EXCEPT ![k] = v]
       /\ overtaken' = IF v # source[k] THEN overtaken \cup {k} ELSE overtaken \ {k}
    \/ /\ cache' = cache
       /\ overtaken' = IF cache[k] # None THEN overtaken \cup {k} ELSE overtaken

\* getOrSet: a hit is returned; a miss is fetched, returned, and stored by a
\* call nobody waits for.
GetOrSet(c, k) ==
    /\ At(c, "free")
    /\ \E v \in Get(k) :
        IF v # None THEN Done(c) ELSE Become(c, [Free EXCEPT !.op = "fetch", !.key = k])
    /\ UNCHANGED <<source, rows, redis, history>>
Fetch(c) ==
    /\ At(c, "fetch")
    /\ \E op \in {"store", "setWithTags"} :
        Become(c, [client[c] EXCEPT !.op = op, !.val = source[Key(c)]])
    /\ UNCHANGED <<source, rows, redis, history>>
Store(c) ==
    /\ At(c, "store") \/ At(c, "writeThrough")
    /\ Set(Key(c), client[c].val)
    /\ Done(c)
    /\ UNCHANGED <<source, rows, tagged, version, listed, withTag, late, behind>>

\* A write to the source, and how the cache is told: writeThrough stores the
\* value written, the others invalidate.
Write(c, k, how) ==
    /\ At(c, "free") /\ FoldFunction(+, 0, source) < MaxSource
    /\ source' = [source EXCEPT ![k] = @ + 1]
    /\ Become(c, [Free EXCEPT !.op = how, !.key = k,
                   !.val = IF how = "writeThrough" THEN source[k] + 1 ELSE None])
    /\ UNCHANGED <<rows, redis, history>>

\* A Redis error ends an invalidation: the keys not yet deleted keep their
\* entries.
GiveUp(c, keys) ==
    /\ overtaken' = overtaken \cup {k \in keys : cache[k] # None}
    /\ Done(c)
    /\ UNCHANGED <<source, rows, redis, withTag, late, behind>>
Delete(k) ==
    /\ cache' = [cache EXCEPT ![k] = None]
    /\ withTag' = withTag \ {k}
    /\ UNCHANGED <<source, rows, tagged, version, listed, overtaken, late, behind>>

Invalidate(c) ==
    /\ At(c, "invalidate")
    /\ (Delete(Key(c)) /\ Done(c)) \/ GiveUp(c, {Key(c)})

\* invalidatePattern and invalidateByTag list the keys, then delete them one by
\* one.  A key that is not under the tag is none of the tag's business.
Each == [pattern |-> "patternEach", tag |-> "tagEach"]
\* A slip: the tag set is deleted as soon as it is listed.
ListingDropsTag(c, op, keys) ==
    /\ At(c, op)
    /\ IF keys = {} THEN Done(c)
       ELSE Become(c, [client[c] EXCEPT !.op = Each[op], !.todo = keys])
    /\ overtaken' = overtaken \cup ({Key(c)} \ keys)
    /\ tagged' = IF op = "tag" THEN {} ELSE tagged
    /\ UNCHANGED <<source, rows, cache, version, listed, withTag, late, behind>>

Listing(c, op, keys) ==
    /\ At(c, op)
    /\ IF keys = {} THEN Done(c)
       ELSE Become(c, [client[c] EXCEPT !.op = Each[op], !.todo = keys])
    /\ overtaken' = overtaken \cup ({Key(c)} \ keys)
    /\ UNCHANGED <<source, rows, redis, withTag, late, behind>>
\* A slip: only the first key is deleted.
DeleteEachOnce(c, op) ==
    /\ At(c, Each[op])
    /\ \E k \in client[c].todo :
        \/ Delete(k) /\ Become(c, [client[c] EXCEPT !.todo = {}])
        \/ GiveUp(c, client[c].todo)
DeleteEach(c, op) ==
    /\ At(c, Each[op])
    /\ \E k \in client[c].todo :
        \/ Delete(k) /\ Become(c, [client[c] EXCEPT !.todo = @ \ {k}])
        \/ GiveUp(c, client[c].todo)
Listed(c, op) == At(c, Each[op]) /\ client[c].todo = {}

InvalidatePattern(c) ==
    \/ Listing(c, "pattern", {k \in Keys : cache[k] # None})
    \/ DeleteEach(c, "pattern")
    \/ Listed(c, "pattern") /\ Done(c) /\ UNCHANGED <<source, rows, redis, history>>

\* The tag set goes last, with whatever was added to it since the listing.
DropTag(c) ==
    /\ Listed(c, "tag")
    /\ tagged' = {} /\ Done(c)
    /\ UNCHANGED <<source, rows, cache, version, listed, history>>
InvalidateByTag(c) ==
    \/ Listing(c, "tag", tagged)
    \/ DeleteEach(c, "tag")
    \/ DropTag(c)
InvalidationFails(c) ==
    /\ At(c, "pattern") \/ At(c, "tag") \/ Listed(c, "tag")
    /\ GiveUp(c, {Key(c)})

\* setWithTags: the entry, then its key under the tag; sadd is not caught, so
\* an error leaves the entry without the tag.
SetWithTags(c) ==
    \/ /\ At(c, "setWithTags")
       /\ Set(Key(c), client[c].val)
       /\ Become(c, [client[c] EXCEPT !.op = "sadd"])
       /\ UNCHANGED <<source, rows, tagged, version, listed, withTag, late, behind>>
    \/ /\ At(c, "sadd")
       /\ tagged' = tagged \cup {Key(c)}
       /\ withTag' = withTag \cup {Key(c)}
       /\ late' = IF \E d \in Clients : At(d, "tagEach") THEN late \cup {Key(c)} ELSE late
       /\ Done(c)
       /\ UNCHANGED <<source, rows, cache, version, listed, overtaken, behind>>
    \/ At(c, "sadd") /\ Done(c) /\ UNCHANGED <<source, rows, redis, history>>

\* getVersion: a missing counter reads as 1, which is also what the first
\* increment makes of it.
GetVersion == IF version = 0 THEN 1 ELSE version

\* A read through a versioned key: the version, then getOrSet under the key
\* built from it.  The reader may find the version changed by then.
GetVersionedKey(c) ==
    /\ At(c, "free")
    /\ Become(c, [Free EXCEPT !.op = "getListed", !.val = GetVersion])
    /\ UNCHANGED <<source, rows, redis, history>>
GetListed(c) ==
    /\ At(c, "getListed")
    /\ \/ listed[client[c].val] # None /\ Done(c)
       \/ Become(c, [client[c] EXCEPT !.op = "fetchListed"])
    /\ UNCHANGED <<source, rows, redis, history>>
FetchListed(c) ==
    /\ At(c, "fetchListed")
    /\ Become(c, [client[c] EXCEPT !.op = "storeListed", !.key = rows])
    /\ UNCHANGED <<source, rows, redis, history>>
StoreListed(c) ==
    /\ At(c, "storeListed")
    /\ LET v == client[c].val
       IN  \/ /\ listed' = [listed EXCEPT ![v] = Key(c)]
              /\ behind' = IF Key(c) # rows THEN behind \cup {v} ELSE behind \ {v}
           \/ UNCHANGED <<listed, behind>>
    /\ Done(c)
    /\ UNCHANGED <<source, rows, cache, tagged, version, overtaken, withTag, late>>

\* The resource is written and its version raised; INCR is not caught.
WriteRows(c) ==
    /\ At(c, "free") /\ rows < MaxRows
    /\ rows' = rows + 1
    /\ Become(c, [Free EXCEPT !.op = "increment"])
    /\ UNCHANGED <<source, redis, history>>
\* A slip: a version that exists is not raised.
IncrementVersionOnce(c) ==
    /\ At(c, "increment")
    /\ \/ version' = (IF version = 0 THEN 2 ELSE version) /\ behind' = behind
       \/ version' = version /\ behind' = behind \cup {GetVersion}
    /\ Done(c)
    /\ UNCHANGED <<source, rows, cache, tagged, listed, overtaken, withTag, late>>
IncrementVersion(c) ==
    /\ At(c, "increment")
    /\ \/ version' = version + 1 /\ behind' = behind
       \/ version' = version /\ behind' = behind \cup {GetVersion}
    /\ Done(c)
    /\ UNCHANGED <<source, rows, cache, tagged, listed, overtaken, withTag, late>>

\* An entry reaches its TTL.  The tag sets and the versions have none.
ExpireEntry(k) ==
    /\ cache[k] # None
    /\ Delete(k)
    /\ UNCHANGED client

KeyedStep(c) ==
    \/ \E k \in Keys : GetOrSet(c, k)
    \/ \E k \in Keys, how \in {"writeThrough", "invalidate", "pattern", "tag"} : Write(c, k, how)
    \/ Fetch(c) \/ Store(c) \/ SetWithTags(c)
    \/ Invalidate(c) \/ InvalidatePattern(c) \/ InvalidateByTag(c) \/ InvalidationFails(c)
VersionedStep(c) ==
    \/ GetVersionedKey(c) \/ GetListed(c) \/ FetchListed(c) \/ StoreListed(c)
    \/ WriteRows(c) \/ IncrementVersion(c)
KeyedNext == (\E c \in Clients : KeyedStep(c)) \/ \E k \in Keys : ExpireEntry(k)
VersionedNext == \E c \in Clients : VersionedStep(c)
CacheNext == KeyedNext \/ VersionedNext
CacheSpec == CacheInit /\ [][CacheNext]_cacheVars

-----------------------------------------------------------------------------
\* The operations of a writer that has yet to reach its entry.
Telling == {"writeThrough", "invalidate", "pattern", "patternEach", "tag", "tagEach"}

\* A cached entry is older than its source only while a writer has yet to tell
\* the cache, or for a cause: a fill or a write-through overtaken by a newer
\* write, or a Redis call that failed without the writer's knowing.
StaleEntryHasACause ==
    \A k \in Keys : cache[k] \notin {None, source[k]} =>
        k \in overtaken \/ \E c \in Clients : Key(c) = k /\ client[c].op \in Telling

\* An entry stored with a tag stays within reach of invalidateByTag, through
\* failures of Redis at any point of an earlier invalidation, unless its key was
\* tagged while one was running.
TagReachesItsEntries ==
    \A k \in withTag : cache[k] # None => k \in tagged \/ k \in late

\* Readers get an outdated copy of a versioned resource only before the version
\* is raised, when the copy was stored late or the increment failed, or under
\* version 1: the first increment leads from version 1 to version 1.
VersionHidesOldCopies ==
    listed[GetVersion] \notin {None, rows} =>
        \/ GetVersion \in behind
        \/ \E c \in Clients : At(c, "increment")
        \/ version = 1
=============================================================================
