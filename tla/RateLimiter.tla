---------------------------- MODULE RateLimiter ----------------------------
(***************************************************************************)
(* The two token-bucket guards, RedisRateLimiterGuard and, on the AI       *)
(* endpoints, AIRateLimiterGuard.  Both take the time, read the user's     *)
(* bucket from Redis, compute, and write the bucket back in a call of its  *)
(* own, so the checks of two requests interleave.  Time is counted in      *)
(* ticks; the bucket's numbers are parameters.                             *)
(***************************************************************************)
EXTENDS Integers, FiniteSets, Functions

CONSTANTS Users,
          Requests,         \* request slots, each used again and again
          MaxTokens,        \* maxTokens: the size of a bucket
          RefillRate,       \* refillRate: tokens per refill interval
          RefillInterval,   \* refillInterval, in ticks
          LastTick,         \* bound: the clock stops here
          MaxAdmitted,      \* bound: admissions a run counts
          Undefined         \* the id of a user object without one

ASSUME LimiterAssumption ==
    /\ MaxTokens \in Nat \ {0} /\ RefillRate \in Nat \ {0}
    /\ RefillInterval \in Nat \ {0}
    /\ LastTick \in Nat /\ MaxAdmitted \in Nat
    /\ MaxTokens <= 2 * RefillRate   \* 100 and 100, 10 and 10 in the guards
    /\ Undefined \notin Users

VARIABLES clock,       \* Date.now(), in ticks
          guard,       \* the guard of the endpoint that is called; never changes
          buckets,     \* per key: the bucket in Redis and when Redis drops it
          check,       \* per slot: where its canActivate stands
          admitted,    \* history, per key: requests let through
          latest,      \* history, per key: the latest time a check has stored
          unpaid       \* history: admissions that wrote over another's update of the
                       \* bucket or used one set back in time, or that Redis failed
                       \* to count

limiterVars == <<clock, guard, buckets, check, admitted, latest, unpaid>>

Guards == {"global", "ai"}
NoBucket == [tokens |-> -1, lastRefill |-> -1, expires |-> -1]
Idle == [phase |-> "idle", user |-> Undefined, now |-> 0, tokens |-> 0, read |-> NoBucket]
TTL == 2 * RefillInterval

\* What JwtStrategy.validate makes of a token is request.user in the guards.
JwtUser(u) == [userId |-> u, email |-> u, name |-> u]

\* The guards name the bucket after user.id || user.sub, whichever there is.
BucketKey(user) ==
    IF "id" \in DOMAIN user THEN user.id
    ELSE IF "sub" \in DOMAIN user THEN user.sub ELSE Undefined
KeyOf(u) == BucketKey(JwtUser(u))
BucketKeys == Users \cup {Undefined}

LimiterInit ==
    /\ clock = 0
    /\ guard \in Guards
    /\ buckets = [k \in BucketKeys |-> NoBucket]
    /\ check = [r \in Requests |-> Idle]
    /\ admitted = [k \in BucketKeys |-> 0]
    /\ latest = [k \in BucketKeys |-> 0]
    /\ unpaid = 0

\* Redis forgets a key at its TTL; the guard then starts from a full bucket
\* whose last refill is the time of its own request.
InRedis(k) == IF clock >= buckets[k].expires THEN NoBucket ELSE buckets[k]
Stored(k, now) ==
    IF InRedis(k) = NoBucket
    THEN [tokens |-> MaxTokens, lastRefill |-> now]
    ELSE [tokens |-> buckets[k].tokens, lastRefill |-> buckets[k].lastRefill]

\* The tokens of a stretch of time.  The division rounds down, also when another
\* request wrote a later time and the elapsed time is negative.
Earned(elapsed) == (elapsed * RefillRate) \div RefillInterval

\* Tokens after the refill.
Refilled(b, now) ==
    LET sum == b.tokens + Earned(now - b.lastRefill)
    IN  IF sum > MaxTokens THEN MaxTokens ELSE sum

BelowBound == FoldFunction(+, 0, admitted) < MaxAdmitted

\* The request arrives: the time is taken before the bucket is asked for.
Arrive(r, u) ==
    /\ check[r].phase = "idle"
    /\ check' = [check EXCEPT ![r] =
            [Idle EXCEPT !.phase = "asked", !.user = u, !.now = clock]]
    /\ UNCHANGED <<clock, guard, buckets, admitted, latest, unpaid>>

\* Redis answers.  With less than one token the request is refused, and the
\* refilled bucket is not written back; otherwise one token is taken.
Answered(r) ==
    LET now == check[r].now
        left == Refilled(Stored(KeyOf(check[r].user), now), now)
    IN  /\ check[r].phase = "asked"
        /\ check' = [check EXCEPT ![r] =
                IF left < 1 THEN [@ EXCEPT !.phase = "refused"]
                ELSE [@ EXCEPT !.phase = "saving", !.tokens = left - 1,
                               !.read = InRedis(KeyOf(check[r].user))]]
        /\ UNCHANGED <<clock, guard, buckets, admitted, latest, unpaid>>

LetThrough(r) ==
    /\ BelowBound
    /\ admitted' = [admitted EXCEPT ![KeyOf(check[r].user)] = @ + 1]
    /\ check' = [check EXCEPT ![r] = Idle]

\* It writes over what another check stored since it read, or it starts afresh a
\* bucket that was still there when its time was taken.
Overwrites(r) ==
    LET bucket == buckets[KeyOf(check[r].user)]
    IN  IF check[r].read = NoBucket THEN bucket.expires > check[r].now
        ELSE bucket # check[r].read

\* It refills, up to a time that is past, a bucket that an overwrite has set back
\* in time: what was refilled and spent since is refilled once more.
RefillsAgain(r) ==
    LET k == KeyOf(check[r].user)
    IN  check[r].now < latest[k] /\ buckets[k].lastRefill < latest[k]

\* The history of a bucket that is written.
Account(r) ==
    LET k == KeyOf(check[r].user)
    IN  /\ latest' = [latest EXCEPT ![k] = IF check[r].now > @ THEN check[r].now ELSE @]
        /\ unpaid' = unpaid + IF Overwrites(r) \/ RefillsAgain(r) THEN 1 ELSE 0

\* A slip: the time of the refill is not written back with the tokens.
SaveKeepsLastRefill(r) ==
    /\ check[r].phase = "saving"
    /\ LET k == KeyOf(check[r].user)
       IN  buckets' = [buckets EXCEPT ![k] = [tokens |-> check[r].tokens, expires |-> clock + TTL,
                            lastRefill |-> Stored(k, check[r].now).lastRefill]]
    /\ LetThrough(r)
    /\ Account(r)
    /\ UNCHANGED <<clock, guard>>

\* The bucket is written over whatever is there, and the request goes through.
Save(r) ==
    /\ check[r].phase = "saving"
    /\ buckets' = [buckets EXCEPT ![KeyOf(check[r].user)] =
            [tokens |-> check[r].tokens, lastRefill |-> check[r].now,
             expires |-> clock + TTL]]
    /\ LetThrough(r)
    /\ Account(r)
    /\ UNCHANGED <<clock, guard>>

\* The 429 goes out.
Refuse(r) ==
    /\ check[r].phase = "refused"
    /\ check' = [check EXCEPT ![r] = Idle]
    /\ UNCHANGED <<clock, guard, buckets, admitted, latest, unpaid>>

\* A Redis call throws: the guard logs and lets the request through.
FailOpen(r) ==
    /\ check[r].phase \in {"asked", "saving"}
    /\ LetThrough(r)
    /\ unpaid' = unpaid + 1
    /\ UNCHANGED <<clock, guard, buckets, latest>>

CheckStep(r) ==
    \/ \E u \in Users : Arrive(r, u)
    \/ Answered(r) \/ Save(r) \/ Refuse(r) \/ FailOpen(r)

\* A request without a user: the global guard lets it through and counts
\* nothing, the AI guard refuses it.  Neither looks at a bucket.
GlobalCanActivate(r) == guard = "global" /\ CheckStep(r)
AICanActivate(r) == guard = "ai" /\ CheckStep(r)

Tick ==
    /\ clock < LastTick
    /\ clock' = clock + 1
    /\ UNCHANGED <<guard, buckets, check, admitted, latest, unpaid>>

LimiterNext == Tick \/ \E r \in Requests : GlobalCanActivate(r) \/ AICanActivate(r)
LimiterSpec == LimiterInit /\ [][LimiterNext]_limiterVars

-----------------------------------------------------------------------------
\* The requests charged to a bucket are paid for: by the first full bucket, by
\* the refill of the time that has passed, and by the admissions that went wrong,
\* each of which gives away its own token and at most one full bucket (it may
\* take the bucket back to what it was before others used it).  In particular
\* neither dropping the bucket at its TTL, nor rounding, nor refilling from a time
\* taken before the read, nor overlapping checks that read in turn, give a token
\* away.
AdmissionsAreFunded ==
    \A k \in BucketKeys :
        admitted[k] <= MaxTokens + Earned(clock) + unpaid * (MaxTokens + 1)
=============================================================================
