---------------------- MODULE AccessComponents_proofs ----------------------
(***************************************************************************)
(* What the services around the notification pipeline keep, for every      *)
(* number of requests, users, keys and rows: the rate limiters, the        *)
(* accounts, the cache, the erasure of a user, ingestion, and the circuit  *)
(* breaker in front of a provider.                                         *)
(***************************************************************************)
EXTENDS RateLimiter, AuthService, CacheService, UserErasure, Ingestion, CircuitBreaker,
        FiniteSetTheorems, SequenceTheorems, WellFoundedInduction, TLAPS

-----------------------------------------------------------------------------
(* Arithmetic of the refill.                                               *)

\* A quotient is the only integer whose product with the divisor is so near.
LEMMA Quotient ==
    ASSUME NEW x \in Int, NEW n \in Nat \ {0}
    PROVE  /\ x \div n \in Int
           /\ n * (x \div n) <= x
           /\ x < n * (x \div n) + n
  OBVIOUS

\* What divides less than a multiple divides to less.
LEMMA BelowMultiple ==
    ASSUME NEW p \in Int, NEW q \in Int, NEW n \in Nat \ {0}, n * p < n * q + n
    PROVE  p <= q
<1>1. SUFFICES ASSUME q + 1 <= p PROVE FALSE
  OBVIOUS
<1>2. n * (q + 1) <= n * p
  <2>1. n * (p - (q + 1)) >= 0
    BY <1>1
  <2> QED
    BY <2>1
<1>3. n * (q + 1) = n * q + n
  OBVIOUS
<1> QED
  BY <1>2, <1>3

\* Rounding down twice gives no more than rounding down once.
LEMMA EarnedInTurn ==
    ASSUME NEW a \in Int, NEW b \in Int
    PROVE  /\ Earned(a) \in Int
           /\ Earned(a) + Earned(b) <= Earned(a + b)
<1> DEFINE x == a * RefillRate
           y == b * RefillRate
           n == RefillInterval
<1>1. x \in Int /\ y \in Int /\ x + y \in Int /\ n \in Nat \ {0}
  BY LimiterAssumption
<1>2. (a + b) * RefillRate = x + y
  BY LimiterAssumption
<1>3. Earned(a) = x \div n /\ Earned(b) = y \div n /\ Earned(a + b) = (x + y) \div n
  BY <1>2 DEF Earned
<1> HIDE DEF x, y, n
<1>4. x \div n \in Int /\ y \div n \in Int /\ (x + y) \div n \in Int
  BY <1>1, Quotient
<1>5. n * (x \div n) + n * (y \div n) < n * ((x + y) \div n) + n
  <2>1. n * (x \div n) <= x
    BY <1>1, Quotient
  <2>2. n * (y \div n) <= y
    BY <1>1, Quotient
  <2>3. x + y < n * ((x + y) \div n) + n
    BY <1>1, Quotient
  <2> QED
    BY <1>1, <1>4, <2>1, <2>2, <2>3
<1>6. n * ((x \div n) + (y \div n)) = n * (x \div n) + n * (y \div n)
  BY <1>1, <1>4
<1>7. (x \div n) + (y \div n) <= (x + y) \div n
  BY <1>1, <1>4, <1>5, <1>6, BelowMultiple
<1> QED
  BY <1>3, <1>4, <1>7

LEMMA EarnedInt ==
    ASSUME NEW a \in Int
    PROVE  Earned(a) \in Int
  BY EarnedInTurn

LEMMA EarnedInParts ==
    ASSUME NEW a \in Int, NEW b \in Int, NEW c \in Int, a + b = c
    PROVE  Earned(a) + Earned(b) <= Earned(c)
  BY EarnedInTurn

\* Time does not take tokens away, and no time gives none.
LEMMA EarnedGrows ==
    /\ Earned(0) = 0
    /\ \A a \in Nat : Earned(a) \in Nat
    /\ \A a, b \in Int : a <= b => Earned(a) <= Earned(b)
<1>1. Earned(0) = 0
  BY LimiterAssumption DEF Earned
<1>2. ASSUME NEW a \in Nat PROVE Earned(a) \in Nat
  <2>1. Earned(a) \in Int
    BY EarnedInTurn
  <2>2. a * RefillRate \in Nat
    BY LimiterAssumption
  <2>3. a * RefillRate < RefillInterval * Earned(a) + RefillInterval
    BY <2>2, LimiterAssumption, Quotient DEF Earned
  <2>4. RefillInterval * 0 < RefillInterval * Earned(a) + RefillInterval
    <3> DEFINE e == RefillInterval * Earned(a)
               w == a * RefillRate
    <3>1. e \in Int /\ w \in Nat /\ RefillInterval * 0 = 0 /\ w < e + RefillInterval
      BY <2>1, <2>2, <2>3, LimiterAssumption
    <3> HIDE DEF e, w
    <3>2. RefillInterval * 0 < e + RefillInterval
      BY <3>1, LimiterAssumption
    <3> QED
      BY <3>2 DEF e
  <2>5. 0 <= Earned(a)
    BY <2>1, <2>4, LimiterAssumption, BelowMultiple
  <2> QED
    BY <2>1, <2>5
<1>3. ASSUME NEW a \in Int, NEW b \in Int, a <= b PROVE Earned(a) <= Earned(b)
  <2>1. b - a \in Nat /\ a + (b - a) = b
    BY <1>3
  <2>2. Earned(a) + Earned(b - a) <= Earned(b)
    BY <2>1, EarnedInTurn
  <2>3. Earned(a) \in Int /\ Earned(b) \in Int /\ Earned(b - a) \in Nat
    BY <1>2, <2>1, EarnedInTurn
  <2> QED
    BY <2>2, <2>3
<1> QED
  BY <1>1, <1>2, <1>3

\* In the time a bucket outlives its last request it is full again.
LEMMA FullAtExpiry ==
    ASSUME NEW a \in Int, a >= TTL
    PROVE  Earned(a) >= MaxTokens
<1>1. TTL \in Int
  BY LimiterAssumption DEF TTL
<1>2. Earned(TTL) = 2 * RefillRate
  <2>1. TTL * RefillRate = RefillInterval * (2 * RefillRate)
    BY LimiterAssumption DEF TTL
  <2>2. TTL * RefillRate \in Int /\ Earned(TTL) \in Int
    BY <1>1, LimiterAssumption, EarnedInTurn
  <2>3. /\ RefillInterval * Earned(TTL) <= RefillInterval * (2 * RefillRate)
        /\ RefillInterval * (2 * RefillRate) < RefillInterval * Earned(TTL) + RefillInterval
    BY <2>1, <2>2, LimiterAssumption, Quotient DEF Earned
  <2>4. 2 * RefillRate <= Earned(TTL)
    BY <2>2, <2>3, LimiterAssumption, BelowMultiple
  <2>5. RefillInterval * Earned(TTL) < RefillInterval * (2 * RefillRate) + RefillInterval
    <3> DEFINE e == RefillInterval * Earned(TTL)
               w == RefillInterval * (2 * RefillRate)
    <3>1. e \in Int /\ w \in Int /\ e <= w
      BY <2>2, <2>3, LimiterAssumption
    <3> HIDE DEF e, w
    <3>2. e < w + RefillInterval
      BY <3>1, LimiterAssumption
    <3> QED
      BY <3>2 DEF e, w
  <2>6. Earned(TTL) <= 2 * RefillRate
    BY <2>2, <2>5, LimiterAssumption, BelowMultiple
  <2> QED
    BY <2>2, <2>4, <2>6, LimiterAssumption
<1>3. Earned(TTL) <= Earned(a) /\ Earned(a) \in Int
  BY <1>1, EarnedGrows, EarnedInTurn
<1> QED
  BY <1>2, <1>3, LimiterAssumption

-----------------------------------------------------------------------------
(* What a bucket may hold is funded at every time from the latest one that *)
(* was stored: that, and not the bound at the present time, is what a step *)
(* keeps.                                                                  *)

Kept == [tokens : 0 .. MaxTokens - 1, lastRefill : Nat, expires : Nat]

Funds(t, u) == MaxTokens + Earned(t) + u * (MaxTokens + 1)

BucketSound(k) ==
    /\ admitted[k] \in Nat
    /\ latest[k] \in Nat /\ latest[k] <= clock
    /\ \/ /\ buckets[k] = NoBucket
          /\ latest[k] = 0
          /\ admitted[k] <= unpaid * (MaxTokens + 1)
       \/ /\ buckets[k] \in Kept
          /\ buckets[k].lastRefill <= latest[k]
          /\ buckets[k].expires >= latest[k] + TTL
          /\ \A t \in Nat : t >= latest[k] =>
                admitted[k] + Refilled(buckets[k], t) <= Funds(t, unpaid)

CheckType ==
    [phase : {"idle", "asked", "saving", "refused"}, user : Users \cup {Undefined},
     now : Nat, tokens : Int, read : Kept \cup {NoBucket}]

CheckSound(r) ==
    /\ check[r] \in CheckType
    /\ check[r].now <= clock
    /\ check[r].phase = "saving" =>
          /\ check[r].tokens \in 0 .. MaxTokens - 1
          /\ IF check[r].read = NoBucket THEN check[r].tokens = MaxTokens - 1
             ELSE check[r].tokens = Refilled(check[r].read, check[r].now) - 1

LimiterInv ==
    /\ clock \in Nat
    /\ unpaid \in Nat
    /\ DOMAIN buckets = BucketKeys /\ DOMAIN admitted = BucketKeys
    /\ DOMAIN latest = BucketKeys /\ DOMAIN check = Requests
    /\ buckets = [k \in BucketKeys |-> buckets[k]]
    /\ admitted = [k \in BucketKeys |-> admitted[k]]
    /\ latest = [k \in BucketKeys |-> latest[k]]
    /\ check = [r \in Requests |-> check[r]]
    /\ \A k \in BucketKeys : BucketSound(k)
    /\ \A r \in Requests : CheckSound(r)

\* Every user's bucket is the one of the missing id.
LEMMA OneBucket ==
    ASSUME NEW u
    PROVE  KeyOf(u) = Undefined /\ Undefined \in BucketKeys
<1>1. DOMAIN JwtUser(u) = {"userId", "email", "name"}
  BY DEF JwtUser
<1> QED
  BY <1>1 DEF KeyOf, BucketKey, BucketKeys

LEMMA NoBucketIsNotKept == NoBucket \notin Kept
  BY DEF NoBucket, Kept

LEMMA Unpaid ==
    ASSUME NEW u \in Nat
    PROVE  /\ u * (MaxTokens + 1) \in Nat
           /\ u * (MaxTokens + 1) <= (u + 1) * (MaxTokens + 1)
           /\ (u + 1) * (MaxTokens + 1) \in Nat
  BY LimiterAssumption

LEMMA FundsGrow ==
    ASSUME NEW t \in Nat, NEW u \in Nat
    PROVE  /\ Funds(t, u + 1) = Funds(t, u) + MaxTokens + 1
           /\ (u + 1) * (MaxTokens + 1) = u * (MaxTokens + 1) + MaxTokens + 1
<1>1. Earned(t) \in Nat /\ MaxTokens \in Nat
  BY EarnedGrows, LimiterAssumption
<1>2. /\ u * (MaxTokens + 1) \in Nat
      /\ (u + 1) * (MaxTokens + 1) = u * (MaxTokens + 1) + MaxTokens + 1
  BY <1>1
<1> QED
  BY <1>1, <1>2 DEF Funds

LEMMA FundsInt ==
    ASSUME NEW t \in Nat, NEW u \in Nat
    PROVE  /\ Funds(t, u) \in Int
           /\ u * (MaxTokens + 1) \in Nat
           /\ u * (MaxTokens + 1) + MaxTokens <= Funds(t, u)
<1>1. Earned(t) \in Nat /\ MaxTokens \in Nat
  BY EarnedGrows, LimiterAssumption
<1>2. u * (MaxTokens + 1) \in Nat
  BY <1>1
<1> QED
  BY <1>1, <1>2 DEF Funds

LEMMA FundsApart ==
    ASSUME NEW s \in Nat, NEW t \in Nat, NEW u \in Nat
    PROVE  Funds(t, u) - Earned(t) = Funds(s, u) - Earned(s)
<1>1. Earned(t) \in Int /\ Earned(s) \in Int /\ MaxTokens \in Nat
  BY EarnedInt, LimiterAssumption
<1>2. u * (MaxTokens + 1) \in Nat
  BY <1>1
<1> QED
  BY <1>1, <1>2 DEF Funds

\* The refill of a stored bucket.
LEMMA RefillBounds ==
    ASSUME NEW b, b.tokens \in 0 .. MaxTokens, b.lastRefill \in Int, NEW t \in Int
    PROVE  /\ Refilled(b, t) \in Int
           /\ Refilled(b, t) <= MaxTokens
           /\ Refilled(b, t) <= b.tokens + Earned(t - b.lastRefill)
           /\ \/ Refilled(b, t) = MaxTokens
              \/ Refilled(b, t) = b.tokens + Earned(t - b.lastRefill)
           /\ t >= b.lastRefill => Refilled(b, t) >= 0
           /\ Earned(t - b.lastRefill) >= MaxTokens => Refilled(b, t) = MaxTokens
           /\ t = b.lastRefill => Refilled(b, t) = b.tokens
<1> DEFINE e == Earned(t - b.lastRefill)
<1>1. e \in Int
  BY EarnedInt
<1>2. t >= b.lastRefill => e >= 0
  BY EarnedGrows
<1>3. t = b.lastRefill => e = 0
  BY EarnedGrows
<1>4. Refilled(b, t) = IF b.tokens + e > MaxTokens THEN MaxTokens ELSE b.tokens + e
  BY DEF Refilled
<1> HIDE DEF e
<1>5. /\ Refilled(b, t) \in Int
      /\ Refilled(b, t) <= MaxTokens
      /\ Refilled(b, t) <= b.tokens + e
      /\ \/ Refilled(b, t) = MaxTokens
         \/ Refilled(b, t) = b.tokens + e
      /\ t >= b.lastRefill => Refilled(b, t) >= 0
      /\ e >= MaxTokens => Refilled(b, t) = MaxTokens
      /\ t = b.lastRefill => Refilled(b, t) = b.tokens
  BY <1>1, <1>2, <1>3, <1>4, LimiterAssumption
<1> QED
  BY <1>5 DEF e

\* A bucket that holds what is funded at the time of its refill is funded from
\* then on.
LEMMA FundedOnward ==
    ASSUME NEW tokens \in Int, NEW since \in Nat, NEW spent \in Nat, NEW u \in Nat,
           NEW t \in Nat,
           spent + tokens <= Funds(since, u)
    PROVE  spent + tokens + Earned(t - since) <= Funds(t, u)
<1>1. Earned(since) + Earned(t - since) <= Earned(t)
  BY EarnedInParts
<1>2. Earned(since) \in Int /\ Earned(t - since) \in Int /\ Earned(t) \in Int
  BY EarnedInt
<1>3. /\ Funds(t, u) - Earned(t) = Funds(since, u) - Earned(since)
      /\ Funds(t, u) \in Int /\ Funds(since, u) \in Int
  BY FundsInt, FundsApart
<1> QED
  BY <1>1, <1>2, <1>3

\* The same when the refill goes to an earlier time than the bucket's: the time in
\* between is taken away before it is earned again.
LEMMA FundedFromEarlier ==
    ASSUME NEW tokens \in Int, NEW since \in Nat, NEW spent \in Nat, NEW u \in Nat,
           NEW now \in Nat, NEW left \in Int, NEW t \in Nat,
           left <= tokens + Earned(now - since),
           spent + tokens <= Funds(since, u)
    PROVE  spent + left + Earned(t - now) <= Funds(t, u)
<1>1. Earned(now - since) + Earned(t - now) <= Earned(t - since)
  <2>1. /\ now - since \in Int /\ t - now \in Int /\ t - since \in Int
        /\ (now - since) + (t - now) = t - since
    OBVIOUS
  <2> QED
    BY <2>1, EarnedInParts
<1>2. Earned(t - since) \in Int /\ Earned(now - since) \in Int /\ Earned(t - now) \in Int
  BY EarnedInt
<1>3. spent + tokens + Earned(t - since) <= Funds(t, u) /\ Funds(t, u) \in Int
  BY FundedOnward, FundsInt
<1> QED
  BY <1>1, <1>2, <1>3

-----------------------------------------------------------------------------
(* The actions.                                                            *)

LEMMA IdleHasType == Idle \in CheckType
  BY DEF Idle, CheckType

LEMMA LimiterStarts == LimiterInit => LimiterInv
<1> SUFFICES ASSUME LimiterInit PROVE LimiterInv
  OBVIOUS
<1>1. Idle \in CheckType
  BY IdleHasType
<1>2. ASSUME NEW r \in Requests PROVE CheckSound(r)
  BY <1>1 DEF LimiterInit, CheckSound, Idle
<1>3. 0 * (MaxTokens + 1) = 0
  BY LimiterAssumption
<1>4. ASSUME NEW k \in BucketKeys PROVE BucketSound(k)
  BY <1>3 DEF LimiterInit, BucketSound
<1> QED
  BY <1>2, <1>4 DEF LimiterInit, LimiterInv

\* Clock and slots may move on.
LEMMA ChecksStay ==
    ASSUME NEW r \in Requests, CheckSound(r), check'[r] = check[r],
           clock \in Nat, clock' \in Nat, clock <= clock'
    PROVE  CheckSound(r)'
<1>1. check[r].now \in Nat
  BY DEF CheckSound, CheckType
<1> QED
  BY <1>1 DEF CheckSound, Refilled, Earned

LEMMA TickKeeps == LimiterInv /\ Tick => LimiterInv'
<1> SUFFICES ASSUME LimiterInv, Tick PROVE LimiterInv'
  OBVIOUS
<1>1. ASSUME NEW k \in BucketKeys PROVE BucketSound(k)'
  <2>1. BucketSound(k)
    BY DEF LimiterInv
  <2> QED
    BY <2>1 DEF LimiterInv, Tick, BucketSound, Refilled, Earned, Funds
<1>2. ASSUME NEW r \in Requests PROVE CheckSound(r)'
  <2>1. CheckSound(r)
    BY DEF LimiterInv
  <2> QED
    BY <2>1, ChecksStay DEF LimiterInv, Tick
<1> QED
  BY <1>1, <1>2 DEF LimiterInv, Tick

\* A step that leaves the buckets and their history alone.
LEMMA BucketsStay ==
    ASSUME LimiterInv, UNCHANGED <<clock, buckets, admitted, latest, unpaid>>,
           NEW k \in BucketKeys
    PROVE  BucketSound(k)'
<1>1. BucketSound(k)
  BY DEF LimiterInv
<1> QED
  BY <1>1 DEF BucketSound, Refilled, Earned, Funds

LEMMA IdleIsSound ==
    ASSUME NEW r \in Requests, check'[r] = Idle, clock' \in Nat
    PROVE  CheckSound(r)'
  BY IdleHasType DEF CheckSound, Idle

LEMMA ArriveKeeps ==
    ASSUME NEW r \in Requests, NEW u \in Users, LimiterInv, Arrive(r, u)
    PROVE  LimiterInv'
<1>1. ASSUME NEW s \in Requests PROVE CheckSound(s)'
  <2>1. CASE s = r
    <3>1. check'[s] = [Idle EXCEPT !.phase = "asked", !.user = u, !.now = clock]
      BY <2>1 DEF Arrive, LimiterInv
    <3>2. Idle \in CheckType
      BY IdleHasType
    <3>3. check'[s] \in CheckType /\ check'[s].phase = "asked" /\ check'[s].now = clock
      BY <3>1, <3>2 DEF CheckType, LimiterInv
    <3> QED
      BY <3>3 DEF CheckSound, LimiterInv, Arrive
  <2>2. CASE s # r
    <3>1. check'[s] = check[s] /\ CheckSound(s)
      BY <2>2 DEF Arrive, LimiterInv
    <3> QED
      BY <3>1, ChecksStay DEF Arrive, LimiterInv
  <2> QED
    BY <2>1, <2>2
<1>2. ASSUME NEW k \in BucketKeys PROVE BucketSound(k)'
  BY BucketsStay DEF Arrive
<1>3. DOMAIN check' = Requests /\ check' = [s \in Requests |-> check'[s]]
  BY DEF Arrive, LimiterInv
<1> QED
  BY <1>1, <1>2, <1>3 DEF LimiterInv, Arrive

LEMMA AnsweredKeeps ==
    ASSUME NEW r \in Requests, LimiterInv, Answered(r)
    PROVE  LimiterInv'
<1> DEFINE k == KeyOf(check[r].user)
           now == check[r].now
           read == InRedis(k)
           left == Refilled(Stored(k, now), now)
<1>1. k \in BucketKeys /\ BucketSound(k) /\ CheckSound(r)
  BY OneBucket DEF LimiterInv
<1>2. now \in Nat /\ MaxTokens \in Nat \ {0}
  BY <1>1, LimiterAssumption DEF CheckSound, CheckType
<1>3. CASE left < 1
  <2>1. check' = [check EXCEPT ![r].phase = "refused"]
    BY <1>3 DEF Answered
  <2>2. ASSUME NEW s \in Requests PROVE CheckSound(s)'
    <3>1. CASE s = r
      <4>1. check'[s] = [check[r] EXCEPT !.phase = "refused"]
        BY <2>1, <3>1 DEF LimiterInv
      <4>2. check'[s] \in CheckType /\ check'[s].phase = "refused" /\ check'[s].now = now
        BY <4>1, <1>1 DEF CheckSound, CheckType
      <4> QED
        BY <4>2, <1>1 DEF CheckSound, Answered
    <3>2. CASE s # r
      <4>1. check'[s] = check[s] /\ CheckSound(s)
        BY <2>1, <3>2 DEF LimiterInv
      <4> QED
        BY <4>1, ChecksStay DEF Answered, LimiterInv
    <3> QED
      BY <3>1, <3>2
  <2>3. ASSUME NEW b \in BucketKeys PROVE BucketSound(b)'
    BY BucketsStay DEF Answered
  <2>4. DOMAIN check' = Requests /\ check' = [s \in Requests |-> check'[s]]
    BY <2>1 DEF LimiterInv
  <2> QED
    BY <2>2, <2>3, <2>4 DEF LimiterInv, Answered
<1>4. CASE ~(left < 1)
  <2>1. check' = [check EXCEPT ![r] = [@ EXCEPT !.phase = "saving", !.tokens = left - 1,
                                                !.read = read]]
    BY <1>4 DEF Answered
  <2>2. /\ read \in Kept \cup {NoBucket}
        /\ left \in 1 .. MaxTokens
        /\ IF read = NoBucket THEN left = MaxTokens ELSE left = Refilled(read, now)
    <3>1. CASE read = NoBucket
      <4>1. Stored(k, now) = [tokens |-> MaxTokens, lastRefill |-> now]
        BY <3>1 DEF Stored
      <4>2. left \in Int /\ left = MaxTokens
        BY <4>1, <1>2, RefillBounds
      <4> QED
        BY <3>1, <4>2, <1>2
    <3>2. CASE read # NoBucket
      <4>1. read = buckets[k] /\ read \in Kept
        BY <3>2, <1>1 DEF InRedis, BucketSound
      <4>2. left = Refilled(read, now)
        BY <4>1, <3>2 DEF Stored, Refilled
      <4>3. read.tokens \in 0 .. MaxTokens /\ read.lastRefill \in Int
        BY <4>1, <1>2 DEF Kept
      <4>4. left \in Int /\ left <= MaxTokens
        BY <4>2, <4>3, <1>2, RefillBounds
      <4> QED
        BY <1>2, <1>4, <3>2, <4>1, <4>2, <4>4
    <3> QED
      BY <3>1, <3>2
  <2> HIDE DEF left, read, k
  <2>3. ASSUME NEW s \in Requests PROVE CheckSound(s)'
    <3>1. CASE s = r
      <4>1. check'[s] = [check[r] EXCEPT !.phase = "saving", !.tokens = left - 1, !.read = read]
        BY <2>1, <3>1 DEF LimiterInv
      <4>2. /\ check'[s] \in CheckType /\ check'[s].now = now
            /\ check'[s].tokens = left - 1 /\ check'[s].read = read
        <5>1. check[r] \in CheckType /\ left - 1 \in Int
          BY <1>1, <1>2, <2>2 DEF CheckSound
        <5> QED
          BY <4>1, <5>1, <2>2 DEF CheckType
      <4>3. now <= clock /\ clock' = clock
        BY <1>1 DEF CheckSound, Answered
      <4> QED
        BY <4>2, <4>3, <2>2, <1>2 DEF CheckSound, Refilled, Earned
    <3>2. CASE s # r
      <4>1. check'[s] = check[s] /\ CheckSound(s)
        BY <2>1, <3>2 DEF LimiterInv
      <4> QED
        BY <4>1, ChecksStay DEF Answered, LimiterInv
    <3> QED
      BY <3>1, <3>2
  <2>4. ASSUME NEW b \in BucketKeys PROVE BucketSound(b)'
    BY BucketsStay DEF Answered
  <2>5. DOMAIN check' = Requests /\ check' = [s \in Requests |-> check'[s]]
    BY <2>1 DEF LimiterInv
  <2> QED
    BY <2>3, <2>4, <2>5 DEF LimiterInv, Answered
<1> QED
  BY <1>3, <1>4

LEMMA RefuseKeeps ==
    ASSUME NEW r \in Requests, LimiterInv, Refuse(r)
    PROVE  LimiterInv'
<1>1. ASSUME NEW s \in Requests PROVE CheckSound(s)'
  <2>1. check'[s] = Idle \/ (check'[s] = check[s] /\ CheckSound(s))
    BY DEF Refuse, LimiterInv
  <2> QED
    BY <2>1, IdleIsSound, ChecksStay DEF Refuse, LimiterInv
<1>2. ASSUME NEW k \in BucketKeys PROVE BucketSound(k)'
  BY BucketsStay DEF Refuse
<1>3. DOMAIN check' = Requests /\ check' = [s \in Requests |-> check'[s]]
  BY DEF Refuse, LimiterInv
<1> QED
  BY <1>1, <1>2, <1>3 DEF LimiterInv, Refuse

\* One more unpaid admission is room for a whole bucket more.
LEMMA BucketIsLeft ==
    ASSUME NEW k \in BucketKeys, LimiterInv,
           buckets'[k] = buckets[k], admitted'[k] = admitted[k], latest'[k] = latest[k],
           clock' = clock, unpaid' \in {unpaid, unpaid + 1}
    PROVE  BucketSound(k)'
<1>1. BucketSound(k) /\ unpaid \in Nat /\ MaxTokens \in Nat
  BY LimiterAssumption DEF LimiterInv
<1>2. unpaid' \in Nat /\ unpaid <= unpaid'
  BY <1>1
<1>3. /\ unpaid * (MaxTokens + 1) \in Nat /\ unpaid' * (MaxTokens + 1) \in Nat
      /\ unpaid * (MaxTokens + 1) <= unpaid' * (MaxTokens + 1)
  <2>1. CASE unpaid' = unpaid
    BY <1>1, <2>1, Unpaid
  <2>2. CASE unpaid' = unpaid + 1
    BY <1>1, <2>2, Unpaid
  <2> QED
    BY <2>1, <2>2
<1>4. CASE buckets[k] = NoBucket
  BY <1>1, <1>2, <1>3, <1>4, NoBucketIsNotKept DEF BucketSound
<1>5. CASE buckets[k] \in Kept
  <2>1. ASSUME NEW t \in Nat, t >= latest[k]
        PROVE  admitted[k] + Refilled(buckets[k], t) <= Funds(t, unpaid')
    <3>1. admitted[k] + Refilled(buckets[k], t) <= Funds(t, unpaid)
      BY <1>1, <1>5, <2>1, NoBucketIsNotKept DEF BucketSound
    <3>2. Funds(t, unpaid) <= Funds(t, unpaid')
      BY <1>1, <1>2, <1>3, EarnedInt DEF Funds
    <3>3. /\ admitted[k] \in Nat /\ Refilled(buckets[k], t) \in Int
          /\ Funds(t, unpaid) \in Int /\ Funds(t, unpaid') \in Int
      <4>1. buckets[k].tokens \in 0 .. MaxTokens /\ buckets[k].lastRefill \in Int
        BY <1>1, <1>5 DEF Kept
      <4>2. admitted[k] \in Nat
        BY <1>1 DEF BucketSound
      <4>3. Refilled(buckets[k], t) \in Int
        BY <4>1, RefillBounds
      <4>4. Funds(t, unpaid) \in Int /\ Funds(t, unpaid') \in Int
        BY <1>1, <1>2, FundsInt
      <4> QED
        BY <4>2, <4>3, <4>4
    <3> QED
      BY <3>1, <3>2, <3>3
  <2> QED
    BY <1>1, <1>5, <2>1, NoBucketIsNotKept DEF BucketSound
<1> QED
  BY <1>1, <1>4, <1>5 DEF BucketSound

\* What a sound bucket owes at any later time, whether it is there or not.
LEMMA SpentIsFunded ==
    ASSUME NEW k \in BucketKeys, LimiterInv, NEW t \in Nat, t >= latest[k]
    PROVE  /\ admitted[k] \in Nat
           /\ admitted[k] <= Funds(t, unpaid)
<1>1. BucketSound(k) /\ unpaid \in Nat /\ MaxTokens \in Nat
  BY LimiterAssumption DEF LimiterInv
<1>2. admitted[k] \in Nat /\ Funds(t, unpaid) \in Int
  BY <1>1, FundsInt DEF BucketSound
<1>3. CASE buckets[k] = NoBucket
  <2>1. admitted[k] <= unpaid * (MaxTokens + 1)
    BY <1>1, <1>3, NoBucketIsNotKept DEF BucketSound
  <2>2. /\ unpaid * (MaxTokens + 1) \in Nat
        /\ unpaid * (MaxTokens + 1) + MaxTokens <= Funds(t, unpaid)
    BY <1>1, FundsInt
  <2> QED
    BY <1>1, <1>2, <2>1, <2>2
<1>4. CASE buckets[k] \in Kept
  <2>1. admitted[k] + Refilled(buckets[k], t) <= Funds(t, unpaid)
    BY <1>1, <1>4, NoBucketIsNotKept DEF BucketSound
  <2>2. buckets[k].tokens \in 0 .. MaxTokens /\ buckets[k].lastRefill \in Int
        /\ t >= buckets[k].lastRefill
    BY <1>1, <1>4, NoBucketIsNotKept DEF Kept, BucketSound
  <2>3. Refilled(buckets[k], t) \in Int /\ Refilled(buckets[k], t) >= 0
    BY <2>2, RefillBounds
  <2> QED
    BY <1>2, <2>1, <2>3
<1> QED
  BY <1>1, <1>3, <1>4 DEF BucketSound

LEMMA FailOpenKeeps ==
    ASSUME NEW r \in Requests, LimiterInv, FailOpen(r)
    PROVE  LimiterInv'
<1>0. PICK k \in BucketKeys : k = KeyOf(check[r].user)
  BY OneBucket
<1>1. BucketSound(k) /\ unpaid \in Nat
  BY DEF LimiterInv
<1>2. /\ admitted' = [admitted EXCEPT ![k] = @ + 1]
      /\ check' = [check EXCEPT ![r] = Idle]
      /\ unpaid' = unpaid + 1
      /\ UNCHANGED <<clock, buckets, latest>>
  BY <1>0 DEF FailOpen, LetThrough
<1>3. ASSUME NEW s \in Requests PROVE CheckSound(s)'
  <2>1. check'[s] = Idle \/ (check'[s] = check[s] /\ CheckSound(s))
    BY <1>2 DEF LimiterInv
  <2> QED
    BY <1>2, <2>1, IdleIsSound, ChecksStay DEF LimiterInv
<1>4. BucketSound(k)'
  <2>1. admitted'[k] = admitted[k] + 1 /\ admitted[k] \in Nat /\ MaxTokens \in Nat \ {0}
    BY <1>1, <1>2, LimiterAssumption DEF LimiterInv, BucketSound
  <2>2. CASE buckets[k] = NoBucket
    <3>1. latest[k] = 0 /\ admitted[k] <= unpaid * (MaxTokens + 1)
      BY <1>1, <2>2, NoBucketIsNotKept DEF BucketSound
    <3>2. /\ unpaid * (MaxTokens + 1) \in Nat
          /\ unpaid' * (MaxTokens + 1) = unpaid * (MaxTokens + 1) + MaxTokens + 1
      BY <1>1, <1>2, Unpaid, FundsGrow, 0 \in Nat
    <3>3. admitted'[k] <= unpaid' * (MaxTokens + 1)
      BY <2>1, <3>1, <3>2
    <3> QED
      BY <1>1, <1>2, <2>1, <2>2, <3>1, <3>3 DEF BucketSound
  <2>3. CASE buckets[k] \in Kept
    <3>1. ASSUME NEW t \in Nat, t >= latest[k]
          PROVE  admitted'[k] + Refilled(buckets[k], t) <= Funds(t, unpaid')
      <4>1. admitted[k] + Refilled(buckets[k], t) <= Funds(t, unpaid)
        BY <1>1, <2>3, <3>1, NoBucketIsNotKept DEF BucketSound
      <4>2. Refilled(buckets[k], t) \in Int /\ Funds(t, unpaid) \in Int
        <5>1. buckets[k].tokens \in 0 .. MaxTokens /\ buckets[k].lastRefill \in Int
          BY <1>1, <2>3, <2>1 DEF Kept
        <5>2. Refilled(buckets[k], t) \in Int
          BY <5>1, RefillBounds
        <5> QED
          BY <1>1, <5>2, FundsInt
      <4>3. Funds(t, unpaid') = Funds(t, unpaid) + MaxTokens + 1
        BY <1>1, <1>2, FundsGrow
      <4> QED
        BY <2>1, <4>1, <4>2, <4>3
    <3>2. buckets'[k] = buckets[k] /\ latest'[k] = latest[k] /\ clock' = clock
      BY <1>2
    <3> QED
      BY <1>1, <2>1, <2>3, <3>1, <3>2, NoBucketIsNotKept DEF BucketSound
  <2> QED
    BY <1>1, <2>2, <2>3 DEF BucketSound
<1>5. ASSUME NEW b \in BucketKeys PROVE BucketSound(b)'
  <2>1. CASE b = k
    BY <1>4, <2>1
  <2>2. CASE b # k
    <3>1. admitted'[b] = admitted[b]
      BY <1>2, <2>2 DEF LimiterInv
    <3> QED
      BY <1>2, <3>1, BucketIsLeft
  <2> QED
    BY <2>1, <2>2
<1>6. /\ DOMAIN check' = Requests /\ check' = [s \in Requests |-> check'[s]]
      /\ DOMAIN admitted' = BucketKeys /\ admitted' = [b \in BucketKeys |-> admitted'[b]]
  BY <1>2 DEF LimiterInv
<1> QED
  BY <1>1, <1>2, <1>3, <1>5, <1>6 DEF LimiterInv

\* A write that paid for itself: what the check has counted is funded when its
\* refill is.  The bucket it found was dropped, is older, or was stored at the
\* latest time.
LEMMA PaidWriteIsFunded ==
    ASSUME NEW r \in Requests, NEW k \in BucketKeys, LimiterInv,
           k = KeyOf(check[r].user), check[r].phase = "saving",
           ~Overwrites(r), ~RefillsAgain(r),
           NEW t \in Nat, t >= check[r].now, t >= latest[k]
    PROVE  admitted[k] + 1 + check[r].tokens + Earned(t - check[r].now) <= Funds(t, unpaid)
<1>1. BucketSound(k) /\ CheckSound(r) /\ unpaid \in Nat /\ MaxTokens \in Nat \ {0}
  BY LimiterAssumption DEF LimiterInv
<1>2. PICK now \in Nat, left \in Int :
          now = check[r].now /\ check[r].tokens \in Int /\ left = check[r].tokens + 1
  BY <1>1 DEF CheckSound, CheckType
<1>3. PICK spent \in Nat, last \in Nat : spent = admitted[k] /\ last = latest[k]
  BY <1>1 DEF BucketSound
\* The tokens and the admissions are funded at the time of the check.
<1>4. ASSUME spent + left <= Funds(now, unpaid)
      PROVE  spent + left + Earned(t - now) <= Funds(t, unpaid)
  BY <1>1, <1>4, FundedOnward
<1>5. CASE buckets[k] = NoBucket
  <2>1. spent <= unpaid * (MaxTokens + 1) /\ left <= MaxTokens
    <3>1. spent <= unpaid * (MaxTokens + 1)
      BY <1>1, <1>3, <1>5, NoBucketIsNotKept DEF BucketSound
    <3>2. left <= MaxTokens
      BY <1>1, <1>2 DEF CheckSound
    <3> QED
      BY <3>1, <3>2
  <2>2. spent + left <= Funds(now, unpaid)
    <3>1. /\ Funds(now, unpaid) \in Int
          /\ unpaid * (MaxTokens + 1) \in Nat
          /\ unpaid * (MaxTokens + 1) + MaxTokens <= Funds(now, unpaid)
      BY <1>1, FundsInt
    <3> QED
      BY <1>1, <2>1, <3>1
  <2> QED
    BY <1>2, <1>3, <1>4, <2>2
<1>6. CASE buckets[k] \in Kept
  <2>0. PICK b \in Kept : b = buckets[k]
    BY <1>6
  <2>1. PICK since \in Nat, tokens \in 0 .. MaxTokens - 1, expires \in Nat :
            /\ since = b.lastRefill /\ tokens = b.tokens /\ expires = b.expires
            /\ tokens \in Int
    BY <1>1 DEF Kept
  <2>2. /\ since <= last /\ expires >= last + TTL
        /\ \A s \in Nat : s >= last => spent + Refilled(b, s) <= Funds(s, unpaid)
    BY <1>1, <1>3, <2>0, <2>1, NoBucketIsNotKept DEF BucketSound
  <2>3. CASE check[r].read = NoBucket
    <3>1. expires <= now /\ left = MaxTokens
      BY <1>1, <1>2, <2>0, <2>1, <2>3 DEF Overwrites, CheckSound
    <3>2. TTL \in Nat
      BY LimiterAssumption DEF TTL
    <3>3. now - since \in Int /\ now - since >= TTL /\ now >= last
      BY <2>2, <3>1, <3>2
    <3>4. Earned(now - since) >= MaxTokens
      BY <3>3, FullAtExpiry
    <3>5. Refilled(b, now) = MaxTokens
      BY <1>1, <2>1, <3>4, RefillBounds
    <3>6. spent + Refilled(b, now) <= Funds(now, unpaid)
      BY <2>2, <3>3
    <3>7. spent + left <= Funds(now, unpaid)
      BY <3>1, <3>5, <3>6
    <3> QED
      BY <1>2, <1>3, <1>4, <3>7
  <2>4. CASE check[r].read # NoBucket
    <3>1. check[r].read = b /\ left = Refilled(b, now)
      <4>1. check[r].read = b
        BY <2>0, <2>4 DEF Overwrites
      <4>2. check[r].tokens = Refilled(b, now) - 1
        BY <1>1, <1>2, <2>4, <4>1 DEF CheckSound
      <4>3. Refilled(b, now) \in Int
        BY <1>1, <2>1, RefillBounds
      <4> QED
        BY <1>2, <4>1, <4>2, <4>3
    <3>2. CASE now >= last
      <4>1. spent + Refilled(b, now) <= Funds(now, unpaid)
        BY <2>2, <3>2
      <4>2. spent + left <= Funds(now, unpaid)
        BY <3>1, <4>1
      <4> QED
        BY <1>2, <1>3, <1>4, <4>2
    <3>3. CASE now < last
      <4>1. since = last
        BY <1>2, <1>3, <2>0, <2>1, <2>2, <3>3 DEF RefillsAgain
      <4>2. Refilled(b, since) = tokens
        BY <1>1, <2>1, RefillBounds
      <4>3. spent + tokens <= Funds(since, unpaid)
        <5>1. spent + Refilled(b, since) <= Funds(since, unpaid)
          BY <2>2, <4>1
        <5> QED
          BY <4>2, <5>1
      <4>4. left <= tokens + Earned(now - since)
        BY <1>1, <2>1, <3>1, RefillBounds
      <4>5. unpaid \in Nat /\ tokens \in Int
        BY <1>1, <2>1
      <4>6. spent + left + Earned(t - now) <= Funds(t, unpaid)
        BY <4>3, <4>4, <4>5, FundedFromEarlier
      <4>7. Earned(t - now) \in Int
        BY EarnedInt
      <4> DEFINE more == Earned(t - now)
      <4>8. admitted[k] + 1 + check[r].tokens + more = spent + left + more
        <5> HIDE DEF more
        <5>1. more \in Int
          BY <4>7 DEF more
        <5> QED
          BY <1>2, <1>3, <5>1
      <4> QED
        BY <1>2, <4>6, <4>8
    <3> QED
      BY <3>2, <3>3
  <2> QED
    BY <2>3, <2>4
<1> QED
  BY <1>1, <1>5, <1>6 DEF BucketSound

LEMMA SaveKeeps ==
    ASSUME NEW r \in Requests, LimiterInv, Save(r)
    PROVE  LimiterInv'
<1>0. PICK k \in BucketKeys : k = KeyOf(check[r].user)
  BY OneBucket
<1>1. BucketSound(k) /\ CheckSound(r) /\ unpaid \in Nat /\ clock \in Nat
      /\ MaxTokens \in Nat \ {0}
  BY LimiterAssumption DEF LimiterInv
<1>2. PICK now \in Nat, tokens \in 0 .. MaxTokens - 1 :
          /\ now = check[r].now /\ tokens = check[r].tokens /\ now <= clock
          /\ tokens \in Int
  BY <1>1 DEF CheckSound, CheckType, Save
<1>3. PICK spent \in Nat, last \in Nat :
          spent = admitted[k] /\ last = latest[k] /\ last <= clock
  BY <1>1 DEF BucketSound
<1> DEFINE new == [tokens |-> tokens, lastRefill |-> now, expires |-> clock + TTL]
<1>4. /\ buckets' = [buckets EXCEPT ![k] = new]
      /\ admitted' = [admitted EXCEPT ![k] = @ + 1]
      /\ check' = [check EXCEPT ![r] = Idle]
      /\ latest' = [latest EXCEPT ![k] = IF now > @ THEN now ELSE @]
      /\ unpaid' = unpaid + IF Overwrites(r) \/ RefillsAgain(r) THEN 1 ELSE 0
      /\ clock' = clock
  BY <1>0, <1>2 DEF Save, LetThrough, Account
<1>5. TTL \in Nat
  BY LimiterAssumption DEF TTL
<1>6. /\ new \in Kept /\ new.lastRefill = now /\ new.expires = clock + TTL
      /\ new.tokens = tokens
  BY <1>1, <1>5 DEF Kept
<1> HIDE DEF new
<1>7. ASSUME NEW s \in Requests PROVE CheckSound(s)'
  <2>1. check'[s] = Idle \/ (check'[s] = check[s] /\ CheckSound(s))
    BY <1>4 DEF LimiterInv
  <2> QED
    BY <1>4, <2>1, IdleIsSound, ChecksStay DEF LimiterInv
<1>8. PICK later \in Nat :
          /\ later = latest'[k] /\ later >= now /\ later >= last /\ later <= clock
  <2>1. latest'[k] = IF now > last THEN now ELSE last
    BY <1>3, <1>4 DEF LimiterInv
  <2> QED
    BY <1>2, <1>3, <2>1
<1>9. buckets'[k] = new /\ admitted'[k] = spent + 1
  BY <1>3, <1>4 DEF LimiterInv
<1>10. ASSUME NEW t \in Nat, t >= later
       PROVE  spent + 1 + Refilled(new, t) <= Funds(t, unpaid')
  <2>1. /\ Refilled(new, t) \in Int /\ Refilled(new, t) <= MaxTokens
        /\ Refilled(new, t) <= tokens + Earned(t - now)
    BY <1>1, <1>6, RefillBounds
  <2>2. Earned(t - now) \in Int /\ Funds(t, unpaid) \in Int
    <3>1. Earned(t - now) \in Int
      BY EarnedInt
    <3> QED
      BY <1>1, <3>1, FundsInt
  <2>3. CASE Overwrites(r) \/ RefillsAgain(r)
    <3>1. Funds(t, unpaid') = Funds(t, unpaid) + MaxTokens + 1
      BY <1>1, <1>4, <2>3, FundsGrow
    <3>2. spent <= Funds(t, unpaid)
      <4>1. t >= latest[k]
        BY <1>3, <1>8, <1>10
      <4> QED
        BY <1>3, <4>1, SpentIsFunded
    <3> QED
      BY <1>1, <2>1, <2>2, <3>1, <3>2
  <2>4. CASE ~Overwrites(r) /\ ~RefillsAgain(r)
    <3>1. unpaid' = unpaid
      BY <1>1, <1>4, <2>4
    <3>2. t >= check[r].now /\ t >= latest[k] /\ check[r].phase = "saving"
      BY <1>2, <1>3, <1>8, <1>10 DEF Save
    <3>3. admitted[k] + 1 + check[r].tokens + Earned(t - check[r].now) <= Funds(t, unpaid)
      BY <1>0, <2>4, <3>2, PaidWriteIsFunded
    <3>4. spent + 1 + tokens + Earned(t - now) <= Funds(t, unpaid)
      BY <1>2, <1>3, <3>3
    <3> QED
      BY <1>2, <2>1, <2>2, <3>1, <3>4
  <2> QED
    BY <2>3, <2>4
<1>11. BucketSound(k)'
  <2>1. new.expires >= later + TTL
    BY <1>1, <1>5, <1>6, <1>8
  <2>2. spent + 1 \in Nat
    OBVIOUS
  <2> QED
    BY <1>4, <1>6, <1>8, <1>9, <1>10, <2>1, <2>2, NoBucketIsNotKept DEF BucketSound
<1>12. ASSUME NEW b \in BucketKeys PROVE BucketSound(b)'
  <2>1. CASE b = k
    BY <1>11, <2>1
  <2>2. CASE b # k
    <3>1. /\ admitted'[b] = admitted[b] /\ buckets'[b] = buckets[b]
          /\ latest'[b] = latest[b]
      BY <1>4, <2>2 DEF LimiterInv
    <3>2. unpaid' \in {unpaid, unpaid + 1}
      BY <1>1, <1>4
    <3> QED
      BY <1>4, <3>1, <3>2, BucketIsLeft
  <2> QED
    BY <2>1, <2>2
<1>13. /\ DOMAIN check' = Requests /\ check' = [s \in Requests |-> check'[s]]
       /\ DOMAIN admitted' = BucketKeys /\ admitted' = [b \in BucketKeys |-> admitted'[b]]
       /\ DOMAIN latest' = BucketKeys /\ latest' = [b \in BucketKeys |-> latest'[b]]
       /\ DOMAIN buckets' = BucketKeys /\ buckets' = [b \in BucketKeys |-> buckets'[b]]
  BY <1>4 DEF LimiterInv
<1>14. unpaid' \in Nat
  BY <1>1, <1>4
<1> QED
  BY <1>1, <1>4, <1>7, <1>12, <1>13, <1>14 DEF LimiterInv

LEMMA LimiterStepKeeps == LimiterInv /\ [LimiterNext]_limiterVars => LimiterInv'
<1> SUFFICES ASSUME LimiterInv, [LimiterNext]_limiterVars PROVE LimiterInv'
  OBVIOUS
<1>1. CASE Tick
  BY <1>1, TickKeeps
<1>2. ASSUME NEW r \in Requests, CheckStep(r) PROVE LimiterInv'
  <2>1. CASE \E u \in Users : Arrive(r, u)
    BY <2>1, ArriveKeeps
  <2>2. CASE Answered(r)
    BY <2>2, AnsweredKeeps
  <2>3. CASE Save(r)
    BY <2>3, SaveKeeps
  <2>4. CASE Refuse(r)
    BY <2>4, RefuseKeeps
  <2>5. CASE FailOpen(r)
    BY <2>5, FailOpenKeeps
  <2> QED
    BY <1>2, <2>1, <2>2, <2>3, <2>4, <2>5 DEF CheckStep
<1>3. CASE UNCHANGED limiterVars
  <2>1. ASSUME NEW r \in Requests PROVE CheckSound(r)'
    BY <1>3, ChecksStay DEF limiterVars, LimiterInv
  <2>2. ASSUME NEW k \in BucketKeys PROVE BucketSound(k)'
    BY <1>3, BucketsStay DEF limiterVars
  <2> QED
    BY <1>3, <2>1, <2>2 DEF limiterVars, LimiterInv
<1> QED
  BY <1>1, <1>2, <1>3 DEF LimiterNext, GlobalCanActivate, AICanActivate

\* For every number of overlapping checks the requests charged to a bucket are
\* paid for, apart from one full bucket for each admission that went wrong.
THEOREM AdmissionsFunded == LimiterSpec => []AdmissionsAreFunded
<1>1. LimiterInit => LimiterInv
  BY LimiterStarts
<1>2. LimiterInv /\ [LimiterNext]_limiterVars => LimiterInv'
  BY LimiterStepKeeps
<1>3. LimiterInv => AdmissionsAreFunded
  <2> SUFFICES ASSUME LimiterInv, NEW k \in BucketKeys
               PROVE  admitted[k] <= MaxTokens + Earned(clock) + unpaid * (MaxTokens + 1)
    BY DEF AdmissionsAreFunded
  <2>1. clock \in Nat /\ clock >= latest[k]
    BY DEF LimiterInv, BucketSound
  <2> QED
    BY <2>1, SpentIsFunded DEF Funds
<1> QED
  BY <1>1, <1>2, <1>3, PTL DEF LimiterSpec

-----------------------------------------------------------------------------
(* The accounts.                                                           *)

Accounts == [id : Nat, email : Emails, password : Passwords, known : Nat]

\* A register under way did not find its e-mail among the accounts there were.
RegistersUnknown ==
    \A c \in AuthCallers : call[c].op = "register" =>
        /\ call[c].email \in Emails /\ call[c].password \in Passwords
        /\ call[c].known \in Nat /\ call[c].known <= Len(users)
        /\ \A i \in DOMAIN users : i <= call[c].known => users[i].email # call[c].email

\* A login under way holds an account of its e-mail.
LogsInToItsOwn ==
    \A c \in AuthCallers : call[c].op = "login" =>
        \E i \in DOMAIN users : users[i] = call[c].user /\ users[i].email = call[c].email

\* A token names an account of the e-mail it was asked for.
TokensNameAccounts ==
    \A c \in AuthCallers : token[c] # NoToken =>
        \E i \in DOMAIN users : users[i].id = token[c].sub /\ users[i].email = token[c].email

SecondWasFirst ==
    \A i, j \in DOMAIN users :
        i < j /\ users[i].email = users[j].email => users[j].known < i

AuthInv ==
    /\ time \in Nat /\ users \in Seq(Accounts)
    /\ DOMAIN call = AuthCallers /\ DOMAIN token = AuthCallers
    /\ RegistersUnknown /\ LogsInToItsOwn /\ TokensNameAccounts /\ SecondWasFirst

\* A set of natural numbers has a least member.
LEMMA LeastMember ==
    ASSUME NEW S, S \subseteq Nat, S # {}
    PROVE  \E m \in S : \A n \in S : m <= n
<1>1. PICK m \in S : \A n \in S : ~(<<n, m>> \in OpToRel(<, Nat))
  BY NatLessThanWellFounded, WFMin
<1>2. \A n \in S : ~(n < m)
  BY <1>1 DEF OpToRel
<1> QED
  BY <1>2

\* users.find answers 0, or the first account that fits.
LEMMA FirstOfEmail ==
    ASSUME NEW e, users \in Seq(Accounts)
    PROVE  \/ ByEmail(e) = 0 /\ \A i \in DOMAIN users : users[i].email # e
           \/ ByEmail(e) \in DOMAIN users /\ users[ByEmail(e)].email = e
<1> DEFINE fitting == {i \in DOMAIN users : users[i].email = e}
<1>1. ByEmail(e) = IF fitting = {} THEN 0
                   ELSE CHOOSE i \in fitting : \A j \in fitting : i <= j
  BY DEF ByEmail, FirstUser
<1>2. fitting # {} => \E i \in fitting : \A j \in fitting : i <= j
  <2>1. fitting \subseteq Nat
    OBVIOUS
  <2> QED
    BY <2>1, LeastMember
<1>3. fitting # {} => ByEmail(e) \in fitting
  BY <1>1, <1>2
<1> QED
  BY <1>1, <1>3

LEMMA FirstOfId ==
    ASSUME NEW id, users \in Seq(Accounts), NEW i \in DOMAIN users, users[i].id = id
    PROVE  ValidateUser(id) \in DOMAIN users /\ users[ValidateUser(id)].id = id
<1> DEFINE fitting == {j \in DOMAIN users : users[j].id = id}
<1>1. ValidateUser(id) = IF fitting = {} THEN 0
                         ELSE CHOOSE m \in fitting : \A j \in fitting : m <= j
  BY DEF ValidateUser, FirstUser
<1>2. fitting # {} /\ fitting \subseteq Nat
  OBVIOUS
<1>3. \E m \in fitting : \A j \in fitting : m <= j
  BY <1>2, LeastMember
<1>4. ValidateUser(id) \in fitting
  BY <1>1, <1>2, <1>3
<1> QED
  BY <1>4

LEMMA AuthStarts == AuthInit => AuthInv
<1> SUFFICES ASSUME AuthInit PROVE AuthInv
  OBVIOUS
<1>1. /\ time \in Nat /\ users \in Seq(Accounts) /\ DOMAIN users = {}
      /\ DOMAIN call = AuthCallers /\ DOMAIN token = AuthCallers
  BY DEF AuthInit
<1>2. \A c \in AuthCallers : call[c].op = "none" /\ token[c] = NoToken
  BY DEF AuthInit, NoCall
<1> QED
  BY <1>1, <1>2 DEF AuthInv, RegistersUnknown, LogsInToItsOwn, TokensNameAccounts, SecondWasFirst

LEMMA KeptByRegister ==
    ASSUME AuthInv, NEW c \in AuthCallers, NEW e \in Emails, NEW p \in Passwords,
           Register(c, e, p)
    PROVE  AuthInv'
<1>1. /\ call'[c] = [op |-> "register", email |-> e, password |-> p, known |-> Len(users)]
      /\ \A d \in AuthCallers \ {c} : call'[d] = call[d]
      /\ DOMAIN call' = AuthCallers /\ UNCHANGED <<time, users, token>>
  BY DEF Register, AuthInv
<1>2. Len(users) \in Nat /\ \A i \in DOMAIN users : users[i].email # e
  <2>1. ByEmail(e) = 0 /\ users \in Seq(Accounts) /\ 0 \notin DOMAIN users
    BY DEF Register, AuthInv
  <2> QED
    BY <2>1, FirstOfEmail
<1>3. RegistersUnknown'
  BY <1>1, <1>2 DEF AuthInv, RegistersUnknown
<1>4. LogsInToItsOwn'
  BY <1>1 DEF AuthInv, LogsInToItsOwn
<1> QED
  BY <1>1, <1>3, <1>4 DEF AuthInv, TokensNameAccounts, SecondWasFirst

LEMMA KeptByRegistered ==
    ASSUME AuthInv, NEW c \in AuthCallers, Registered(c)
    PROVE  AuthInv'
<1> DEFINE account == [id |-> time, email |-> call[c].email,
                       password |-> call[c].password, known |-> call[c].known]
           n == Len(users)
<1>1. /\ call[c].email \in Emails /\ call[c].password \in Passwords
      /\ call[c].known \in Nat /\ call[c].known <= n
      /\ \A i \in DOMAIN users : i <= call[c].known => users[i].email # call[c].email
  BY DEF Registered, AuthInv, RegistersUnknown
<1>2. account \in Accounts /\ users \in Seq(Accounts) /\ n \in Nat /\ DOMAIN users = 1 .. n
  BY <1>1 DEF AuthInv, Accounts
<1>3. /\ users' = Append(users, account)
      /\ token'[c] = [email |-> call[c].email, sub |-> time]
      /\ \A d \in AuthCallers \ {c} : token'[d] = token[d] /\ call'[d] = call[d]
      /\ call'[c] = NoCall /\ time' = time
      /\ DOMAIN call' = AuthCallers /\ DOMAIN token' = AuthCallers
  BY DEF Registered, AuthInv
<1>4. account.id = time /\ account.email = call[c].email /\ account.known = call[c].known
  OBVIOUS
<1> HIDE DEF account
<1>5. /\ users' \in Seq(Accounts) /\ DOMAIN users' = 1 .. n + 1 /\ Len(users') = n + 1
      /\ users'[n + 1] = account /\ \A i \in 1 .. n : users'[i] = users[i]
  BY <1>2, <1>3
<1> HIDE DEF n
<1>6. RegistersUnknown'
  <2> SUFFICES ASSUME NEW d \in AuthCallers, call'[d].op = "register"
               PROVE  /\ call'[d].email \in Emails /\ call'[d].password \in Passwords
                      /\ call'[d].known \in Nat /\ call'[d].known <= n + 1
                      /\ \A i \in DOMAIN users' : i <= call'[d].known => users'[i].email # call'[d].email
    BY <1>5 DEF RegistersUnknown
  <2>1. call'[d] = call[d]
    BY <1>3 DEF NoCall
  <2>2. /\ call[d].email \in Emails /\ call[d].password \in Passwords
        /\ call[d].known \in Nat /\ call[d].known <= n
        /\ \A i \in DOMAIN users : i <= call[d].known => users[i].email # call[d].email
    BY <2>1 DEF AuthInv, RegistersUnknown, n
  <2> QED
    BY <1>2, <1>5, <2>1, <2>2
<1>7. LogsInToItsOwn'
  <2>1. \A d \in AuthCallers : call'[d].op = "login" => call'[d] = call[d]
    BY <1>3 DEF NoCall
  <2> QED
    BY <1>2, <1>5, <2>1 DEF AuthInv, LogsInToItsOwn
<1>8. TokensNameAccounts'
  <2> SUFFICES ASSUME NEW d \in AuthCallers, token'[d] # NoToken
               PROVE  \E i \in 1 .. n + 1 :
                        users'[i].id = token'[d].sub /\ users'[i].email = token'[d].email
    BY <1>5 DEF TokensNameAccounts
  <2>1. CASE d = c
    <3>1. token'[c].sub = time /\ token'[c].email = call[c].email
      BY <1>3
    <3>2. n + 1 \in 1 .. n + 1
      BY <1>2
    <3> QED
      BY <1>4, <1>5, <2>1, <3>1, <3>2
  <2>2. CASE d # c
    <3>1. token'[d] = token[d]
      BY <1>3, <2>2
    <3>2. PICK i \in 1 .. n : users[i].id = token[d].sub /\ users[i].email = token[d].email
      BY <1>2, <3>1 DEF AuthInv, TokensNameAccounts
    <3> QED
      BY <1>2, <1>5, <3>1, <3>2
  <2> QED
    BY <2>1, <2>2
<1>9. SecondWasFirst'
  <2> SUFFICES ASSUME NEW i \in 1 .. n + 1, NEW j \in 1 .. n + 1, i < j,
                      users'[i].email = users'[j].email
               PROVE  users'[j].known < i
    BY <1>5 DEF SecondWasFirst
  <2>1. i \in 1 .. n /\ users'[i] = users[i]
    BY <1>2, <1>5
  <2>2. CASE j = n + 1
    BY <1>1, <1>2, <1>4, <1>5, <2>1, <2>2
  <2>3. CASE j # n + 1
    <3>1. j \in 1 .. n /\ users'[j] = users[j]
      BY <1>2, <1>5, <2>3
    <3> QED
      BY <1>2, <2>1, <3>1 DEF AuthInv, SecondWasFirst
  <2> QED
    BY <2>2, <2>3
<1> QED
  BY <1>3, <1>5, <1>6, <1>7, <1>8, <1>9 DEF AuthInv

LEMMA KeptByLogin ==
    ASSUME AuthInv, NEW c \in AuthCallers, NEW e \in Emails, NEW p \in Passwords,
           Login(c, e, p)
    PROVE  AuthInv'
<1>1. /\ call'[c] = [op |-> "login", email |-> e, password |-> p, user |-> users[ByEmail(e)]]
      /\ \A d \in AuthCallers \ {c} : call'[d] = call[d]
      /\ DOMAIN call' = AuthCallers /\ UNCHANGED <<time, users, token>>
  BY DEF Login, AuthInv
<1>2. ByEmail(e) \in DOMAIN users /\ users[ByEmail(e)].email = e
  BY FirstOfEmail DEF Login, AuthInv
<1>3. RegistersUnknown'
  BY <1>1 DEF AuthInv, RegistersUnknown
<1>4. LogsInToItsOwn'
  BY <1>1, <1>2 DEF AuthInv, LogsInToItsOwn
<1> QED
  BY <1>1, <1>3, <1>4 DEF AuthInv, TokensNameAccounts, SecondWasFirst

LEMMA KeptByLoggedIn ==
    ASSUME AuthInv, NEW c \in AuthCallers, LoggedIn(c)
    PROVE  AuthInv'
<1>1. /\ call'[c] = NoCall /\ \A d \in AuthCallers \ {c} : call'[d] = call[d]
      /\ token'[c] \in {token[c], [email |-> call[c].email, sub |-> call[c].user.id]}
      /\ \A d \in AuthCallers \ {c} : token'[d] = token[d]
      /\ DOMAIN call' = AuthCallers /\ DOMAIN token' = AuthCallers
      /\ UNCHANGED <<time, users>> /\ call[c].op = "login" /\ NoCall.op = "none"
  BY DEF LoggedIn, AuthInv, NoCall
<1>2. PICK i \in DOMAIN users : users[i] = call[c].user /\ users[i].email = call[c].email
  BY <1>1 DEF AuthInv, LogsInToItsOwn
<1>3. RegistersUnknown' /\ LogsInToItsOwn'
  BY <1>1 DEF AuthInv, RegistersUnknown, LogsInToItsOwn
<1>4. TokensNameAccounts'
  BY <1>1, <1>2 DEF AuthInv, TokensNameAccounts
<1> QED
  BY <1>1, <1>3, <1>4 DEF AuthInv, SecondWasFirst

\* For any number of callers: of two accounts with one e-mail the second was
\* looked up before the first was there, and a token leads to an account of its
\* e-mail as long as no two accounts have one id.
THEOREM AccountsApart == AuthSpec => []AccountsAreKeptApart
<1>1. AuthInv /\ [AuthNext]_authVars => AuthInv'
  <2> SUFFICES ASSUME AuthInv, [AuthNext]_authVars PROVE AuthInv'
    OBVIOUS
  <2>1. CASE TimePasses
    BY <2>1 DEF TimePasses, AuthInv, RegistersUnknown, LogsInToItsOwn, TokensNameAccounts,
                SecondWasFirst
  <2>2. CASE UNCHANGED authVars
    BY <2>2 DEF authVars, AuthInv, RegistersUnknown, LogsInToItsOwn, TokensNameAccounts,
                SecondWasFirst
  <2> QED
    BY <2>1, <2>2, KeptByRegister, KeptByRegistered, KeptByLogin, KeptByLoggedIn DEF AuthNext
<1>2. AuthInv => AccountsAreKeptApart
  <2> SUFFICES ASSUME AuthInv PROVE AccountsAreKeptApart
    OBVIOUS
  <2>1. ASSUME NEW c \in AuthCallers, token[c] # NoToken
        PROVE  \/ users[ValidateUser(token[c].sub)].email = token[c].email
               \/ \E i, j \in DOMAIN users : i # j /\ users[i].id = users[j].id
    <3>1. PICK i \in DOMAIN users : users[i].id = token[c].sub /\ users[i].email = token[c].email
      BY <2>1 DEF AuthInv, TokensNameAccounts
    <3>2. /\ ValidateUser(token[c].sub) \in DOMAIN users
          /\ users[ValidateUser(token[c].sub)].id = token[c].sub
      BY <3>1, FirstOfId DEF AuthInv
    <3> QED
      BY <3>1, <3>2
  <2> QED
    BY <2>1 DEF AuthInv, SecondWasFirst, AccountsAreKeptApart
<1> QED
  BY AuthStarts, <1>1, <1>2, PTL DEF AuthSpec

-----------------------------------------------------------------------------
(* The cache.                                                              *)

Fields == {"op", "key", "val", "todo"}
Readers == {"getListed", "fetchListed", "storeListed"}
Raising == {c \in Clients : At(c, "increment")}

\* The entry of key k is yet to be reached by caller c.
Owes(c, k) ==
    /\ Key(c) = k
    /\ \/ client[c].op \in {"writeThrough", "invalidate", "pattern", "tag"}
       \/ client[c].op \in {"patternEach", "tagEach"} /\ k \in client[c].todo

CacheTypes ==
    /\ source \in [Keys -> Nat] /\ DOMAIN cache = Keys /\ DOMAIN listed = Versions
    /\ rows \in Nat /\ rows <= MaxRows /\ version \in Nat
    /\ DOMAIN client = Clients /\ \A c \in Clients : DOMAIN client[c] = Fields

\* Every version is due to a write whose increment is over.
RowsPayVersions ==
    IsFiniteSet(Raising) /\ version + Cardinality(Raising) <= rows

StaleIsCaused ==
    \A k \in Keys : cache[k] \notin {None, source[k]} =>
        k \in overtaken \/ \E c \in Clients : Owes(c, k)

\* What an invalidation by tag has not listed was tagged while it ran.
TagsReach ==
    /\ withTag \subseteq tagged \cup late
    /\ \A c \in Clients : At(c, "tagEach") => withTag \subseteq client[c].todo \cup late

\* Nobody stores under a version that is still to come.
VersionsAreNew ==
    /\ \A v \in Versions : v > GetVersion => listed[v] = None
    /\ \A c \in Clients : client[c].op \in Readers =>
            client[c].val \in Versions /\ client[c].val <= GetVersion

CacheInv ==
    /\ CacheTypes /\ RowsPayVersions /\ StaleIsCaused /\ TagsReach
    /\ VersionsAreNew /\ VersionHidesOldCopies

LEMMA FreeIsFree ==
    DOMAIN Free = Fields /\ Free.op = "free"
  BY DEF Free, Fields

LEMMA CacheStarts == CacheInit => CacheInv
<1> SUFFICES ASSUME CacheInit PROVE CacheInv
  OBVIOUS
<1>1. /\ source \in [Keys -> Nat] /\ DOMAIN cache = Keys /\ DOMAIN listed = Versions
      /\ rows = 0 /\ version = 0 /\ withTag = {}
      /\ DOMAIN client = Clients /\ \A c \in Clients : client[c] = Free
      /\ \A v \in Versions : listed[v] = None
      /\ \A k \in Keys : cache[k] = None
  BY DEF CacheInit
<1>2. CacheTypes
  BY <1>1, CacheAssumption, FreeIsFree DEF CacheTypes
<1>3. RowsPayVersions
  <2>1. Raising = {}
    BY <1>1, FreeIsFree DEF Raising, At
  <2>2. IsFiniteSet({}) /\ Cardinality({}) = 0
    BY FS_EmptySet
  <2> QED
    BY <1>1, <2>1, <2>2 DEF RowsPayVersions
<1>4. StaleIsCaused /\ TagsReach
  BY <1>1, FreeIsFree DEF StaleIsCaused, TagsReach, At
<1>5. VersionsAreNew /\ VersionHidesOldCopies
  <2>1. GetVersion = 1 /\ 1 \in Versions
    BY <1>1, CacheAssumption DEF GetVersion, Versions
  <2> QED
    BY <1>1, <2>1, FreeIsFree DEF VersionsAreNew, VersionHidesOldCopies, Readers
<1> QED
  BY <1>2, <1>3, <1>4, <1>5 DEF CacheInv

\* Only the caller that takes a step changes its operation.
LEMMA Moved ==
    ASSUME CacheTypes, NEW c \in Clients, NEW w, Become(c, w)
    PROVE  /\ DOMAIN client' = Clients /\ client'[c] = w
           /\ \A d \in Clients \ {c} : client'[d] = client[d]
  BY DEF CacheTypes, Become

\* The versioned keys are none of the other operations' business.
LEMMA VersionsStay ==
    ASSUME CacheInv, NEW c \in Clients, NEW w, Become(c, w), DOMAIN w = Fields,
           w.op \notin Readers \cup {"increment"}, ~At(c, "increment"),
           UNCHANGED <<rows, version, listed, behind>>,
           source' \in [Keys -> Nat], DOMAIN cache' = Keys
    PROVE  CacheTypes' /\ RowsPayVersions' /\ VersionsAreNew' /\ VersionHidesOldCopies'
<1>1. /\ DOMAIN client' = Clients /\ client'[c] = w
      /\ \A d \in Clients \ {c} : client'[d] = client[d]
  BY Moved DEF CacheInv
<1>2. \A d \in Clients : At(d, "increment")' <=> At(d, "increment")
  BY <1>1 DEF At
<1>3. Raising' = Raising
  BY <1>2 DEF Raising
<1>4. CacheTypes'
  BY <1>1 DEF CacheInv, CacheTypes
<1>5. RowsPayVersions'
  BY <1>3 DEF CacheInv, RowsPayVersions
<1>6. GetVersion' = GetVersion
  BY DEF GetVersion
<1>7. VersionsAreNew'
  BY <1>1, <1>6 DEF CacheInv, VersionsAreNew
<1>8. VersionHidesOldCopies'
  BY <1>2, <1>6 DEF CacheInv, VersionHidesOldCopies
<1> QED
  BY <1>4, <1>5, <1>7, <1>8

LEMMA TagsStay ==
    ASSUME CacheInv, NEW c \in Clients, NEW w, Become(c, w), w.op # "tagEach",
           UNCHANGED <<tagged, late>>, withTag' \subseteq withTag
    PROVE  TagsReach'
<1>1. client'[c] = w /\ \A d \in Clients \ {c} : client'[d] = client[d]
  BY Moved DEF CacheInv
<1>2. \A d \in Clients : At(d, "tagEach")' => At(d, "tagEach") /\ client'[d] = client[d]
  BY <1>1 DEF At
<1> QED
  BY <1>2 DEF CacheInv, TagsReach

\* An entry stays explained when it goes, is current, has a cause, or is neither
\* touched nor given up.
LEMMA CausesStay ==
    ASSUME CacheInv, NEW c \in Clients, NEW w, Become(c, w), source' = source,
           \A k \in Keys :
              \/ cache'[k] \in {None, source[k]} \/ k \in overtaken'
              \/ cache'[k] = cache[k] /\ k \notin overtaken /\ (Owes(c, k) => Owes(c, k)')
    PROVE  StaleIsCaused'
<1>1. client'[c] = w /\ \A d \in Clients \ {c} : client'[d] = client[d]
  BY Moved DEF CacheInv
<1>2. \A d \in Clients \ {c}, k \in Keys : Owes(d, k) => Owes(d, k)'
  BY <1>1 DEF Owes, Key
<1> SUFFICES ASSUME NEW k \in Keys, cache'[k] \notin {None, source[k]}, k \notin overtaken'
             PROVE  \E d \in Clients : Owes(d, k)'
  BY DEF StaleIsCaused
<1>3. cache'[k] = cache[k] /\ k \notin overtaken /\ (Owes(c, k) => Owes(c, k)')
  OBVIOUS
<1>4. PICK d \in Clients : Owes(d, k)
  BY <1>3 DEF CacheInv, StaleIsCaused
<1>5. Owes(d, k)'
  BY <1>2, <1>3, <1>4
<1> QED
  BY <1>5

\* What set leaves behind under its own key and under the others.
LEMMA SetExplains ==
    ASSUME CacheTypes, NEW k, NEW v, Set(k, v), NEW j \in Keys
    PROVE  /\ DOMAIN cache' = Keys
           /\ j = k => cache'[j] \in {None, source[j]} \/ j \in overtaken'
           /\ j # k => cache'[j] = cache[j] /\ (j \in overtaken => j \in overtaken')
<1>1. DOMAIN cache = Keys
  BY DEF CacheTypes
<1>2. CASE /\ cache' = [cache EXCEPT ![k] = v]
           /\ overtaken' = IF v # source[k] THEN overtaken \cup {k} ELSE overtaken \ {k}
  BY <1>1, <1>2
<1>3. CASE /\ cache' = cache
           /\ overtaken' = IF cache[k] # None THEN overtaken \cup {k} ELSE overtaken
  BY <1>1, <1>3
<1> QED
  BY <1>2, <1>3 DEF Set

LEMMA KeptByGet ==
    ASSUME CacheInv, NEW c \in Clients, NEW k \in Keys, GetOrSet(c, k)
    PROVE  CacheInv'
<1>1. PICK w : /\ Become(c, w) /\ DOMAIN w = Fields /\ w.op \in {"free", "fetch"}
  <2>1. CASE Done(c)
    BY <2>1, FreeIsFree DEF Done
  <2>2. CASE Become(c, [Free EXCEPT !.op = "fetch", !.key = k])
    <3> DEFINE w == [Free EXCEPT !.op = "fetch", !.key = k]
    <3>1. DOMAIN w = Fields /\ w.op = "fetch"
      BY FreeIsFree DEF Fields
    <3> QED
      BY <2>2, <3>1
  <2> QED
    BY <2>1, <2>2 DEF GetOrSet
<1>2. /\ At(c, "free")
      /\ UNCHANGED <<source, cache, rows, tagged, version, listed, overtaken, withTag, late, behind>>
  BY DEF GetOrSet, redis, history
<1>3. \A k1 \in Keys : ~Owes(c, k1)
  BY <1>2 DEF Owes, At
<1>4. StaleIsCaused'
  BY <1>1, <1>2, <1>3, CausesStay
<1>5. TagsReach'
  BY <1>1, <1>2, TagsStay
<1> QED
  BY <1>1, <1>2, <1>4, <1>5, VersionsStay DEF CacheInv, CacheTypes, At, Readers

LEMMA KeptByFetch ==
    ASSUME CacheInv, NEW c \in Clients, Fetch(c)
    PROVE  CacheInv'
<1>1. PICK w : /\ Become(c, w) /\ DOMAIN w = Fields /\ w.op \in {"store", "setWithTags"}
  <2>1. PICK op \in {"store", "setWithTags"} :
            Become(c, [client[c] EXCEPT !.op = op, !.val = source[Key(c)]])
    BY DEF Fetch
  <2> DEFINE w == [client[c] EXCEPT !.op = op, !.val = source[Key(c)]]
  <2>2. DOMAIN client[c] = Fields
    BY DEF CacheInv, CacheTypes
  <2>3. DOMAIN w = Fields /\ w.op = op
    BY <2>2 DEF Fields
  <2> QED
    BY <2>1, <2>3
<1>2. /\ At(c, "fetch")
      /\ UNCHANGED <<source, cache, rows, tagged, version, listed, overtaken, withTag, late, behind>>
  BY DEF Fetch, redis, history
<1>3. \A k \in Keys : ~Owes(c, k)
  BY <1>2 DEF Owes, At
<1>4. StaleIsCaused'
  BY <1>1, <1>2, <1>3, CausesStay
<1>5. TagsReach'
  BY <1>1, <1>2, TagsStay
<1> QED
  BY <1>1, <1>2, <1>4, <1>5, VersionsStay DEF CacheInv, CacheTypes, At, Readers

LEMMA KeptByStore ==
    ASSUME CacheInv, NEW c \in Clients, Store(c)
    PROVE  CacheInv'
<1>1. /\ At(c, "store") \/ At(c, "writeThrough")
      /\ Set(Key(c), client[c].val) /\ Become(c, Free)
      /\ UNCHANGED <<source, rows, tagged, version, listed, withTag, late, behind>>
  BY DEF Store, Done
<1>2. DOMAIN cache' = Keys
  BY <1>1 DEF Set, CacheInv, CacheTypes
<1>3. ASSUME NEW k \in Keys
      PROVE  \/ cache'[k] \in {None, source[k]} \/ k \in overtaken'
             \/ cache'[k] = cache[k] /\ k \notin overtaken /\ (Owes(c, k) => Owes(c, k)')
  <2>1. k # Key(c) => ~Owes(c, k)
    BY DEF Owes
  <2> QED
    BY <1>1, <2>1, SetExplains DEF CacheInv
<1>4. StaleIsCaused'
  BY <1>1, <1>3, CausesStay
<1>5. TagsReach'
  BY <1>1, FreeIsFree, TagsStay
<1> QED
  BY <1>1, <1>2, <1>4, <1>5, FreeIsFree, VersionsStay DEF CacheInv, CacheTypes, At, Readers

LEMMA KeptByWrite ==
    ASSUME CacheInv, NEW c \in Clients, NEW k \in Keys,
           NEW how \in {"writeThrough", "invalidate", "pattern", "tag"}, Write(c, k, how)
    PROVE  CacheInv'
<1>1. PICK w : Become(c, w) /\ DOMAIN w = Fields /\ w.op = how /\ w.key = k
  <2> DEFINE w == [Free EXCEPT !.op = how, !.key = k,
                               !.val = IF how = "writeThrough" THEN source[k] + 1 ELSE None]
  <2>1. DOMAIN w = Fields /\ w.op = how /\ w.key = k
    BY FreeIsFree DEF Fields
  <2> QED
    BY <2>1 DEF Write
<1>2. /\ At(c, "free") /\ source' = [source EXCEPT ![k] = source[k] + 1]
      /\ UNCHANGED <<cache, rows, tagged, version, listed, overtaken, withTag, late, behind>>
  BY DEF Write, redis, history
<1>3. source \in [Keys -> Nat] /\ source' \in [Keys -> Nat]
      /\ \A j \in Keys \ {k} : source'[j] = source[j]
  BY <1>2 DEF CacheInv, CacheTypes
<1>4. client'[c] = w /\ \A d \in Clients \ {c} : client'[d] = client[d]
  BY <1>1, Moved DEF CacheInv
<1>5. StaleIsCaused'
  <2>1. Owes(c, k)'
    BY <1>1, <1>4 DEF Owes, Key
  <2>2. ASSUME NEW j \in Keys \ {k}, cache'[j] \notin {None, source'[j]}, j \notin overtaken'
        PROVE  \E d \in Clients : Owes(d, j)'
    <3>1. PICK d \in Clients : Owes(d, j)
      BY <1>2, <1>3, <2>2 DEF CacheInv, StaleIsCaused
    <3>2. d # c
      BY <1>2, <3>1 DEF Owes, At
    <3>3. Owes(d, j)'
      BY <1>4, <3>1, <3>2 DEF Owes, Key
    <3> QED
      BY <3>3
  <2> QED
    BY <2>1, <2>2 DEF StaleIsCaused
<1>6. TagsReach'
  BY <1>1, <1>2, TagsStay
<1> QED
  BY <1>1, <1>2, <1>3, <1>5, <1>6, VersionsStay DEF CacheInv, CacheTypes, At, Readers

\* An invalidation that is cut short leaves a cause behind.
LEMMA KeptByGivingUp ==
    ASSUME CacheInv, NEW c \in Clients, NEW keys, GiveUp(c, keys), ~At(c, "increment"),
           \A k \in Keys : Owes(c, k) => k \in keys
    PROVE  CacheInv'
<1>1. /\ overtaken' = overtaken \cup {k \in keys : cache[k] # None} /\ Become(c, Free)
      /\ UNCHANGED <<source, rows, cache, tagged, version, listed, withTag, late, behind>>
  BY DEF GiveUp, Done, redis
<1>2. StaleIsCaused'
  BY <1>1, CausesStay
<1>3. TagsReach'
  BY <1>1, FreeIsFree, TagsStay
<1> QED
  BY <1>1, <1>2, <1>3, FreeIsFree, VersionsStay DEF CacheInv, CacheTypes, Readers

\* A deletion leaves less to explain.
LEMMA KeptByDeletion ==
    ASSUME CacheInv, NEW c \in Clients, NEW k, Delete(k), NEW w, Become(c, w),
           DOMAIN w = Fields, w.op \in {"free", "patternEach", "tagEach"}, ~At(c, "increment"),
           w.op = "tagEach" => At(c, "tagEach") /\ client[c].todo \subseteq w.todo \cup {k},
           \A j \in Keys \ {k} : Owes(c, j) => Owes(c, j)'
    PROVE  CacheInv'
<1>1. /\ cache' = [cache EXCEPT ![k] = None] /\ withTag' = withTag \ {k}
      /\ UNCHANGED <<source, rows, tagged, version, listed, overtaken, late, behind>>
  BY DEF Delete
<1>2. DOMAIN cache' = Keys /\ \A j \in Keys : cache'[j] = IF j = k THEN None ELSE cache[j]
  BY <1>1 DEF CacheInv, CacheTypes
<1>3. StaleIsCaused'
  BY <1>1, <1>2, CausesStay
<1>4. TagsReach'
  <2>1. CASE w.op # "tagEach"
    BY <1>1, <2>1, TagsStay
  <2>2. CASE w.op = "tagEach"
    <3>1. client'[c] = w /\ \A d \in Clients \ {c} : client'[d] = client[d]
      BY Moved DEF CacheInv
    <3>2. \A d \in Clients : At(d, "tagEach")' =>
            At(d, "tagEach") /\ client[d].todo \subseteq client'[d].todo \cup {k}
      BY <2>2, <3>1 DEF At
    <3>3. \A d \in Clients : At(d, "tagEach")' => withTag' \subseteq client'[d].todo \cup late'
      BY <1>1, <3>2 DEF CacheInv, TagsReach
    <3> QED
      BY <1>1, <3>3 DEF CacheInv, TagsReach
  <2> QED
    BY <2>1, <2>2
<1> QED
  BY <1>1, <1>2, <1>3, <1>4, VersionsStay DEF CacheInv, CacheTypes, Readers

LEMMA KeptByInvalidate ==
    ASSUME CacheInv, NEW c \in Clients, Invalidate(c)
    PROVE  CacheInv'
<1>1. At(c, "invalidate") /\ \A k \in Keys : Owes(c, k) => k = Key(c)
  BY DEF Invalidate, Owes
<1>2. CASE Delete(Key(c)) /\ Done(c)
  BY <1>1, <1>2, FreeIsFree, KeptByDeletion DEF Done, At
<1>3. CASE GiveUp(c, {Key(c)})
  BY <1>1, <1>3, KeptByGivingUp DEF At
<1> QED
  BY <1>2, <1>3 DEF Invalidate

LEMMA KeptByListing ==
    ASSUME CacheInv, NEW c \in Clients, NEW op \in {"pattern", "tag"}, NEW keys,
           Listing(c, op, keys), op = "tag" => keys = tagged
    PROVE  CacheInv'
<1>1. /\ At(c, op)
      /\ overtaken' = overtaken \cup ({Key(c)} \ keys)
      /\ UNCHANGED <<source, rows, cache, tagged, version, listed, withTag, late, behind>>
  BY DEF Listing, redis
<1>2. PICK w : /\ Become(c, w) /\ DOMAIN w = Fields
               /\ \/ w.op = "free" /\ keys = {}
                  \/ /\ w.op = (IF op = "pattern" THEN "patternEach" ELSE "tagEach")
                     /\ w.key = Key(c) /\ w.todo = keys
  <2> DEFINE w == [client[c] EXCEPT !.op = Each[op], !.todo = keys]
  <2>1. DOMAIN client[c] = Fields
    BY DEF CacheInv, CacheTypes
  <2>2. Each[op] = IF op = "pattern" THEN "patternEach" ELSE "tagEach"
    BY DEF Each
  <2>3. DOMAIN w = Fields /\ w.op = Each[op] /\ w.key = Key(c) /\ w.todo = keys
    BY <2>1 DEF Fields, Key
  <2>4. (Become(c, Free) /\ keys = {}) \/ Become(c, w)
    BY DEF Listing, Done
  <2> HIDE DEF w
  <2> QED
    BY <2>2, <2>3, <2>4, FreeIsFree
<1>3. client'[c] = w /\ \A d \in Clients \ {c} : client'[d] = client[d]
  BY <1>2, Moved DEF CacheInv
<1>4. w.op \in {"free", "patternEach", "tagEach"} /\ (w.op = "tagEach" => op = "tag")
  BY <1>2
<1>5. StaleIsCaused'
  <2>1. ASSUME NEW d \in Clients, NEW k \in Keys, Owes(d, k)
        PROVE  Owes(d, k)' \/ k \in overtaken'
    <3>1. CASE d = c
      <4>1. k = Key(c)
        BY <2>1, <3>1 DEF Owes
      <4>2. CASE k \notin keys
        BY <1>1, <4>1, <4>2
      <4>3. CASE k \in keys
        <5>1. w.op \in {"patternEach", "tagEach"} /\ w.key = k /\ w.todo = keys
          BY <1>2, <4>1, <4>3
        <5> QED
          BY <1>3, <3>1, <4>3, <5>1 DEF Owes, Key
      <4> QED
        BY <4>2, <4>3
    <3>2. CASE d # c
      BY <1>3, <2>1, <3>2 DEF Owes, Key
    <3> QED
      BY <3>1, <3>2
  <2> QED
    BY <1>1, <2>1 DEF CacheInv, StaleIsCaused
<1>6. TagsReach'
  <2>1. ASSUME NEW d \in Clients, At(d, "tagEach")'
        PROVE  withTag' \subseteq client'[d].todo \cup late'
    <3>1. CASE d = c
      <4>1. w.op = "tagEach"
        BY <1>3, <2>1, <3>1 DEF At
      <4>2. w.todo = tagged
        BY <1>2, <1>4, <4>1
      <4> QED
        BY <1>1, <1>3, <3>1, <4>2 DEF CacheInv, TagsReach
    <3>2. CASE d # c
      BY <1>1, <1>3, <2>1, <3>2 DEF CacheInv, TagsReach, At
    <3> QED
      BY <3>1, <3>2
  <2> QED
    BY <1>1, <2>1 DEF CacheInv, TagsReach
<1> QED
  BY <1>1, <1>2, <1>4, <1>5, <1>6, VersionsStay DEF CacheInv, CacheTypes, At, Readers

LEMMA KeptByDeletingEach ==
    ASSUME CacheInv, NEW c \in Clients, NEW op \in {"pattern", "tag"}, DeleteEach(c, op)
    PROVE  CacheInv'
<1>1. /\ client[c].op = Each[op] /\ Each[op] \in {"patternEach", "tagEach"}
      /\ \A k \in Keys : Owes(c, k) => k \in client[c].todo
  BY DEF DeleteEach, At, Each, Owes
<1>2. ASSUME NEW k \in client[c].todo, Delete(k),
             Become(c, [client[c] EXCEPT !.todo = client[c].todo \ {k}])
      PROVE  CacheInv'
  <2> DEFINE w == [client[c] EXCEPT !.todo = client[c].todo \ {k}]
  <2>1. DOMAIN client[c] = Fields
    BY DEF CacheInv, CacheTypes
  <2>2. /\ DOMAIN w = Fields /\ w.op = client[c].op /\ w.key = Key(c)
        /\ w.todo = client[c].todo \ {k} /\ Become(c, w)
    BY <1>2, <2>1 DEF Fields, Key
  <2> HIDE DEF w
  <2>3. client'[c] = w
    BY <2>2, Moved DEF CacheInv
  <2>4. \A j \in Keys \ {k} : Owes(c, j) => Owes(c, j)'
    BY <1>1, <2>2, <2>3 DEF Owes, Key
  <2>5. /\ ~At(c, "increment") /\ w.op \in {"free", "patternEach", "tagEach"}
        /\ (w.op = "tagEach" => At(c, "tagEach") /\ client[c].todo \subseteq w.todo \cup {k})
    BY <1>1, <2>2 DEF At
  <2> QED
    BY <1>2, <2>2, <2>4, <2>5, KeptByDeletion
<1>3. CASE GiveUp(c, client[c].todo)
  BY <1>1, <1>3, KeptByGivingUp DEF At
<1> QED
  BY <1>2, <1>3 DEF DeleteEach

LEMMA KeptByEnding ==
    ASSUME CacheInv, NEW c \in Clients, NEW op \in {"pattern", "tag"}, Listed(c, op), Done(c),
           UNCHANGED <<source, rows, cache, version, listed, overtaken, withTag, late, behind>>,
           tagged' = tagged \/ (op = "tag" /\ tagged' = {})
    PROVE  CacheInv'
<1>1. /\ client[c].op \in {"patternEach", "tagEach"} /\ client[c].todo = {}
      /\ (op = "tag" => client[c].op = "tagEach") /\ Become(c, Free)
  BY DEF Listed, At, Each, Done
<1>2. \A k \in Keys : ~Owes(c, k)
  BY <1>1 DEF Owes
<1>3. StaleIsCaused'
  BY <1>1, <1>2, CausesStay
<1>4. TagsReach'
  <2>1. CASE tagged' = tagged
    BY <1>1, <2>1, FreeIsFree, TagsStay
  <2>2. CASE op = "tag" /\ tagged' = {}
    <3>1. withTag \subseteq late
      BY <1>1, <2>2 DEF CacheInv, TagsReach, At
    <3> QED
      BY <1>1, <3>1 DEF TagsReach
  <2> QED
    BY <2>1, <2>2
<1> QED
  BY <1>1, <1>3, <1>4, FreeIsFree, VersionsStay DEF CacheInv, CacheTypes, At, Readers

LEMMA KeptByInvalidations ==
    ASSUME CacheInv, NEW c \in Clients,
           InvalidatePattern(c) \/ InvalidateByTag(c) \/ InvalidationFails(c)
    PROVE  CacheInv'
<1>1. CASE Listing(c, "pattern", {k \in Keys : cache[k] # None}) \/ Listing(c, "tag", tagged)
  BY <1>1, KeptByListing
<1>2. CASE DeleteEach(c, "pattern") \/ DeleteEach(c, "tag")
  BY <1>2, KeptByDeletingEach
<1>3. CASE Listed(c, "pattern") /\ Done(c) /\ UNCHANGED <<source, rows, redis, history>>
  <2>1. /\ Listed(c, "pattern") /\ Done(c) /\ tagged' = tagged
        /\ UNCHANGED <<source, rows, cache, version, listed, overtaken, withTag, late, behind>>
    BY <1>3 DEF redis, history
  <2> QED
    BY <2>1, KeptByEnding
<1>4. CASE DropTag(c)
  <2>1. /\ Listed(c, "tag") /\ Done(c) /\ tagged' = {}
        /\ UNCHANGED <<source, rows, cache, version, listed, overtaken, withTag, late, behind>>
    BY <1>4 DEF DropTag, history
  <2> QED
    BY <2>1, KeptByEnding
<1>5. CASE InvalidationFails(c)
  <2>1. GiveUp(c, {Key(c)}) /\ client[c].op \in {"pattern", "tag", "tagEach"}
    BY <1>5 DEF InvalidationFails, Listed, At, Each
  <2>2. \A k \in Keys : Owes(c, k) => k \in {Key(c)}
    BY DEF Owes
  <2> QED
    BY <2>1, <2>2, KeptByGivingUp DEF At
<1> QED
  BY <1>1, <1>2, <1>3, <1>4, <1>5 DEF InvalidatePattern, InvalidateByTag

LEMMA KeptByTagging ==
    ASSUME CacheInv, NEW c \in Clients, SetWithTags(c)
    PROVE  CacheInv'
<1>1. CASE /\ At(c, "setWithTags")
           /\ Set(Key(c), client[c].val)
           /\ Become(c, [client[c] EXCEPT !.op = "sadd"])
           /\ UNCHANGED <<source, rows, tagged, version, listed, withTag, late, behind>>
  <2> DEFINE w == [client[c] EXCEPT !.op = "sadd"]
  <2>1. DOMAIN client[c] = Fields
    BY DEF CacheInv, CacheTypes
  <2>2. DOMAIN w = Fields /\ w.op = "sadd" /\ Become(c, w)
    BY <1>1, <2>1 DEF Fields
  <2> HIDE DEF w
  <2>3. DOMAIN cache' = Keys
    BY <1>1 DEF Set, CacheInv, CacheTypes
  <2>4. \A k \in Keys : k # Key(c) => ~Owes(c, k)
    BY DEF Owes
  <2>5. StaleIsCaused'
    <3>1. ASSUME NEW k \in Keys
          PROVE  \/ cache'[k] \in {None, source[k]} \/ k \in overtaken'
                 \/ cache'[k] = cache[k] /\ k \notin overtaken /\ (Owes(c, k) => Owes(c, k)')
      BY <1>1, <2>4, SetExplains DEF CacheInv
    <3> QED
      BY <1>1, <2>2, <3>1, CausesStay
  <2>6. TagsReach'
    BY <1>1, <2>2, TagsStay
  <2> QED
    BY <1>1, <2>2, <2>3, <2>5, <2>6, VersionsStay DEF CacheInv, CacheTypes, At, Readers
<1>2. CASE /\ At(c, "sadd")
           /\ tagged' = tagged \cup {Key(c)}
           /\ withTag' = withTag \cup {Key(c)}
           /\ late' = IF \E d \in Clients : At(d, "tagEach") THEN late \cup {Key(c)} ELSE late
           /\ Done(c)
           /\ UNCHANGED <<source, rows, cache, version, listed, overtaken, behind>>
  <2>1. client'[c] = Free /\ \A d \in Clients \ {c} : client'[d] = client[d]
    BY <1>2, Moved DEF CacheInv, Done
  <2>2. \A k \in Keys : ~Owes(c, k)
    BY <1>2 DEF Owes, At
  <2>3. StaleIsCaused'
    BY <1>2, <2>2, CausesStay DEF Done
  <2>4. TagsReach'
    <3>1. \A d \in Clients : At(d, "tagEach")' => At(d, "tagEach") /\ client'[d] = client[d]
      BY <2>1, FreeIsFree DEF At
    <3> QED
      BY <1>2, <3>1 DEF CacheInv, TagsReach
  <2> QED
    BY <1>2, <2>3, <2>4, FreeIsFree, VersionsStay DEF CacheInv, CacheTypes, At, Readers, Done
<1>3. CASE At(c, "sadd") /\ Done(c) /\ UNCHANGED <<source, rows, redis, history>>
  <2>1. /\ Become(c, Free) /\ At(c, "sadd")
        /\ UNCHANGED <<source, cache, rows, tagged, version, listed, overtaken, withTag, late, behind>>
    BY <1>3 DEF redis, history, Done
  <2>2. \A k \in Keys : ~Owes(c, k)
    BY <1>3 DEF Owes, At
  <2>3. StaleIsCaused' /\ TagsReach'
    BY <2>1, <2>2, FreeIsFree, CausesStay, TagsStay
  <2> QED
    BY <2>1, <2>3, FreeIsFree, VersionsStay DEF CacheInv, CacheTypes, At, Readers
<1> QED
  BY <1>1, <1>2, <1>3 DEF SetWithTags

LEMMA KeptByExpiry ==
    ASSUME CacheInv, NEW k \in Keys, ExpireEntry(k)
    PROVE  CacheInv'
<1>1. /\ cache' = [cache EXCEPT ![k] = None] /\ withTag' = withTag \ {k}
      /\ UNCHANGED <<source, rows, tagged, version, listed, overtaken, late, behind, client>>
  BY DEF ExpireEntry, Delete
<1>2. DOMAIN cache' = Keys /\ \A j \in Keys : cache'[j] = IF j = k THEN None ELSE cache[j]
  BY <1>1 DEF CacheInv, CacheTypes
<1>3. \A d, j : Owes(d, j)' <=> Owes(d, j)
  BY <1>1 DEF Owes, Key
<1>4. StaleIsCaused'
  BY <1>1, <1>2, <1>3 DEF CacheInv, StaleIsCaused
<1>5. TagsReach'
  BY <1>1 DEF CacheInv, TagsReach, At
<1>6. CacheTypes' /\ Raising' = Raising
  BY <1>1, <1>2 DEF CacheInv, CacheTypes, Raising, At
<1>7. RowsPayVersions' /\ VersionsAreNew' /\ VersionHidesOldCopies'
  BY <1>1, <1>6 DEF CacheInv, RowsPayVersions, VersionsAreNew, VersionHidesOldCopies, GetVersion, At
<1> QED
  BY <1>4, <1>5, <1>6, <1>7 DEF CacheInv

LEMMA KeptByVersionedReads ==
    ASSUME CacheInv, NEW c \in Clients,
           GetVersionedKey(c) \/ GetListed(c) \/ FetchListed(c)
    PROVE  CacheInv'
<1>1. /\ client[c].op \in {"free", "getListed", "fetchListed"}
      /\ UNCHANGED <<source, cache, rows, tagged, version, listed, overtaken, withTag, late, behind>>
  BY DEF GetVersionedKey, GetListed, FetchListed, redis, history, At
<1>2. GetVersion \in Versions /\ GetVersion <= GetVersion
  <2>1. version \in Nat /\ version <= MaxRows
    <3>1. Cardinality(Raising) \in Nat
      BY FS_CardinalityType DEF CacheInv, RowsPayVersions
    <3> QED
      BY <3>1, CacheAssumption DEF CacheInv, CacheTypes, RowsPayVersions
  <2> QED
    BY <2>1, CacheAssumption DEF GetVersion, Versions
<1>3. PICK w : /\ Become(c, w) /\ DOMAIN w = Fields /\ w.op \in Readers \cup {"free"}
               /\ w.op \in Readers => w.val \in Versions /\ w.val <= GetVersion
  <2>1. DOMAIN client[c] = Fields
    BY DEF CacheInv, CacheTypes
  <2>2. CASE GetVersionedKey(c)
    <3> DEFINE w == [Free EXCEPT !.op = "getListed", !.val = GetVersion]
    <3>1. DOMAIN w = Fields /\ w.op = "getListed" /\ w.val = GetVersion /\ Become(c, w)
      BY <2>2, FreeIsFree DEF GetVersionedKey, Fields
    <3> HIDE DEF w
    <3> QED
      BY <1>2, <3>1 DEF Readers
  <2>3. CASE GetListed(c)
    <3> DEFINE w == [client[c] EXCEPT !.op = "fetchListed"]
    <3>1. DOMAIN w = Fields /\ w.op = "fetchListed" /\ w.val = client[c].val
      BY <2>1 DEF Fields
    <3>2. client[c].val \in Versions /\ client[c].val <= GetVersion
      BY <2>3 DEF GetListed, At, CacheInv, VersionsAreNew, Readers
    <3>3. Become(c, Free) \/ Become(c, w)
      BY <2>3 DEF GetListed, Done
    <3> HIDE DEF w
    <3> QED
      BY <3>1, <3>2, <3>3, FreeIsFree DEF Readers
  <2>4. CASE FetchListed(c)
    <3> DEFINE w == [client[c] EXCEPT !.op = "storeListed", !.key = rows]
    <3>1. DOMAIN w = Fields /\ w.op = "storeListed" /\ w.val = client[c].val
      BY <2>1 DEF Fields
    <3>2. client[c].val \in Versions /\ client[c].val <= GetVersion
      BY <2>4 DEF FetchListed, At, CacheInv, VersionsAreNew, Readers
    <3>3. Become(c, w)
      BY <2>4 DEF FetchListed
    <3> HIDE DEF w
    <3> QED
      BY <3>1, <3>2, <3>3 DEF Readers
  <2> QED
    BY <2>2, <2>3, <2>4
<1>4. client'[c] = w /\ DOMAIN client' = Clients /\ \A d \in Clients \ {c} : client'[d] = client[d]
  BY <1>3, Moved DEF CacheInv
<1>5. \A d \in Clients : At(d, "increment")' <=> At(d, "increment")
  BY <1>1, <1>3, <1>4 DEF At, Readers
<1>6. Raising' = Raising /\ GetVersion' = GetVersion
  BY <1>1, <1>5 DEF Raising, GetVersion
<1>7. CacheTypes' /\ RowsPayVersions'
  BY <1>1, <1>3, <1>4, <1>6 DEF CacheInv, CacheTypes, RowsPayVersions
<1>8. StaleIsCaused'
  <2>1. \A k \in Keys : ~Owes(c, k)
    BY <1>1 DEF Owes
  <2> QED
    BY <1>1, <1>3, <2>1, CausesStay
<1>9. TagsReach'
  BY <1>1, <1>3, TagsStay DEF Readers
<1>10. VersionsAreNew'
  BY <1>1, <1>3, <1>4, <1>6 DEF CacheInv, VersionsAreNew
<1>11. VersionHidesOldCopies'
  BY <1>1, <1>5, <1>6 DEF CacheInv, VersionHidesOldCopies
<1> QED
  BY <1>7, <1>8, <1>9, <1>10, <1>11 DEF CacheInv

LEMMA KeptByStoringListed ==
    ASSUME CacheInv, NEW c \in Clients, StoreListed(c)
    PROVE  CacheInv'
<1>1. /\ At(c, "storeListed") /\ Become(c, Free)
      /\ UNCHANGED <<source, cache, rows, tagged, version, overtaken, withTag, late>>
  BY DEF StoreListed, Done
<1>2. PICK v \in Versions : v = client[c].val /\ v <= GetVersion
  BY <1>1 DEF At, CacheInv, VersionsAreNew, Readers
<1>3. \/ /\ listed' = [listed EXCEPT ![v] = Key(c)]
         /\ behind' = IF Key(c) # rows THEN behind \cup {v} ELSE behind \ {v}
      \/ UNCHANGED <<listed, behind>>
  BY <1>2 DEF StoreListed
<1>4. /\ client'[c] = Free /\ DOMAIN client' = Clients
      /\ \A d \in Clients \ {c} : client'[d] = client[d]
  BY <1>1, Moved DEF CacheInv
<1>5. \A d \in Clients : At(d, "increment")' <=> At(d, "increment")
  BY <1>1, <1>4, FreeIsFree DEF At
<1>6. Raising' = Raising /\ GetVersion' = GetVersion
  BY <1>1, <1>5 DEF Raising, GetVersion
<1>7. CacheTypes' /\ RowsPayVersions'
  BY <1>1, <1>3, <1>4, <1>6, FreeIsFree DEF CacheInv, CacheTypes, RowsPayVersions
<1>8. StaleIsCaused'
  <2>1. \A k \in Keys : ~Owes(c, k)
    BY <1>1 DEF Owes, At
  <2> QED
    BY <1>1, <2>1, CausesStay
<1>9. TagsReach'
  BY <1>1, FreeIsFree, TagsStay
<1>10. \A u \in Versions \ {v} : listed'[u] = listed[u] /\ (u \in behind => u \in behind')
  BY <1>3 DEF CacheInv, CacheTypes
<1>11. v \in behind' \/ listed'[v] = rows \/ UNCHANGED <<listed, behind>>
  BY <1>3 DEF CacheInv, CacheTypes
<1>12. VersionsAreNew'
  <2>1. ASSUME NEW u \in Versions, u > GetVersion PROVE listed'[u] = None
    <3>1. u # v
      <4>1. u \in Int /\ v \in Int /\ GetVersion \in Int
        BY DEF Versions, GetVersion, CacheInv, CacheTypes
      <4> QED
        BY <1>2, <2>1, <4>1
    <3> QED
      BY <1>10, <2>1, <3>1 DEF CacheInv, VersionsAreNew
  <2>2. \A d \in Clients : client'[d].op \in Readers => client'[d] = client[d]
    BY <1>4, FreeIsFree DEF Readers
  <2> QED
    BY <1>6, <2>1, <2>2 DEF CacheInv, VersionsAreNew
<1>13. VersionHidesOldCopies'
  <2>1. GetVersion \in Versions
    <3>1. version \in Nat /\ version <= MaxRows
      <4>1. Cardinality(Raising) \in Nat
        BY FS_CardinalityType DEF CacheInv, RowsPayVersions
      <4> QED
        BY <4>1, CacheAssumption DEF CacheInv, CacheTypes, RowsPayVersions
    <3> QED
      BY <3>1, CacheAssumption DEF GetVersion, Versions
  <2>2. CASE GetVersion = v
    BY <1>1, <1>5, <1>6, <1>11, <2>2 DEF CacheInv, VersionHidesOldCopies
  <2>3. CASE GetVersion # v
    BY <1>1, <1>5, <1>6, <1>10, <2>1, <2>3 DEF CacheInv, VersionHidesOldCopies
  <2> QED
    BY <2>2, <2>3
<1> QED
  BY <1>7, <1>8, <1>9, <1>12, <1>13 DEF CacheInv

LEMMA KeptByWritingRows ==
    ASSUME CacheInv, NEW c \in Clients, WriteRows(c)
    PROVE  CacheInv'
<1> DEFINE w == [Free EXCEPT !.op = "increment"]
<1>1. DOMAIN w = Fields /\ w.op = "increment"
  BY FreeIsFree DEF Fields
<1>2. /\ At(c, "free") /\ rows < MaxRows /\ rows' = rows + 1 /\ Become(c, w)
      /\ UNCHANGED <<source, cache, tagged, version, listed, overtaken, withTag, late, behind>>
  BY DEF WriteRows, redis, history
<1> HIDE DEF w
<1>3. client'[c] = w /\ DOMAIN client' = Clients /\ \A d \in Clients \ {c} : client'[d] = client[d]
  BY <1>2, Moved DEF CacheInv
<1>4. Raising' = Raising \cup {c} /\ c \notin Raising /\ At(c, "increment")'
  BY <1>1, <1>2, <1>3 DEF Raising, At
<1>5. CacheTypes'
  BY <1>1, <1>2, <1>3, CacheAssumption DEF CacheInv, CacheTypes
<1>6. RowsPayVersions'
  <2>1. /\ IsFiniteSet(Raising) /\ Cardinality(Raising) \in Nat
        /\ version + Cardinality(Raising) <= rows
    BY FS_CardinalityType DEF CacheInv, RowsPayVersions
  <2>2. IsFiniteSet(Raising \cup {c}) /\ Cardinality(Raising \cup {c}) = Cardinality(Raising) + 1
    BY <1>4, <2>1, FS_AddElement
  <2> QED
    BY <1>2, <1>4, <2>1, <2>2 DEF CacheInv, CacheTypes, RowsPayVersions
<1>7. StaleIsCaused'
  <2>1. \A k \in Keys : ~Owes(c, k)
    BY <1>2 DEF Owes, At
  <2> QED
    BY <1>2, <2>1, CausesStay
<1>8. TagsReach'
  BY <1>1, <1>2, TagsStay
<1>9. VersionsAreNew'
  BY <1>1, <1>2, <1>3 DEF CacheInv, VersionsAreNew, GetVersion, Readers
<1>10. VersionHidesOldCopies'
  BY <1>4 DEF VersionHidesOldCopies
<1> QED
  BY <1>5, <1>6, <1>7, <1>8, <1>9, <1>10 DEF CacheInv

LEMMA KeptByIncrement ==
    ASSUME CacheInv, NEW c \in Clients, IncrementVersion(c)
    PROVE  CacheInv'
<1>1. /\ At(c, "increment") /\ Become(c, Free)
      /\ UNCHANGED <<source, rows, cache, tagged, listed, overtaken, withTag, late>>
      /\ \/ version' = version + 1 /\ behind' = behind
         \/ version' = version /\ behind' = behind \cup {GetVersion}
  BY DEF IncrementVersion, Done
<1>2. /\ client'[c] = Free /\ DOMAIN client' = Clients
      /\ \A d \in Clients \ {c} : client'[d] = client[d]
  BY <1>1, Moved DEF CacheInv
<1>3. Raising' = Raising \ {c} /\ c \in Raising
  BY <1>1, <1>2, FreeIsFree DEF Raising, At
<1>4. /\ IsFiniteSet(Raising) /\ Cardinality(Raising) \in Nat
      /\ version + Cardinality(Raising) <= rows /\ version \in Nat /\ rows \in Nat /\ rows <= MaxRows
  BY FS_CardinalityType DEF CacheInv, CacheTypes, RowsPayVersions
<1>5. IsFiniteSet(Raising \ {c}) /\ Cardinality(Raising \ {c}) = Cardinality(Raising) - 1
  BY <1>3, <1>4, FS_RemoveElement
<1>6. Cardinality(Raising \ {c}) \in Nat
  BY <1>5, FS_CardinalityType
<1>7. CacheTypes' /\ RowsPayVersions'
  <2>1. version' \in Nat /\ version' + Cardinality(Raising \ {c}) <= rows
    BY <1>1, <1>4, <1>5, <1>6
  <2> QED
    BY <1>1, <1>2, <1>3, <1>5, <2>1, FreeIsFree DEF CacheInv, CacheTypes, RowsPayVersions
<1>8. StaleIsCaused'
  <2>1. \A k \in Keys : ~Owes(c, k)
    BY <1>1 DEF Owes, At
  <2> QED
    BY <1>1, <2>1, CausesStay
<1>9. TagsReach'
  BY <1>1, FreeIsFree, TagsStay
<1>10. /\ GetVersion <= GetVersion' /\ GetVersion \in Int /\ GetVersion' \in Int
       /\ GetVersion' \in Versions
       /\ version' = version + 1 => version' = 1 \/ GetVersion' > GetVersion
  <2>1. version' \in Nat /\ version' <= MaxRows
    BY <1>1, <1>4, <1>5, <1>6, CacheAssumption
  <2>2. GetVersion = (IF version = 0 THEN 1 ELSE version)
        /\ GetVersion' = (IF version' = 0 THEN 1 ELSE version')
    BY DEF GetVersion
  <2>3. version' = version \/ version' = version + 1
    BY <1>1
  <2> QED
    BY <1>4, <2>1, <2>2, <2>3, CacheAssumption DEF Versions
<1>11. VersionsAreNew'
  <2>1. ASSUME NEW u \in Versions, u > GetVersion' PROVE listed'[u] = None
    <3>1. u > GetVersion
      BY <1>10, <2>1 DEF Versions
    <3> QED
      BY <1>1, <3>1 DEF CacheInv, VersionsAreNew
  <2>2. ASSUME NEW d \in Clients, client'[d].op \in Readers
        PROVE  client'[d].val \in Versions /\ client'[d].val <= GetVersion'
    <3>1. client'[d] = client[d]
      BY <1>2, <2>2, FreeIsFree DEF Readers
    <3>2. client[d].val \in Versions /\ client[d].val <= GetVersion
      BY <2>2, <3>1 DEF CacheInv, VersionsAreNew
    <3> QED
      BY <1>10, <3>1, <3>2 DEF Versions
  <2> QED
    BY <2>1, <2>2 DEF VersionsAreNew
<1>12. VersionHidesOldCopies'
  <2>1. CASE version' = version + 1 /\ behind' = behind
    <3>1. GetVersion' > GetVersion => listed[GetVersion'] = None
      BY <1>10 DEF CacheInv, VersionsAreNew
    <3> QED
      BY <1>1, <1>10, <2>1, <3>1 DEF VersionHidesOldCopies
  <2>2. CASE version' = version /\ behind' = behind \cup {GetVersion}
    BY <2>2 DEF VersionHidesOldCopies, GetVersion
  <2> QED
    BY <1>1, <2>1, <2>2
<1> QED
  BY <1>7, <1>8, <1>9, <1>11, <1>12 DEF CacheInv

LEMMA CacheStepKeeps == CacheInv /\ [CacheNext]_cacheVars => CacheInv'
<1> SUFFICES ASSUME CacheInv, [CacheNext]_cacheVars PROVE CacheInv'
  OBVIOUS
<1>1. ASSUME NEW c \in Clients, KeyedStep(c) PROVE CacheInv'
  BY <1>1, KeptByGet, KeptByFetch, KeptByStore, KeptByWrite, KeptByTagging, KeptByInvalidate,
     KeptByInvalidations DEF KeyedStep
<1>2. ASSUME NEW c \in Clients, VersionedStep(c) PROVE CacheInv'
  BY <1>2, KeptByVersionedReads, KeptByStoringListed, KeptByWritingRows, KeptByIncrement
     DEF VersionedStep
<1>3. CASE UNCHANGED cacheVars
  <2>1. UNCHANGED <<source, rows, cache, tagged, version, listed, client, overtaken, withTag, late, behind>>
    BY <1>3 DEF cacheVars, redis, history
  <2>2. CacheTypes' /\ RowsPayVersions' /\ StaleIsCaused'
    BY <2>1 DEF CacheInv, CacheTypes, RowsPayVersions, Raising, StaleIsCaused, Owes, Key, At
  <2>3. TagsReach' /\ VersionsAreNew' /\ VersionHidesOldCopies'
    BY <2>1 DEF CacheInv, TagsReach, VersionsAreNew, VersionHidesOldCopies, GetVersion, At
  <2> QED
    BY <2>2, <2>3 DEF CacheInv
<1> QED
  BY <1>1, <1>2, <1>3, KeptByExpiry DEF CacheNext, KeyedNext, VersionedNext

LEMMA CacheInvariant == CacheSpec => []CacheInv
  BY CacheStarts, CacheStepKeeps, PTL DEF CacheSpec

\* For any number of callers and keys: an entry older than its source has a
\* writer on the way, a newer write that overtook the fill, or a failed Redis
\* call.
THEOREM StaleEntriesAreCaused == CacheSpec => []StaleEntryHasACause
<1>1. CacheInv => StaleEntryHasACause
  <2> SUFFICES ASSUME CacheInv, NEW k \in Keys, cache[k] \notin {None, source[k]}, k \notin overtaken
               PROVE  \E c \in Clients : Key(c) = k /\ client[c].op \in Telling
    BY DEF StaleEntryHasACause
  <2>1. PICK c \in Clients : Owes(c, k)
    BY DEF CacheInv, StaleIsCaused
  <2> QED
    BY <2>1 DEF Owes, Telling
<1> QED
  BY CacheInvariant, <1>1, PTL

\* For any number of callers and keys, and failures of Redis at any point: an
\* entry stored with a tag stays within reach of the invalidation by tag.
THEOREM TagsReachEntries == CacheSpec => []TagReachesItsEntries
<1>1. CacheInv => TagReachesItsEntries
  BY DEF CacheInv, TagsReach, TagReachesItsEntries
<1> QED
  BY CacheInvariant, <1>1, PTL

\* For any number of readers and writers: an outdated copy is read only before
\* its version is raised, when it was stored late, when the increment failed, or
\* under version 1.
THEOREM VersionsHideCopies == CacheSpec => []VersionHidesOldCopies
<1>1. CacheInv => VersionHidesOldCopies
  BY DEF CacheInv
<1> QED
  BY CacheInvariant, <1>1, PTL

-----------------------------------------------------------------------------
(* The erasure of a user.                                                  *)

PersonalRow == [holds : SUBSET Columns, settled : BOOLEAN]
MaybeRow == PersonalRow \cup {Absent}

ErasureTypes ==
  /\ person \in {"known", "anonymized"}
  /\ active \in [UserNotifs -> MaybeRow]
  /\ archived \in [UserNotifs -> MaybeRow]
  /\ snapshot \in [Movers -> [UserNotifs -> MaybeRow]]
  /\ afterwards \subseteq UserNotifs

\* A row an execution holds is somewhere: without this one it could bring back,
\* as if nothing had been erased, a row that is in neither table.
SnapshotsHaveRows ==
  \A m \in Movers, id \in UserNotifs :
    snapshot[m][id] # Absent => active[id] # Absent \/ archived[id] # Absent

ErasureInv == ErasureTypes /\ SnapshotsHaveRows /\ ErasedUnlessWrittenSince

LEMMA AbsentIsNoRow == Absent \notin PersonalRow
  BY ErasureAssumption DEF PersonalRow

LEMMA ErasureStarts == ErasureInit => ErasureInv
  BY DEF ErasureInit, ErasureInv, ErasureTypes, SnapshotsHaveRows,
         ErasedUnlessWrittenSince, NoSnapshot, MaybeRow, PersonalRow

LEMMA CreateForUserKeeps ==
  ASSUME NEW id \in UserNotifs, ErasureInv, CreateForUser(id)
  PROVE  ErasureInv'
<1>1. [holds |-> {"payload", "content"}, settled |-> FALSE] \in PersonalRow
  BY DEF PersonalRow, Columns
<1>2. ErasureTypes'
  BY <1>1 DEF ErasureInv, ErasureTypes, CreateForUser, Late, MaybeRow
<1>3. SnapshotsHaveRows'
  BY <1>1, AbsentIsNoRow
  DEF ErasureInv, ErasureTypes, SnapshotsHaveRows, CreateForUser
<1>4. ErasedUnlessWrittenSince'
  BY DEF ErasureInv, ErasureTypes, ErasedUnlessWrittenSince, CreateForUser, Late, Holds
<1> QED
  BY <1>2, <1>3, <1>4 DEF ErasureInv

LEMMA SettleForUserKeeps ==
  ASSUME NEW id \in UserNotifs, ErasureInv, SettleForUser(id)
  PROVE  ErasureInv'
<1>1. active[id] \in PersonalRow
  BY DEF ErasureInv, ErasureTypes, SettleForUser, MaybeRow
<1>2. PICK row \in PersonalRow :
        /\ active' = [active EXCEPT ![id] = row]
        /\ \/ row.holds = active[id].holds /\ afterwards' = afterwards
           \/ Late({id})
  <2>1. CASE active' = [active EXCEPT ![id].settled = TRUE] /\ UNCHANGED afterwards
    <3>1. [active[id] EXCEPT !.settled = TRUE] \in PersonalRow
      BY <1>1 DEF PersonalRow
    <3>2. [active[id] EXCEPT !.settled = TRUE].holds = active[id].holds
      BY <1>1 DEF PersonalRow
    <3> QED
      BY <2>1, <3>1, <3>2
  <2>2. CASE /\ active' = [active EXCEPT ![id].settled = TRUE,
                                         ![id].holds = @ \cup {"errorMessage"}]
             /\ Late({id})
    <3> DEFINE row == [[active[id] EXCEPT !.settled = TRUE]
                         EXCEPT !.holds = @ \cup {"errorMessage"}]
    <3>1. row \in PersonalRow
      BY <1>1 DEF PersonalRow, Columns
    <3>2. active' = [active EXCEPT ![id] = row]
      BY <2>2 DEF ErasureInv, ErasureTypes
    <3> QED
      BY <2>2, <3>1, <3>2
  <2> QED
    BY <2>1, <2>2 DEF SettleForUser
<1>3. UNCHANGED <<person, archived, snapshot>>
  BY DEF SettleForUser
<1>4. ErasureTypes'
  BY <1>2, <1>3 DEF ErasureInv, ErasureTypes, Late, MaybeRow
<1>5. SnapshotsHaveRows'
  BY <1>2, <1>3, AbsentIsNoRow DEF ErasureInv, ErasureTypes, SnapshotsHaveRows
<1>6. ErasedUnlessWrittenSince'
  BY <1>1, <1>2, <1>3, AbsentIsNoRow
  DEF ErasureInv, ErasureTypes, ErasedUnlessWrittenSince, Late, Holds
<1> QED
  BY <1>4, <1>5, <1>6 DEF ErasureInv

LEMMA ReadForArchiveKeeps ==
  ASSUME NEW m \in Movers, ErasureInv, ReadForArchive(m)
  PROVE  ErasureInv'
<1>1. ErasureTypes'
  BY DEF ErasureInv, ErasureTypes, ReadForArchive, MaybeRow
<1>2. SnapshotsHaveRows'
  BY DEF ErasureInv, ErasureTypes, SnapshotsHaveRows, ReadForArchive
<1>3. ErasedUnlessWrittenSince'
  BY DEF ErasureInv, ErasedUnlessWrittenSince, ReadForArchive, Holds
<1> QED
  BY <1>1, <1>2, <1>3 DEF ErasureInv

LEMMA MoveIsRolledBackKeeps ==
  ASSUME NEW m \in Movers, ErasureInv, MoveIsRolledBack(m)
  PROVE  ErasureInv'
<1>1. ErasureTypes'
  BY DEF ErasureInv, ErasureTypes, MoveIsRolledBack, MaybeRow, NoSnapshot
<1>2. SnapshotsHaveRows'
  BY DEF ErasureInv, ErasureTypes, SnapshotsHaveRows, MoveIsRolledBack, NoSnapshot
<1>3. ErasedUnlessWrittenSince'
  BY DEF ErasureInv, ErasedUnlessWrittenSince, MoveIsRolledBack, Holds
<1> QED
  BY <1>1, <1>2, <1>3 DEF ErasureInv

LEMMA MoveToArchiveKeeps ==
  ASSUME NEW m \in Movers, ErasureInv, MoveToArchive(m)
  PROVE  ErasureInv'
<1> DEFINE moved == {id \in UserNotifs : snapshot[m][id] # Absent}
           copy(id) == [snapshot[m][id] EXCEPT !.holds = @ \ {"content"}]
<1>1. ASSUME NEW id \in moved
      PROVE  /\ snapshot[m][id] \in PersonalRow
             /\ copy(id) \in PersonalRow
             /\ copy(id).holds = snapshot[m][id].holds \ {"content"}
  <2>1. snapshot[m][id] \in PersonalRow
    BY DEF ErasureInv, ErasureTypes, MaybeRow
  <2> QED
    BY <2>1 DEF PersonalRow
<1>2. /\ archived' = [id \in UserNotifs |->
             IF id \in moved /\ archived[id] = Absent THEN copy(id) ELSE archived[id]]
      /\ active' = [id \in UserNotifs |-> IF id \in moved THEN Absent ELSE active[id]]
      /\ snapshot' = [snapshot EXCEPT ![m] = NoSnapshot]
      /\ person' = person
      /\ Late({id \in moved : archived[id] = Absent
                 /\ active[id] # Absent /\ snapshot[m][id].holds # active[id].holds})
  BY DEF MoveToArchive
<1> HIDE DEF copy
<1>3. ErasureTypes'
  BY <1>1, <1>2 DEF ErasureInv, ErasureTypes, Late, MaybeRow, NoSnapshot
<1>4. SnapshotsHaveRows'
  BY <1>1, <1>2, AbsentIsNoRow DEF ErasureInv, ErasureTypes, SnapshotsHaveRows, NoSnapshot
<1>5. ErasedUnlessWrittenSince'
  <2> SUFFICES ASSUME person = "anonymized", NEW id \in UserNotifs, id \notin afterwards'
               PROVE  /\ ~Holds(active'[id], {"payload", "errorMessage"})
                      /\ ~Holds(archived'[id], {"payload", "errorMessage"})
    BY <1>2 DEF ErasedUnlessWrittenSince
  <2>1. /\ id \notin afterwards
        /\ ~Holds(active[id], {"payload", "errorMessage"})
        /\ ~Holds(archived[id], {"payload", "errorMessage"})
    BY <1>2 DEF Late, ErasureInv, ErasedUnlessWrittenSince
  <2>2. CASE id \in moved /\ archived[id] = Absent
    <3>1. active[id] # Absent /\ snapshot[m][id].holds = active[id].holds
      BY <1>2, <2>2 DEF Late, ErasureInv, SnapshotsHaveRows
    <3>2. copy(id).holds \cap {"payload", "errorMessage"} = {}
      BY <1>1, <2>1, <2>2, <3>1 DEF Holds
    <3> QED
      BY <1>2, <2>2, <3>2 DEF Holds
  <2>3. CASE ~(id \in moved /\ archived[id] = Absent)
    BY <1>2, <2>1, <2>3 DEF Holds
  <2> QED
    BY <2>2, <2>3
<1> QED
  BY <1>3, <1>4, <1>5 DEF ErasureInv

LEMMA AnonymizeUserDataKeeps == ErasureInv /\ AnonymizeUserData => ErasureInv'
<1> SUFFICES ASSUME ErasureInv, AnonymizeUserData PROVE ErasureInv'
  OBVIOUS
<1>1. ASSUME NEW row \in MaybeRow
      PROVE  /\ Redacted(row) \in MaybeRow
             /\ Redacted(row) = Absent <=> row = Absent
             /\ ~Holds(Redacted(row), {"payload", "errorMessage"})
  <2>1. CASE row = Absent
    BY <2>1 DEF Redacted, MaybeRow, Holds
  <2>2. CASE row \in PersonalRow
    <3> DEFINE left == [row EXCEPT !.holds = @ \ {"payload", "errorMessage"}]
    <3>1. left \in PersonalRow /\ left.holds = row.holds \ {"payload", "errorMessage"}
      BY <2>2 DEF PersonalRow
    <3>2. Redacted(row) = left
      BY <2>2, AbsentIsNoRow DEF Redacted
    <3> HIDE DEF left
    <3> QED
      BY <2>2, <3>1, <3>2, AbsentIsNoRow DEF MaybeRow, Holds
  <2> QED
    BY <2>1, <2>2 DEF MaybeRow
<1>2. ErasureTypes'
  BY <1>1 DEF ErasureInv, ErasureTypes, AnonymizeUserData
<1>3. SnapshotsHaveRows'
  BY <1>1 DEF ErasureInv, ErasureTypes, SnapshotsHaveRows, AnonymizeUserData
<1>4. ErasedUnlessWrittenSince'
  BY <1>1 DEF ErasureInv, ErasureTypes, ErasedUnlessWrittenSince, AnonymizeUserData
<1> QED
  BY <1>2, <1>3, <1>4 DEF ErasureInv

\* After an anonymisation nothing of the payload or of an error message is left of
\* a row in either table, unless it was written, or carried over, since.
THEOREM ErasureHolds == ErasureSpec => []ErasedUnlessWrittenSince
<1>1. ErasureInv /\ [ErasureNext]_erasureVars => ErasureInv'
  <2> SUFFICES ASSUME ErasureInv, [ErasureNext]_erasureVars PROVE ErasureInv'
    OBVIOUS
  <2>1. CASE \E id \in UserNotifs : CreateForUser(id) \/ SettleForUser(id)
    BY <2>1, CreateForUserKeeps, SettleForUserKeeps
  <2>2. CASE \E m \in Movers : ReadForArchive(m) \/ MoveToArchive(m) \/ MoveIsRolledBack(m)
    BY <2>2, ReadForArchiveKeeps, MoveToArchiveKeeps, MoveIsRolledBackKeeps
  <2>3. CASE AnonymizeUserData
    BY <2>3, AnonymizeUserDataKeeps
  <2>4. CASE UNCHANGED erasureVars
    BY <2>4 DEF erasureVars, ErasureInv, ErasureTypes, SnapshotsHaveRows,
                ErasedUnlessWrittenSince, Holds
  <2> QED
    BY <2>1, <2>2, <2>3, <2>4 DEF ErasureNext
<1>2. ErasureInv => ErasedUnlessWrittenSince
  BY DEF ErasureInv
<1> QED
  BY <1>1, <1>2, ErasureStarts, PTL DEF ErasureSpec

-----------------------------------------------------------------------------
(* Ingestion.                                                              *)

LEMMA Places ==
    ASSUME NEW n \in Nat
    PROVE  IsFiniteSet(1..n) /\ Cardinality(1..n) = n
  BY FS_Interval

\* Every document of a batch is counted, but for those without content and the
\* copies: what the cleaner drops of the valid ones is a copy.
LEMMA BatchIsCounted ==
    ASSUME NEW S, NEW docs \in Seq(S), NEW skip,
           outcome'.given = docs, outcome'.result = IngestBatch(docs, skip)
    PROVE  BatchCountsAddUp'
<1> DEFINE extracted == Extracted(docs)
           valid == Validated(docs, skip)
           cleaned == RemoveDuplicates(docs, valid)
           copies == {i \in DOMAIN docs : HasContent(docs[i])
                        /\ \E j \in 1..(i - 1) : HasContent(docs[j])
                             /\ ContentOf(docs[j]).same = ContentOf(docs[i]).same}
           empty == {i \in DOMAIN docs : ~HasContent(docs[i])}
           counted == IngestBatch(docs, skip).success + IngestBatch(docs, skip).failures
<1>1. DOMAIN docs = 1..Len(docs) /\ Len(docs) \in Nat
  OBVIOUS
<1>2. /\ extracted \in SUBSET DOMAIN docs
      /\ valid \in SUBSET extracted
      /\ cleaned \in SUBSET valid
      /\ copies \in SUBSET DOMAIN docs
      /\ empty = DOMAIN docs \ extracted
  BY DEF Extracted, Validated, RemoveDuplicates
<1>3. valid \ cleaned \in SUBSET copies
  <2> SUFFICES ASSUME NEW i \in valid, i \notin cleaned PROVE i \in copies
    OBVIOUS
  <2>1. PICK j \in valid : j < i /\ ContentOf(docs[j]).same = ContentOf(docs[i]).same
    BY DEF RemoveDuplicates
  <2>2. j \in 1..(i - 1) /\ i \in DOMAIN docs
    BY <1>1, <1>2, <2>1
  <2>3. HasContent(docs[i]) /\ HasContent(docs[j])
    BY <1>2, <2>1 DEF Extracted
  <2> QED
    BY <2>1, <2>2, <2>3
<1>4. counted = Cardinality(extracted) - Cardinality(valid) + Cardinality(cleaned)
  <2>1. IsFiniteSet(DOMAIN docs)
    BY <1>1, Places
  <2>2. IsFiniteSet(extracted) /\ IsFiniteSet(valid) /\ IsFiniteSet(cleaned)
    <3>1. IsFiniteSet(extracted)
      BY <1>2, <2>1, FS_Subset
    <3>2. IsFiniteSet(valid)
      BY <1>2, <3>1, FS_Subset
    <3> QED
      BY <1>2, <3>1, <3>2, FS_Subset
  <2>3. /\ Cardinality(extracted) \in Nat
        /\ Cardinality(valid) \in Nat
        /\ Cardinality(cleaned) \in Nat
    BY <2>2, FS_CardinalityType
  <2> DEFINE throws == cleaned # {} /\ ~({"embedding", "storage"} \subseteq skip)
             result == IngestBatch(docs, skip)
  <2>4. /\ result.success = IF throws THEN 0 ELSE Cardinality(cleaned)
        /\ result.failures = Cardinality(extracted) - Cardinality(valid)
                               + (IF throws THEN Cardinality(cleaned) ELSE 0)
    BY DEF IngestBatch
  <2> HIDE DEF throws, result, extracted, valid, cleaned
  <2>5. result.success + result.failures =
          Cardinality(extracted) - Cardinality(valid) + Cardinality(cleaned)
    BY <2>3, <2>4
  <2> QED
    BY <2>5 DEF result
<1> HIDE DEF extracted, valid, cleaned, copies, empty, counted
<1>5. /\ IsFiniteSet(DOMAIN docs) /\ IsFiniteSet(extracted) /\ IsFiniteSet(valid)
      /\ IsFiniteSet(cleaned) /\ IsFiniteSet(copies)
  <2>1. IsFiniteSet(DOMAIN docs) /\ Cardinality(DOMAIN docs) = Len(docs)
    BY <1>1, Places
  <2>2. IsFiniteSet(extracted) /\ IsFiniteSet(copies)
    BY <1>2, <2>1, FS_Subset
  <2>3. IsFiniteSet(valid)
    BY <1>2, <2>2, FS_Subset
  <2>4. IsFiniteSet(cleaned)
    BY <1>2, <2>3, FS_Subset
  <2> QED
    BY <2>1, <2>2, <2>3, <2>4
<1>6. /\ Cardinality(DOMAIN docs) = Len(docs)
      /\ Cardinality(extracted) \in Nat /\ Cardinality(valid) \in Nat
      /\ Cardinality(cleaned) \in Nat /\ Cardinality(copies) \in Nat
      /\ Cardinality(valid \ cleaned) \in Nat
  <2>1. Cardinality(DOMAIN docs) = Len(docs)
    BY <1>1, Places
  <2>2. IsFiniteSet(valid \ cleaned)
    BY <1>5, FS_Difference
  <2> QED
    BY <1>5, <2>1, <2>2, FS_CardinalityType
<1>7. Cardinality(empty) = Len(docs) - Cardinality(extracted)
  <2>1. DOMAIN docs \cap extracted = extracted
    BY <1>2
  <2>2. Cardinality(DOMAIN docs \ extracted) =
          Cardinality(DOMAIN docs) - Cardinality(DOMAIN docs \cap extracted)
    BY <1>5, FS_Difference
  <2> QED
    BY <1>2, <1>6, <2>1, <2>2
<1>8. Cardinality(valid) - Cardinality(cleaned) <= Cardinality(copies)
  <2>1. valid \cap cleaned = cleaned
    BY <1>2
  <2>2. Cardinality(valid \ cleaned) = Cardinality(valid) - Cardinality(valid \cap cleaned)
    BY <1>5, FS_Difference
  <2>3. Cardinality(valid \ cleaned) <= Cardinality(copies)
    BY <1>3, <1>5, FS_Subset
  <2> QED
    BY <2>1, <2>2, <2>3
<1>9. Cardinality(cleaned) <= Cardinality(valid) /\ Cardinality(extracted) <= Len(docs)
  <2>1. Cardinality(cleaned) <= Cardinality(valid)
    BY <1>2, <1>5, FS_Subset
  <2>2. Cardinality(extracted) <= Cardinality(DOMAIN docs)
    BY <1>2, <1>5, FS_Subset
  <2> QED
    BY <1>6, <2>1, <2>2
<1>10. counted <= Len(docs) /\ counted >= Len(docs) - Cardinality(empty) - Cardinality(copies)
  <2> DEFINE all == Len(docs)
             e == Cardinality(extracted)
             v == Cardinality(valid)
             c == Cardinality(cleaned)
             k == Cardinality(copies)
  <2>1. all \in Nat /\ e \in Nat /\ v \in Nat /\ c \in Nat /\ k \in Nat
    BY <1>1, <1>6
  <2>2. counted = e - v + c /\ Cardinality(empty) = all - e
    BY <1>4, <1>7
  <2>3. v - c <= k /\ c <= v /\ e <= all
    BY <1>8, <1>9
  <2> HIDE DEF all, e, v, c, k
  <2>4. e - v + c <= all /\ e - v + c >= all - (all - e) - k
    BY <2>1, <2>3
  <2> QED
    BY <2>2, <2>4 DEF all, k
<1> QED
  BY <1>10 DEF BatchCountsAddUp, counted, copies, empty

Sorted(key, n) == \A j, k \in 1..n : j < k => key[j] >= key[k]

Arranged(order, key, n) ==
  /\ \A j, k \in 1..n : order[j] = order[k] => j = k
  /\ \A j, k \in 1..n : j < k => key[order[j]] >= key[order[k]]

\* Two sorted arrangements of the same keys agree at every place: were the key at
\* place i of the second less than that of the first, those from i on would all
\* come from the places after i, of which there is one less; and likewise if it
\* were greater.
LEMMA SortedArrangementsAgree ==
    ASSUME NEW n \in Nat, NEW key \in [1..n -> Nat], NEW order \in [1..n -> 1..n],
           Sorted(key, n), Arranged(order, key, n), NEW i \in 1..n
    PROVE  key[order[i]] = key[i]
<1>0. /\ i \in Nat /\ 1 <= i /\ i <= n
      /\ \A j \in 1..n : order[j] \in 1..n /\ order[j] \in Nat /\ key[j] \in Nat
      /\ \A j \in 1..n : key[order[j]] \in Nat
      /\ \A j, k \in 1..n : j < k => key[j] >= key[k]
      /\ \A j, k \in 1..n : j < k => key[order[j]] >= key[order[k]]
      /\ \A j, k \in 1..n : order[j] = order[k] => j = k
  BY DEF Sorted, Arranged
<1>1. ~(key[order[i]] < key[i])
  <2> SUFFICES ASSUME key[order[i]] < key[i] PROVE FALSE
    OBVIOUS
  <2>1. ASSUME NEW j \in i..n PROVE order[j] \in (i + 1)..n
    <3>1. j \in 1..n /\ j \in Nat /\ i <= j
      BY <1>0
    <3>2. key[order[j]] <= key[order[i]]
      BY <1>0, <3>1
    <3>3. order[j] \in 1..n /\ order[j] \in Nat /\ i \in 1..n
      BY <1>0, <3>1
    <3>4. CASE order[j] < i
      BY <1>0, <3>1, <3>2, <3>3, <3>4
    <3>5. CASE order[j] = i
      BY <1>0, <3>2, <3>5
    <3> QED
      BY <3>3, <3>4, <3>5
  <2> DEFINE f == [j \in i..n |-> order[j]]
  <2>2. f \in [i..n -> (i + 1)..n]
    BY <2>1
  <2>3. IsFiniteSet(i..n) /\ Cardinality(i..n) = n - i + 1
    <3>1. i \in Int /\ n \in Int /\ i <= n
      OBVIOUS
    <3> QED
      BY <3>1, FS_Interval
  <2>4. IsFiniteSet((i + 1)..n) /\ Cardinality((i + 1)..n) = n - i
    <3> DEFINE a == i + 1
    <3>1. a \in Int /\ n \in Int /\ a <= n + 1 /\ n - a + 1 = n - i
      OBVIOUS
    <3>2. IsFiniteSet(a..n) /\ Cardinality(a..n) = IF a > n THEN 0 ELSE n - a + 1
      <4> HIDE DEF a
      <4> QED
        BY <3>1, FS_Interval
    <3> QED
      BY <3>1, <3>2
  <2>5. Cardinality((i + 1)..n) < Cardinality(i..n)
    BY <2>3, <2>4
  <2>6. PICK j \in i..n, k \in i..n : j # k /\ f[j] = f[k]
    <3> HIDE DEF f
    <3> QED
      BY <2>2, <2>3, <2>4, <2>5, FS_PigeonHole
  <2>7. j \in 1..n /\ k \in 1..n /\ order[j] = order[k]
    BY <1>0, <2>6
  <2> QED
    BY <1>0, <2>6, <2>7
<1>2. ~(key[order[i]] > key[i])
  <2> SUFFICES ASSUME key[order[i]] > key[i] PROVE FALSE
    OBVIOUS
  <2> DEFINE before == i - 1
  <2>1. ASSUME NEW j \in 1..i PROVE order[j] \in 1..before
    <3>1. j \in 1..n /\ j \in Nat /\ j <= i
      BY <1>0
    <3>2. key[order[j]] >= key[order[i]]
      BY <1>0, <3>1
    <3>3. order[j] \in 1..n /\ order[j] \in Nat /\ i \in 1..n
      BY <1>0, <3>1
    <3>4. CASE order[j] > i
      BY <1>0, <3>1, <3>2, <3>3, <3>4
    <3>5. CASE order[j] = i
      BY <1>0, <3>2, <3>5
    <3> QED
      BY <1>0, <3>3, <3>4, <3>5
  <2> DEFINE f == [j \in 1..i |-> order[j]]
  <2>2. f \in [1..i -> 1..before]
    BY <2>1
  <2>3. i \in Nat /\ before \in Nat /\ before < i
    OBVIOUS
  <2>4. PICK j \in 1..i, k \in 1..i : j # k /\ f[j] = f[k]
    <3> HIDE DEF f, before
    <3>1. /\ IsFiniteSet(1..i) /\ Cardinality(1..i) = i
          /\ IsFiniteSet(1..before) /\ Cardinality(1..before) = before
      BY <2>3, Places
    <3>2. Cardinality(1..before) < Cardinality(1..i)
      BY <2>3, <3>1
    <3> QED
      BY <2>2, <3>1, <3>2, FS_PigeonHole
  <2>5. j \in 1..n /\ k \in 1..n /\ order[j] = order[k]
    BY <1>0, <2>4
  <2> QED
    BY <1>0, <2>4, <2>5
<1>3. key[order[i]] \in Nat /\ key[i] \in Nat
  BY <1>0
<1> QED
  BY <1>1, <1>2, <1>3

\* So an order by createdAt moves a row among its ties only.
LEMMA OrdersKeepInstants ==
    ASSUME sent \in Seq(SentRow), NewestFirst(sent), NEW order \in Orders,
           NEW i \in DOMAIN sent
    PROVE  order[i] \in Ties(i)
<1>1. Instants \subseteq Nat
  BY IngestionAssumption, Zenon
<1>2. PICK n \in Nat : n = Len(sent)
  OBVIOUS
<1>3. DOMAIN sent = 1..n /\ i \in 1..n
  BY <1>2
<1>4. \A k \in 1..n : sent[k].created \in Nat
  <2>1. \A k \in 1..n : sent[k] \in SentRow
    BY <1>2
  <2>2. \A row \in SentRow : row.created \in Instants
    BY DEF SentRow
  <2> QED
    BY <1>1, <2>1, <2>2
<1>5. order \in [1..n -> 1..n]
  BY <1>3 DEF Orders
<1> DEFINE key == [k \in 1..n |-> sent[k].created]
<1>6. key \in [1..n -> Nat]
  BY <1>4
<1>7. Sorted(key, n)
  BY <1>3 DEF NewestFirst, Sorted
<1>8. Arranged(order, key, n)
  <2>1. /\ \A j, k \in 1..n : order[j] = order[k] => j = k
        /\ \A j, k \in 1..n : j < k => sent[order[j]].created >= sent[order[k]].created
    BY <1>3 DEF Orders
  <2>2. \A j \in 1..n : key[order[j]] = sent[order[j]].created
    BY <1>5
  <2> QED
    BY <2>1, <2>2 DEF Arranged
<1>9. key[order[i]] = key[i]
  <2> HIDE DEF key
  <2> QED
    BY <1>3, <1>5, <1>6, <1>7, <1>8, SortedArrangementsAgree
<1> QED
  BY <1>3, <1>5, <1>9 DEF Ties

\* A page has the rows of its places, but for the order of ties.
LEMMA PageHasItsRows ==
    ASSUME sent \in Seq(SentRow), NewestFirst(sent), NEW offset \in Nat, offset < Len(sent),
           PageSize \in Nat \ {0}, NEW page \in Page(offset)
    PROVE  /\ LastOf(offset) \in Nat /\ offset < LastOf(offset) /\ LastOf(offset) <= Len(sent)
           /\ page \in Seq(SentRow) /\ Len(page) = LastOf(offset) - offset
           /\ \A k \in 1..Len(page) : page[k] \in {sent[j] : j \in Ties(offset + k)}
<1> DEFINE n == Len(sent)
           last == LastOf(offset)
<1>1. /\ n \in Nat /\ DOMAIN sent = 1..n /\ \A k \in 1..n : sent[k] \in SentRow
      /\ last \in Nat /\ offset < last /\ last <= n
  BY DEF LastOf
<1>2. PICK order \in Orders :
        page = SubSeq([i \in DOMAIN sent |-> sent[order[i]]], offset + 1, last)
  BY DEF Page
<1> DEFINE ordered == [i \in 1..n |-> sent[order[i]]]
<1>3. order \in [1..n -> 1..n]
  BY <1>1, <1>2 DEF Orders
<1> HIDE DEF n, last
<1>4. ordered \in Seq(SentRow) /\ Len(ordered) = n
  BY <1>1, <1>3
<1>5. \A k \in offset + 1 .. last : ordered[k] \in SentRow
  BY <1>1, <1>3
<1>6. page = SubSeq(ordered, offset + 1, last)
  BY <1>1, <1>2
<1>7. /\ page \in Seq(SentRow) /\ Len(page) = last - offset
      /\ \A k \in 1..(last - offset) : page[k] = ordered[offset + k]
  <2> HIDE DEF ordered
  <2>1. /\ offset + 1 \in Int /\ last \in Int /\ offset + 1 <= last
        /\ last - (offset + 1) + 1 = last - offset
    BY <1>1
  <2>2. \A k \in 1..(last - offset) : (offset + 1) + k - 1 = offset + k
    BY <1>1
  <2> QED
    BY <1>4, <1>5, <1>6, <2>1, <2>2, SubSeqProperties
<1>8. ASSUME NEW k \in 1..Len(page)
      PROVE  page[k] \in {sent[j] : j \in Ties(offset + k)}
  <2>1. k \in 1..(last - offset) /\ offset + k \in 1..n
    BY <1>1, <1>7
  <2>3. page[k] = sent[order[offset + k]]
    BY <1>7, <2>1
  <2>2. order[offset + k] \in Ties(offset + k)
    BY <1>1, <1>2, <2>1, OrdersKeepInstants
  <2> QED
    BY <2>3, <2>2
<1> QED
  BY <1>1, <1>7, <1>8 DEF n, last

IngestTypes ==
  /\ sent \in Seq(SentRow) /\ NewestFirst(sent)
  /\ ingest = [phase |-> ingest.phase, total |-> ingest.total, offset |-> ingest.offset,
               loaded |-> ingest.loaded, processed |-> ingest.processed,
               success |-> ingest.success, failures |-> ingest.failures]
  /\ ingest.phase \in {"idle", "run", "done"}
  /\ ingest.offset \in Nat /\ ingest.total \in Nat

\* While the table does not change, a run has loaded the rows before its offset,
\* but for the order of ties, and its count is still the number of rows.
LoadedSoFar ==
  ~tableChanged /\ ingest.phase = "run" =>
    /\ ingest.total = Len(sent)
    /\ ingest.loaded \in Seq(SentRow)
    /\ Len(ingest.loaded) = IF ingest.offset < Len(sent) THEN ingest.offset ELSE Len(sent)
    /\ \A i \in 1..Len(ingest.loaded) : ingest.loaded[i] \in {sent[j] : j \in Ties(i)}

IngestInv == IngestTypes /\ LoadedSoFar /\ UndisturbedRunLoadsAll /\ BatchCountsAddUp

\* The batch of no documents counts none.
LEMMA EmptyBatch ==
    /\ IngestBatch(<<>>, {}).success = 0
    /\ IngestBatch(<<>>, {}).failures = 0
<1>1. Extracted(<<>>) = {}
  BY DEF Extracted
<1>2. Validated(<<>>, {}) = {}
  BY <1>1 DEF Validated
<1>3. RemoveDuplicates(<<>>, {}) = {}
  BY DEF RemoveDuplicates
<1>4. Cardinality({}) = 0
  BY FS_EmptySet
<1>5. IngestBatch(<<>>, {}).success = 0
  BY <1>2, <1>3, <1>4 DEF IngestBatch
<1>6. IngestBatch(<<>>, {}).failures = 0
  <2> DEFINE extracted == Extracted(<<>>)
             valid == Validated(<<>>, {})
             cleaned == RemoveDuplicates(<<>>, valid)
             throws == cleaned # {} /\ ~({"embedding", "storage"} \subseteq {})
  <2>1. IngestBatch(<<>>, {}).failures =
          Cardinality(extracted) - Cardinality(valid)
            + (IF throws THEN Cardinality(cleaned) ELSE 0)
    BY DEF IngestBatch
  <2>2. extracted = {} /\ valid = {} /\ cleaned = {} /\ ~throws
    BY <1>1, <1>2, <1>3
  <2> HIDE DEF extracted, valid, cleaned, throws
  <2> QED
    BY <1>4, <2>1, <2>2
<1> QED
  BY <1>5, <1>6

LEMMA IngestStarts == IngestInit => IngestInv
<1> SUFFICES ASSUME IngestInit PROVE IngestInv
  OBVIOUS
<1>1. IngestTypes /\ LoadedSoFar /\ UndisturbedRunLoadsAll
  <2>1. PICK n \in 0..MaxSentRows : sent \in [1..n -> SentRow]
    BY DEF IngestInit, BoundedSeq, SeqOf
  <2>2. n \in Nat
    BY <2>1, IngestionAssumption
  <2>3. sent \in Seq(SentRow) /\ NewestFirst(sent)
    BY <2>1, <2>2 DEF IngestInit
  <2> QED
    BY <2>3 DEF IngestInit, NoIngest, IngestTypes, LoadedSoFar, UndisturbedRunLoadsAll
<1>2. BatchCountsAddUp
  <2>1. outcome.given = <<>> /\ outcome.result = IngestBatch(<<>>, {})
    BY DEF IngestInit, NoOutcome
  <2> QED
    <3> DEFINE docs == outcome.given
               copies == {i \in DOMAIN docs : HasContent(docs[i])
                            /\ \E j \in 1..(i - 1) : HasContent(docs[j])
                                 /\ ContentOf(docs[j]).same = ContentOf(docs[i]).same}
               empty == {i \in DOMAIN docs : ~HasContent(docs[i])}
               counted == outcome.result.success + outcome.result.failures
    <3>1. copies = {} /\ empty = {}
      BY <2>1
    <3>2. counted = 0 /\ Len(docs) = 0
      BY <2>1, EmptyBatch
    <3>3. Cardinality({}) = 0
      BY FS_EmptySet
    <3> HIDE DEF docs, copies, empty, counted
    <3>4. counted <= Len(docs) /\ counted >= Len(docs) - Cardinality(empty) - Cardinality(copies)
      BY <3>1, <3>2, <3>3
    <3> QED
      BY <3>4 DEF BatchCountsAddUp, docs, copies, empty, counted
<1> QED
  BY <1>1, <1>2 DEF IngestInv

\* A step that gives up what the last batch returned leaves nothing to count.
LEMMA NothingIsCounted == outcome' = NoOutcome => BatchCountsAddUp'
<1> SUFFICES ASSUME outcome' = NoOutcome PROVE BatchCountsAddUp'
  OBVIOUS
<1>1. outcome'.given = <<>> /\ outcome'.result = IngestBatch(<<>>, {})
  BY DEF NoOutcome
<1>2. <<>> \in Seq({})
  OBVIOUS
<1> QED
  BY <1>1, <1>2, BatchIsCounted

LEMMA IngestSelectionKeeps == IngestInv /\ IngestSelection => IngestInv'
<1> SUFFICES ASSUME IngestInv, IngestSelection PROVE IngestInv'
  OBVIOUS
<1>1. PICK docs \in GivenLists, skip \in SUBSET {"validation", "embedding", "storage"} :
        outcome' = [given |-> docs, skip |-> skip, result |-> IngestBatch(docs, skip)]
  BY DEF IngestSelection
<1>2. BatchCountsAddUp'
  <2>1. docs \in Seq(ToSet(docs))
    BY IngestionAssumption
  <2>2. outcome'.given = docs /\ outcome'.result = IngestBatch(docs, skip)
    BY <1>1
  <2> QED
    BY <2>1, <2>2, BatchIsCounted
<1> QED
  BY <1>2 DEF IngestInv, IngestSelection, IngestTypes, LoadedSoFar, UndisturbedRunLoadsAll

LEMMA StartIngestKeeps == IngestInv /\ StartIngest => IngestInv'
<1> SUFFICES ASSUME IngestInv, StartIngest PROVE IngestInv'
  OBVIOUS
<1>1. ingest' = [phase |-> "run", total |-> Len(sent), offset |-> 0, loaded |-> <<>>,
                 processed |-> 0, success |-> 0, failures |-> 0]
  BY DEF StartIngest, NoIngest
<1>2. IngestTypes' /\ UndisturbedRunLoadsAll'
  <2>1. sent \in Seq(SentRow) /\ NewestFirst(sent) /\ sent' = sent
    BY DEF IngestInv, IngestTypes, StartIngest
  <2>2. Len(sent) \in Nat /\ 0 \in Nat
    BY <2>1
  <2>3. /\ ingest'.phase = "run" /\ ingest'.total = Len(sent) /\ ingest'.offset = 0
        /\ ingest'.loaded = <<>> /\ ingest'.processed = 0
        /\ ingest'.success = 0 /\ ingest'.failures = 0
    BY <1>1
  <2>4. IngestTypes'
    BY <1>1, <2>1, <2>2, <2>3 DEF IngestTypes, NewestFirst
  <2> QED
    BY <2>3, <2>4 DEF UndisturbedRunLoadsAll
<1>3. LoadedSoFar'
  <2>1. Len(sent) \in Nat
    BY DEF IngestInv, IngestTypes
  <2>2. <<>> \in Seq(SentRow) /\ Len(<<>>) = 0
    OBVIOUS
  <2>3. (IF 0 < Len(sent) THEN 0 ELSE Len(sent)) = 0
    BY <2>1
  <2>4. sent' = sent
    BY DEF StartIngest
  <2> QED
    BY <1>1, <2>2, <2>3, <2>4 DEF LoadedSoFar
<1>4. BatchCountsAddUp'
  BY NothingIsCounted DEF StartIngest
<1> QED
  BY <1>2, <1>3, <1>4 DEF IngestInv

\* What the pages loaded so far lack the next one adds.
LEMMA IngestPageKeeps == IngestInv /\ IngestPage => IngestInv'
<1> SUFFICES ASSUME IngestInv, IngestPage PROVE IngestInv'
  OBVIOUS
<1> DEFINE offset == ingest.offset
           last == LastOf(offset)
           loaded == ingest.loaded
           DocsOf(given) == [i \in DOMAIN given |-> given[i].doc]
<1>1. PICK page \in Page(ingest.offset) :
        /\ ingest' = [ingest EXCEPT !.offset = @ + PageSize, !.loaded = @ \o page,
                         !.processed = @ + IngestBatch(DocsOf(page), {}).processed,
                         !.success = @ + IngestBatch(DocsOf(page), {}).success,
                         !.failures = @ + IngestBatch(DocsOf(page), {}).failures]
        /\ outcome' = [given |-> DocsOf(page), skip |-> {},
                       result |-> IngestBatch(DocsOf(page), {})]
  BY Zenon DEF IngestPage
<1>2. /\ sent \in Seq(SentRow) /\ Len(sent) \in Nat /\ NewestFirst(sent)
      /\ offset \in Nat /\ PageSize \in Nat \ {0}
      /\ sent' = sent /\ tableChanged' = tableChanged
  BY IngestionAssumption DEF IngestInv, IngestTypes, IngestPage
<1>3. /\ ingest'.offset = offset + PageSize /\ ingest'.loaded = loaded \o page
      /\ ingest'.phase = "run" /\ ingest'.total = ingest.total
      /\ ingest.phase = "run" /\ offset < ingest.total
  BY <1>1 DEF IngestInv, IngestTypes, IngestPage
<1>4. IngestTypes'
  <2>1. ingest' = [phase |-> ingest'.phase, total |-> ingest'.total,
                   offset |-> ingest'.offset, loaded |-> ingest'.loaded,
                   processed |-> ingest'.processed, success |-> ingest'.success,
                   failures |-> ingest'.failures]
    BY <1>1 DEF IngestInv, IngestTypes
  <2> QED
    BY <1>2, <1>3, <2>1 DEF IngestInv, IngestTypes, NewestFirst
<1>5. LoadedSoFar'
  <2> SUFFICES ASSUME ~tableChanged
               PROVE  /\ ingest.total = Len(sent)
                      /\ loaded \o page \in Seq(SentRow)
                      /\ Len(loaded \o page) = last
                      /\ \A i \in 1..Len(loaded \o page) :
                           (loaded \o page)[i] \in {sent[j] : j \in Ties(i)}
    BY <1>2, <1>3 DEF LoadedSoFar, Ties, LastOf
  <2>1. /\ ingest.total = Len(sent) /\ offset < Len(sent)
        /\ loaded \in Seq(SentRow) /\ Len(loaded) = offset
        /\ \A i \in 1..offset : loaded[i] \in {sent[j] : j \in Ties(i)}
    BY <1>2, <1>3 DEF IngestInv, LoadedSoFar
  <2>2. /\ last \in Nat /\ offset < last /\ last <= Len(sent)
        /\ page \in Seq(SentRow) /\ Len(page) = last - offset
        /\ \A k \in 1..Len(page) : page[k] \in {sent[j] : j \in Ties(offset + k)}
    BY <1>1, <1>2, <2>1, PageHasItsRows
  <2> HIDE DEF offset, last, loaded, DocsOf
  <2>3. /\ loaded \o page \in Seq(SentRow) /\ Len(loaded \o page) = last
        /\ \A i \in 1..last : (loaded \o page)[i] =
             IF i <= offset THEN loaded[i] ELSE page[i - offset]
    <3>1. /\ loaded \o page \in Seq(SentRow) /\ Len(loaded \o page) = Len(loaded) + Len(page)
          /\ \A i \in 1..(Len(loaded) + Len(page)) : (loaded \o page)[i] =
               IF i <= Len(loaded) THEN loaded[i] ELSE page[i - Len(loaded)]
      <4> DEFINE rest == page
      <4>1. loaded \in Seq(SentRow) /\ rest \in Seq(SentRow)
        BY <2>1, <2>2
      <4> HIDE DEF rest
      <4>2. /\ loaded \o rest \in Seq(SentRow)
            /\ Len(loaded \o rest) = Len(loaded) + Len(rest)
            /\ \A i \in 1..(Len(loaded) + Len(rest)) : (loaded \o rest)[i] =
                 IF i <= Len(loaded) THEN loaded[i] ELSE rest[i - Len(loaded)]
        BY <4>1, ConcatProperties
      <4> QED
        BY <4>2 DEF rest
    <3>2. Len(loaded) + Len(page) = last
      BY <1>2, <2>1, <2>2
    <3> QED
      BY <2>1, <3>1, <3>2
  <2>4. ASSUME NEW i \in 1..last
        PROVE  (loaded \o page)[i] \in {sent[j] : j \in Ties(i)}
    <3>1. CASE i <= offset
      <4>1. i \in 1..offset /\ (loaded \o page)[i] = loaded[i]
        BY <1>2, <2>2, <2>3, <3>1
      <4> QED
        BY <2>1, <4>1
    <3>2. CASE ~(i <= offset)
      <4>1. i - offset \in 1..Len(page) /\ offset + (i - offset) = i
        BY <1>2, <2>2, <3>2
      <4>2. (loaded \o page)[i] = page[i - offset]
        BY <2>3, <3>2
      <4>3. page[i - offset] \in {sent[j] : j \in Ties(offset + (i - offset))}
        BY <2>2, <4>1
      <4> QED
        BY <4>1, <4>2, <4>3
    <3> QED
      BY <3>1, <3>2
  <2> QED
    BY <2>1, <2>3, <2>4
<1>6. UndisturbedRunLoadsAll'
  BY <1>3 DEF UndisturbedRunLoadsAll
<1>7. BatchCountsAddUp'
  <2> DEFINE docs == DocsOf(page)
             Docs == {page[i].doc : i \in DOMAIN page}
  <2>1. outcome'.given = docs /\ outcome'.result = IngestBatch(docs, {})
    BY <1>1
  <2>2. docs \in Seq(Docs)
    <3>1. PICK order \in Orders :
            page = SubSeq([i \in DOMAIN sent |-> sent[order[i]]], offset + 1, last)
      BY DEF Page
    <3>2. DOMAIN page = 1..Len(page) /\ Len(page) \in Nat
      <4> DEFINE ordered == [i \in DOMAIN sent |-> sent[order[i]]]
                 first == offset + 1
                 Rows == {ordered[i] : i \in first..last}
      <4>1. first \in Int /\ last \in Int
        BY <1>2 DEF LastOf
      <4>2. \A i \in first..last : ordered[i] \in Rows
        OBVIOUS
      <4>3. page = SubSeq(ordered, first, last)
        BY <3>1
      <4> HIDE DEF last, offset, ordered, first, Rows, DocsOf, docs, Docs
      <4>4. page \in Seq(Rows)
        BY <4>1, <4>2, <4>3, SubSeqProperties
      <4> QED
        BY <4>4
    <3> QED
      BY <3>2
  <2> HIDE DEF docs, Docs
  <2> QED
    BY <2>1, <2>2, BatchIsCounted
<1> QED
  BY <1>4, <1>5, <1>6, <1>7 DEF IngestInv

LEMMA EndIngestKeeps == IngestInv /\ EndIngest => IngestInv'
<1> SUFFICES ASSUME IngestInv, EndIngest PROVE IngestInv'
  OBVIOUS
<1>1. IngestTypes' /\ LoadedSoFar'
  BY DEF IngestInv, IngestTypes, LoadedSoFar, NewestFirst, EndIngest
<1>2. UndisturbedRunLoadsAll'
  <2>1. sent' = sent /\ ingest'.loaded = ingest.loaded /\ tableChanged' = tableChanged
    BY DEF IngestInv, IngestTypes, EndIngest
  <2> SUFFICES ASSUME ~tableChanged
               PROVE  /\ Len(ingest.loaded) = Len(sent)
                      /\ \A i \in DOMAIN sent : ingest.loaded[i] \in {sent[j] : j \in Ties(i)}
    BY <2>1 DEF UndisturbedRunLoadsAll, Ties
  <2>2. /\ ingest.total = Len(sent) /\ ingest.offset >= ingest.total
        /\ Len(ingest.loaded) = IF ingest.offset < Len(sent) THEN ingest.offset ELSE Len(sent)
        /\ \A i \in 1..Len(ingest.loaded) : ingest.loaded[i] \in {sent[j] : j \in Ties(i)}
    BY DEF IngestInv, LoadedSoFar, EndIngest
  <2>3. Len(sent) \in Nat /\ ingest.offset \in Nat /\ DOMAIN sent = 1..Len(sent)
    BY DEF IngestInv, IngestTypes
  <2> QED
    BY <2>2, <2>3
<1>3. BatchCountsAddUp'
  BY NothingIsCounted DEF EndIngest
<1> QED
  BY <1>1, <1>2, <1>3 DEF IngestInv

\* A row that comes or leaves leaves the others in their order.
LEMMA SentStaysSorted ==
    ASSUME sent \in Seq(SentRow), NewestFirst(sent), NEW i \in DOMAIN sent
    PROVE  RemoveAt(sent, i) \in Seq(SentRow) /\ NewestFirst(RemoveAt(sent, i))
<1> DEFINE n == Len(sent)
           before == SubSeq(sent, 1, i - 1)
           after == SubSeq(sent, i + 1, n)
           left == RemoveAt(sent, i)
<1>1. n \in Nat /\ DOMAIN sent = 1..n /\ i \in 1..n /\ \A k \in 1..n : sent[k] \in SentRow
  OBVIOUS
<1>2. left = before \o after
  BY DEF RemoveAt
<1>3. /\ before \in Seq(SentRow) /\ Len(before) = i - 1
      /\ \A k \in 1..(i - 1) : before[k] = sent[k]
  <2> HIDE DEF n
  <2> QED
    BY <1>1, SubSeqProperties
<1>4. /\ after \in Seq(SentRow) /\ Len(after) = n - i
      /\ \A k \in 1..(n - i) : after[k] = sent[i + k]
  <2>1. after \in Seq(SentRow)
    <3> HIDE DEF n
    <3> QED
      BY <1>1, SubSeqProperties
  <2> QED
    BY <1>1, <2>1
<1> HIDE DEF n, before, after, left
<1>5. /\ left \in Seq(SentRow) /\ Len(left) = n - 1
      /\ \A k \in 1..(n - 1) : left[k] = IF k <= i - 1 THEN before[k] ELSE after[k - (i - 1)]
  <2>1. /\ before \o after \in Seq(SentRow)
        /\ Len(before \o after) = Len(before) + Len(after)
        /\ \A k \in 1..(Len(before) + Len(after)) : (before \o after)[k] =
             IF k <= Len(before) THEN before[k] ELSE after[k - Len(before)]
    BY <1>3, <1>4, ConcatProperties
  <2>2. Len(before) + Len(after) = n - 1
    BY <1>1, <1>3, <1>4
  <2> QED
    BY <1>2, <1>3, <2>1, <2>2
<1>6. \A k \in 1..(n - 1) : left[k] = sent[IF k < i THEN k ELSE k + 1]
  <2> SUFFICES ASSUME NEW k \in 1..(n - 1) PROVE left[k] = sent[IF k < i THEN k ELSE k + 1]
    OBVIOUS
  <2>1. CASE k < i
    <3>1. k \in 1..(i - 1) /\ left[k] = before[k]
      BY <1>1, <1>5, <2>1
    <3> QED
      BY <1>3, <2>1, <3>1
  <2>2. CASE ~(k < i)
    <3>1. left[k] = after[k - (i - 1)] /\ k - (i - 1) \in 1..(n - i)
      BY <1>1, <1>5, <2>2
    <3>2. i + (k - (i - 1)) = k + 1
      BY <1>1
    <3> QED
      BY <1>4, <2>2, <3>1, <3>2
  <2> QED
    BY <2>1, <2>2
<1>7. NewestFirst(left)
  <2> SUFFICES ASSUME NEW j \in 1..(n - 1), NEW k \in 1..(n - 1), j < k
               PROVE  left[j].created >= left[k].created
    BY <1>1, <1>5 DEF NewestFirst
  <2> DEFINE a == IF j < i THEN j ELSE j + 1
             b == IF k < i THEN k ELSE k + 1
  <2>1. a \in 1..n /\ b \in 1..n /\ a < b
    BY <1>1
  <2>2. left[j] = sent[a] /\ left[k] = sent[b]
    BY <1>6
  <2> HIDE DEF a, b
  <2> QED
    BY <1>1, <2>1, <2>2 DEF NewestFirst
<1> QED
  BY <1>5, <1>7 DEF left

LEMMA TableChangeKeeps ==
    IngestInv /\ (NotificationIsSent \/ NotificationLeaves) => IngestInv'
<1> SUFFICES ASSUME IngestInv, NotificationIsSent \/ NotificationLeaves PROVE IngestInv'
  OBVIOUS
<1>1. tableChanged' = TRUE /\ ingest' = ingest /\ outcome' = NoOutcome
  BY DEF NotificationIsSent, NotificationLeaves
<1>2. sent' \in Seq(SentRow) /\ NewestFirst(sent')
  <2>1. CASE NotificationIsSent
    <3>1. PICK row \in SentRow, i \in 1..(Len(sent) + 1) :
            sent' = SubSeq(sent, 1, i - 1) \o <<row>> \o SubSeq(sent, i, Len(sent))
      BY <2>1 DEF NotificationIsSent, InsertAt
    <3>2. sent \in Seq(SentRow) /\ Len(sent) \in Nat
      BY DEF IngestInv, IngestTypes
    <3>3. SubSeq(sent, 1, i - 1) \in Seq(SentRow) /\ SubSeq(sent, i, Len(sent)) \in Seq(SentRow)
      BY <3>2, SubSeqProperties
    <3>4. <<row>> \in Seq(SentRow)
      OBVIOUS
    <3>5. SubSeq(sent, 1, i - 1) \o <<row>> \in Seq(SentRow)
      BY <3>3, <3>4, ConcatProperties
    <3>6. sent' \in Seq(SentRow)
      BY <3>1, <3>3, <3>5, ConcatProperties
    <3> QED
      BY <2>1, <3>6 DEF NotificationIsSent
  <2>2. CASE NotificationLeaves
    BY <2>2, SentStaysSorted DEF IngestInv, IngestTypes, NotificationLeaves
  <2> QED
    BY <2>1, <2>2
<1>3. IngestTypes' /\ LoadedSoFar' /\ UndisturbedRunLoadsAll'
  BY <1>1, <1>2 DEF IngestInv, IngestTypes, LoadedSoFar, UndisturbedRunLoadsAll, NewestFirst
<1>4. BatchCountsAddUp'
  BY <1>1, NothingIsCounted
<1> QED
  BY <1>3, <1>4 DEF IngestInv

\* A run of ingestAll that no row came between or left has loaded as many rows of
\* each instant as there are, and each batch counts every document but the empty
\* ones and the copies.
THEOREM IngestionCounts == IngestSpec => []IngestionAddsUp
<1>1. IngestInv /\ [IngestNext]_ingestVars => IngestInv'
  <2>1. IngestInv /\ UNCHANGED ingestVars => IngestInv'
    <3> SUFFICES ASSUME IngestInv, UNCHANGED ingestVars PROVE IngestInv'
      OBVIOUS
    <3>1. /\ sent' = sent /\ ingest' = ingest
          /\ tableChanged' = tableChanged /\ outcome' = outcome
      BY DEF ingestVars
    <3>2. IngestTypes'
      BY <3>1 DEF IngestInv, IngestTypes, NewestFirst
    <3>4. LoadedSoFar' /\ UndisturbedRunLoadsAll'
      BY <3>1 DEF IngestInv, LoadedSoFar, UndisturbedRunLoadsAll, Ties
    <3>5. BatchCountsAddUp'
      BY <3>1 DEF IngestInv, BatchCountsAddUp
    <3> QED
      BY <3>2, <3>4, <3>5 DEF IngestInv
  <2> QED
    BY <2>1, IngestSelectionKeeps, StartIngestKeeps, IngestPageKeeps, EndIngestKeeps,
       TableChangeKeeps DEF IngestNext
<1>2. IngestInv => IngestionAddsUp
  BY DEF IngestInv, IngestionAddsUp
<1> QED
  BY <1>1, <1>2, IngestStarts, PTL DEF IngestSpec

-----------------------------------------------------------------------------
(* The circuit breaker, for every set of callers and every positive choice  *)
(* of the two thresholds and the timeout.                                   *)

BreakerInv == TypeOK /\ CountersFitState

(* The arithmetic of the saturating failure count.                          *)
LEMMA CappedCounts ==
  ASSUME NEW n \in 0..FailureThreshold
  PROVE  /\ Capped(n + 1) \in 0..FailureThreshold
         /\ n + 1 < FailureThreshold => Capped(n + 1) < FailureThreshold
BY BreakerAssumption DEF Capped

(* onFailure keeps the counters in step with the state, given that the      *)
(* caller sets lastFailureTime.                                             *)
LEMMA OnFailureFits ==
  ASSUME BreakerInv, OnFailure, everFailed' = TRUE
  PROVE  /\ state' \in States
         /\ failureCount' \in 0..FailureThreshold
         /\ successCount' \in 0..SuccessThreshold
         /\ CountersFitState'
<1> USE BreakerAssumption DEF BreakerInv, TypeOK, CountersFitState, States
<1>1. failureCount' = Capped(failureCount + 1)
  BY DEF OnFailure
<1>2. CASE state = "HALF_OPEN" \/ failureCount + 1 >= FailureThreshold
  <2>1. state' = "OPEN" /\ successCount' = 0
    BY <1>2 DEF OnFailure
  <2>2. QED
    BY <1>1, <2>1, CappedCounts
<1>3. CASE ~(state = "HALF_OPEN" \/ failureCount + 1 >= FailureThreshold)
  <2>1. state' = state /\ successCount' = successCount /\ successCount = 0
    BY <1>3 DEF OnFailure
  <2>2. failureCount + 1 < FailureThreshold
    BY <1>3
  <2>3. QED
    BY <1>1, <2>1, <2>2, CappedCounts
<1>4. QED
  BY <1>2, <1>3

(* onSuccess does the same.                                                 *)
LEMMA OnSuccessFits ==
  ASSUME BreakerInv, OnSuccess, everFailed' = everFailed
  PROVE  /\ state' \in States
         /\ failureCount' \in 0..FailureThreshold
         /\ successCount' \in 0..SuccessThreshold
         /\ CountersFitState'
BY BreakerAssumption DEF BreakerInv, TypeOK, CountersFitState, States, OnSuccess

(* The invariant holds initially and every step keeps it.                   *)
LEMMA BreakerStarts == Init => BreakerInv
<1> SUFFICES ASSUME Init PROVE BreakerInv
  OBVIOUS
<1>1. TypeOK
  <2>1. everFailed \in BOOLEAN
    BY Zenon DEF Init
  <2>2. QED
    BY <2>1, BreakerAssumption DEF Init, TypeOK, States
<1>2. CountersFitState
  BY BreakerAssumption DEF Init, CountersFitState
<1>3. QED
  BY <1>1, <1>2 DEF BreakerInv

LEMMA BreakerStepKeeps == BreakerInv /\ [Next]_vars => BreakerInv'
<1> SUFFICES ASSUME BreakerInv, [Next]_vars PROVE BreakerInv'
  OBVIOUS
<1> USE BreakerAssumption DEF BreakerInv
<1>1. ASSUME NEW c \in Callers, Execute(c) PROVE BreakerInv'
  BY <1>1 DEF Execute, ShouldAttemptReset, TypeOK, CountersFitState, States
<1>2. ASSUME NEW c \in Callers, Succeed(c) PROVE BreakerInv'
  BY <1>2, OnSuccessFits DEF Succeed, TypeOK
<1>3. ASSUME NEW c \in Callers, Fail(c) PROVE BreakerInv'
  <2>1. OnFailure /\ everFailed' = TRUE /\ sinceFailure' = 0
    BY <1>3 DEF Fail
  <2>2. inFlight' \subseteq Callers /\ healthy' = healthy
    BY <1>3 DEF Fail, TypeOK
  <2>3. QED
    BY <2>1, <2>2, OnFailureFits DEF TypeOK
<1>4. CASE ClockTicks
  BY <1>4 DEF ClockTicks, TypeOK, CountersFitState
<1>5. CASE ProviderChanges
  BY <1>5 DEF ProviderChanges, counters, TypeOK, CountersFitState
<1>6. CASE UNCHANGED vars
  BY <1>6 DEF vars, TypeOK, CountersFitState
<1>7. QED
  BY <1>1, <1>2, <1>3, <1>4, <1>5, <1>6 DEF Next

(* The counters of execute(), onSuccess() and onFailure() always fit the    *)
(* state of the circuit, however calls overlap.                             *)
THEOREM CountersAlwaysFit == Spec => [](TypeOK /\ CountersFitState)
BY BreakerStarts, BreakerStepKeeps, PTL DEF Spec, BreakerInv

(* A call returning through onSuccess or onFailure takes one of the edges   *)
(* that BreakerAutomaton allows from the state it finds.                    *)
LEMMA ReturnEdge ==
  ASSUME BreakerInv, OnSuccess \/ OnFailure
  PROVE  state' \in Automaton!After(state)
<1> USE DEF BreakerInv, TypeOK, States, Automaton!After
<1>1. CASE state = "CLOSED"
  BY <1>1 DEF OnSuccess, OnFailure
<1>2. CASE state = "HALF_OPEN"
  BY <1>2 DEF OnSuccess, OnFailure
<1>3. CASE state = "OPEN"
  BY <1>3 DEF OnSuccess, OnFailure
<1>4. QED
  BY <1>1, <1>2, <1>3

LEMMA StepSimulates ==
  BreakerInv /\ [Next]_vars => [Automaton!Next]_(Automaton!vars)
<1> SUFFICES ASSUME BreakerInv, [Next]_vars
             PROVE  [Automaton!Next]_(Automaton!vars)
  OBVIOUS
<1>1. ASSUME NEW c \in Callers, Execute(c) PROVE Automaton!Next
  <2>1. Automaton!Admit(c)
    BY <1>1 DEF Execute, Automaton!Admit, BreakerInv, TypeOK, States
  <2>2. QED
    BY <2>1 DEF Automaton!Next
<1>2. ASSUME NEW c \in Callers, Succeed(c) \/ Fail(c) PROVE Automaton!Next
  <2>1. OnSuccess \/ OnFailure
    BY <1>2 DEF Succeed, Fail
  <2>2. c \in inFlight /\ inFlight' = inFlight \ {c}
    BY <1>2 DEF Succeed, Fail
  <2>3. Automaton!Return(c)
    BY <2>1, <2>2, ReturnEdge DEF Automaton!Return
  <2>4. QED
    BY <2>3 DEF Automaton!Next
<1>3. CASE ClockTicks \/ ProviderChanges \/ UNCHANGED vars
  BY <1>3 DEF ClockTicks, ProviderChanges, counters, vars, Automaton!vars
<1>4. QED
  BY <1>1, <1>2, <1>3 DEF Next

(* The counting breaker of retry.service.ts implements the three-state      *)
(* automaton: an open circuit lets nothing through but a probe, and no late *)
(* result moves it.                                                         *)
THEOREM BreakerImplementsAutomaton == Spec => ImplementsAutomaton
<1>1. Init => Automaton!Init
  BY DEF Init, Automaton!Init
<1>2. QED
  BY <1>1, BreakerStarts, BreakerStepKeeps, StepSimulates, PTL
     DEF Spec, ImplementsAutomaton, Automaton!Spec
============================================================================
