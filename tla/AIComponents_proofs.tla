------------------------ MODULE AIComponents_proofs ------------------------
(***************************************************************************)
(* What the components of the AI part keep, for every number of requests,  *)
(* rows and conversations.                                                 *)
(***************************************************************************)
EXTENDS AICostMonitor, AIAnalytics, ConversationMemory, AIRequests, CostTracking,
        FiniteSetTheorems, SequenceTheorems, WellFoundedInduction, TLAPS

-----------------------------------------------------------------------------
(* Natural numbers.                                                        *)

\* A quotient is the only integer whose product with the divisor is so near.
LEMMA Quotient ==
    ASSUME NEW x \in Int, NEW n \in Nat \ {0}
    PROVE  /\ x \div n \in Int
           /\ n * (x \div n) <= x
           /\ x < n * (x \div n) + n
  OBVIOUS

\* What divides less than a multiple divides to less.
LEMMA BelowMultiple ==
    ASSUME NEW p \in Int, NEW q \in Int, NEW n \in Nat \ {0}, n * p < n * q + n
    PROVE  p <= q
<1>1. SUFFICES ASSUME q + 1 <= p PROVE FALSE
  OBVIOUS
<1>2. n * (q + 1) <= n * p
  <2>1. n * (p - (q + 1)) >= 0
    BY <1>1
  <2> QED
    BY <2>1
<1>3. n * (q + 1) = n * q + n
  OBVIOUS
<1> QED
  BY <1>2, <1>3

\* A set of natural numbers has a least member.
LEMMA LeastMember ==
    ASSUME NEW S, S \subseteq Nat, S # {}
    PROVE  \E m \in S : \A n \in S : m <= n
<1>1. PICK m \in S : \A n \in S : ~(<<n, m>> \in OpToRel(<, Nat))
  BY NatLessThanWellFounded, WFMin
<1>2. \A n \in S : ~(n < m)
  BY <1>1 DEF OpToRel
<1> QED
  BY <1>2

\* Induction, with a set in place of a predicate: what holds 0 and with every
\* number the next holds all natural numbers.
LEMMA Counting ==
    ASSUME NEW G, 0 \in G, \A n \in Nat : n \in G => n + 1 \in G
    PROVE  Nat \subseteq G
<1> DEFINE bad == {n \in Nat : n \notin G}
<1>1. SUFFICES ASSUME bad # {} PROVE FALSE
  OBVIOUS
<1>2. PICK m \in bad : \A n \in bad : m <= n
  <2> HIDE DEF bad
  <2>1. bad \subseteq Nat
    BY DEF bad
  <2> QED
    BY <1>1, <2>1, LeastMember
<1>3. m \in Nat /\ m # 0 /\ m - 1 \in Nat /\ ~(m <= m - 1)
  BY <1>2
<1>4. m - 1 \in G /\ (m - 1) + 1 = m
  BY <1>2, <1>3
<1> QED
  BY <1>2, <1>3, <1>4

-----------------------------------------------------------------------------
(* Orders.                                                                 *)

\* The entry at place j does not come after the one at place i.
NotAfter(key, j, i) == key[j] < key[i] \/ (key[j] = key[i] /\ j <= i)

\* The rank grows along the order: an entry has a higher rank than whatever it
\* comes after.
LEMMA RankGrows ==
    ASSUME NEW S \in SUBSET Int, IsFiniteSet(S), NEW key \in [S -> Int],
           NEW i \in S, NEW j \in S, NotAfter(key, i, j), i # j
    PROVE  Rank(key, i) < Rank(key, j)
<1> DEFINE U == {y \in S : NotAfter(key, y, i)}
           V == {y \in S : NotAfter(key, y, j)}
<1>1. Rank(key, i) = Cardinality(U) /\ Rank(key, j) = Cardinality(V)
  BY DEF Rank, NotAfter
<1>2. ASSUME NEW y \in S, NotAfter(key, y, i) PROVE NotAfter(key, y, j)
  <2>1. /\ key[y] \in Int /\ key[i] \in Int /\ key[j] \in Int
        /\ y \in Int /\ i \in Int /\ j \in Int
    OBVIOUS
  <2> QED
    BY <1>2, <2>1 DEF NotAfter
<1>3. j \in V /\ j \notin U
  BY DEF NotAfter
<1>4. IsFiniteSet(U) /\ IsFiniteSet(V)
  BY FS_Subset
<1>5. U \subseteq V
  BY <1>2
<1> HIDE DEF U, V
<1>6. Cardinality(U) <= Cardinality(V) /\ Cardinality(U) # Cardinality(V)
  BY <1>3, <1>4, <1>5, FS_Subset
<1>7. Cardinality(U) \in Nat /\ Cardinality(V) \in Nat
  BY <1>4, FS_CardinalityType
<1> QED
  BY <1>1, <1>6, <1>7

\* The ranks are the numbers from 1 to the number of entries, each once.
LEMMA RanksAreThePlaces ==
    ASSUME NEW S \in SUBSET Int, IsFiniteSet(S), NEW key \in [S -> Int]
    PROVE  /\ \A i \in S : Rank(key, i) \in 1 .. Cardinality(S)
           /\ \A i, j \in S : Rank(key, i) = Rank(key, j) => i = j
           /\ \A k \in 1 .. Cardinality(S) : \E i \in S : Rank(key, i) = k
<1> DEFINE n == Cardinality(S)
           f == [i \in S |-> Rank(key, i)]
<1>1. n \in Nat
  BY FS_CardinalityType
<1>2. ASSUME NEW i \in S PROVE Rank(key, i) \in 1 .. n
  <2> DEFINE Up == {y \in S : NotAfter(key, y, i)}
  <2>1. Rank(key, i) = Cardinality(Up)
    BY DEF Rank, NotAfter
  <2>2. Up \in SUBSET S /\ i \in Up
    BY DEF NotAfter
  <2> HIDE DEF Up
  <2>3. IsFiniteSet(Up) /\ Cardinality(Up) <= n /\ Cardinality(Up) \in Nat
    BY <2>2, FS_Subset, FS_CardinalityType
  <2>4. Cardinality(Up) # 0
    BY <2>2, <2>3, FS_EmptySet
  <2> QED
    BY <1>1, <2>1, <2>3, <2>4
<1>3. ASSUME NEW i \in S, NEW j \in S, Rank(key, i) = Rank(key, j) PROVE i = j
  <2>1. SUFFICES ASSUME i # j PROVE FALSE
    OBVIOUS
  <2>2. NotAfter(key, i, j) \/ NotAfter(key, j, i)
    BY DEF NotAfter
  <2>3. Rank(key, i) \in Int /\ Rank(key, j) \in Int
    BY <1>2
  <2> QED
    BY <1>3, <2>1, <2>2, <2>3, RankGrows
<1>4. IsFiniteSet(1 .. n) /\ Cardinality(1 .. n) = n
  <2>1. /\ IsFiniteSet(1 .. n)
        /\ Cardinality(1 .. n) = IF 1 > n THEN 0 ELSE n - 1 + 1
    BY <1>1, FS_Interval
  <2> QED
    BY <1>1, <2>1
<1>5. f \in Injection(S, 1 .. n)
  BY <1>2, <1>3 DEF Injection, IsInjective
<1>6. f \in Surjection(S, 1 .. n)
  <2> HIDE DEF f, n
  <2>1. Cardinality(S) = Cardinality(1 .. n)
    BY <1>4 DEF n
  <2> QED
    BY <1>4, <1>5, <2>1, FS_Injection
<1>7. ASSUME NEW k \in 1 .. n PROVE \E i \in S : Rank(key, i) = k
  <2>1. PICK i \in S : f[i] = k
    BY <1>6 DEF Surjection
  <2> QED
    BY <2>1
<1> QED
  BY <1>2, <1>3, <1>7

\* The order has every place once; a later place has no smaller key, and of equal
\* keys the one at the earlier place comes first.
LEMMA OrderIsSorted ==
    ASSUME NEW S \in SUBSET Int, IsFiniteSet(S), NEW key \in [S -> Int]
    PROVE  LET n == Cardinality(S)
               order == InOrder(key)
           IN  /\ n \in Nat
               /\ order \in [1 .. n -> S]
               /\ \A i \in S : \E k \in 1 .. n : order[k] = i
               /\ \A k \in 1 .. n : Rank(key, order[k]) = k
               /\ \A k, l \in 1 .. n : k < l =>
                    /\ order[k] # order[l]
                    /\ NotAfter(key, order[k], order[l])
<1> DEFINE n == Cardinality(S)
           order == InOrder(key)
<1>1. n \in Nat
  BY FS_CardinalityType
<1>2. DOMAIN order = 1 .. n /\ order = [k \in 1 .. n |-> order[k]]
  BY DEF InOrder
<1>3. ASSUME NEW k \in 1 .. n PROVE order[k] \in S /\ Rank(key, order[k]) = k
  <2>1. order[k] = CHOOSE i \in S : Rank(key, i) = k
    BY DEF InOrder
  <2>2. \E i \in S : Rank(key, i) = k
    BY RanksAreThePlaces
  <2> HIDE DEF order
  <2> QED
    BY <2>1, <2>2
<1> HIDE DEF order
<1>4. \A i, j \in S : Rank(key, i) = Rank(key, j) => i = j
  BY RanksAreThePlaces
<1>5. order \in [1 .. n -> S]
  BY <1>2, <1>3
<1>6. ASSUME NEW i \in S PROVE \E k \in 1 .. n : order[k] = i
  <2>1. Rank(key, i) \in 1 .. n
    BY RanksAreThePlaces
  <2>2. order[Rank(key, i)] \in S /\ Rank(key, order[Rank(key, i)]) = Rank(key, i)
    BY <1>3, <2>1
  <2>3. order[Rank(key, i)] = i
    BY <1>4, <2>2
  <2> QED
    BY <2>1, <2>3
<1>7. ASSUME NEW k \in 1 .. n, NEW l \in 1 .. n, k < l
      PROVE  order[k] # order[l] /\ NotAfter(key, order[k], order[l])
  <2>1. /\ order[k] \in S /\ Rank(key, order[k]) = k
        /\ order[l] \in S /\ Rank(key, order[l]) = l
    BY <1>3
  <2>2. order[k] # order[l]
    BY <1>1, <1>7, <2>1
  <2>3. NotAfter(key, order[k], order[l]) \/ NotAfter(key, order[l], order[k])
    <3>1. \A i, j \in S : NotAfter(key, i, j) \/ NotAfter(key, j, i)
      BY DEF NotAfter
    <3> QED
      BY <2>1, <3>1
  <2>4. ~NotAfter(key, order[l], order[k])
    <3>1. SUFFICES ASSUME NotAfter(key, order[l], order[k]) PROVE FALSE
      OBVIOUS
    <3>2. Rank(key, order[l]) < Rank(key, order[k])
      BY <2>1, <2>2, <3>1, RankGrows
    <3> QED
      BY <1>1, <1>7, <2>1, <3>2
  <2> QED
    BY <2>2, <2>3, <2>4
<1> QED
  BY <1>1, <1>3, <1>5, <1>6, <1>7 DEF order

\* The places of a set, ascending, each once.
LEMMA AscendingOnce ==
    ASSUME NEW S \in SUBSET Int, IsFiniteSet(S)
    PROVE  LET n == Cardinality(S)
               order == Ascending(S)
           IN  /\ n \in Nat
               /\ order \in [1 .. n -> S]
               /\ \A i \in S : \E k \in 1 .. n : order[k] = i
               /\ \A k, l \in 1 .. n : k < l => order[k] < order[l]
<1> DEFINE key == [i \in S |-> i]
           n == Cardinality(S)
           order == InOrder(key)
<1>1. key \in [S -> Int] /\ Ascending(S) = order
  BY DEF Ascending
<1>2. /\ n \in Nat
      /\ order \in [1 .. n -> S]
      /\ \A i \in S : \E k \in 1 .. n : order[k] = i
      /\ \A k, l \in 1 .. n : k < l =>
            order[k] # order[l] /\ NotAfter(key, order[k], order[l])
  <2> HIDE DEF key
  <2> QED
    BY <1>1, OrderIsSorted
<1>3. ASSUME NEW k \in 1 .. n, NEW l \in 1 .. n, k < l PROVE order[k] < order[l]
  <2> HIDE DEF order, n
  <2>1. order[k] \in S /\ order[l] \in S /\ order[k] # order[l]
        /\ NotAfter(key, order[k], order[l])
    BY <1>2, <1>3
  <2> QED
    BY <2>1 DEF NotAfter
<1> QED
  BY <1>1, <1>2, <1>3

-----------------------------------------------------------------------------
(* Sums.  SumFunctionOnSet picks the members of the set one after another.  *)

Picked(s) == CHOOSE x \in s : TRUE
Partial(f, it, s) == IF s = {} THEN 0 ELSE f[Picked(s)] + it[s \ {Picked(s)}]

\* it[s] is the sum over s for every subset of S.
IsSum(it, f, S) == it = [s \in SUBSET S |-> Partial(f, it, s)]

LEMMA SumIsChosen ==
    ASSUME NEW f, NEW S
    PROVE  SumFunctionOnSet(f, S) = (CHOOSE it : IsSum(it, f, S))[S]
  BY DEF SumFunctionOnSet, FoldFunctionOnSet, MapThenFoldSet, IsSum, Partial, Picked

\* There are sums over the subsets of a finite set: a smallest size of subsets
\* without them would be one more than a size with them.
LEMMA SumsExist ==
    ASSUME NEW f, NEW S, IsFiniteSet(S)
    PROVE  \E it : IsSum(it, f, S)
<1> DEFINE Small(n) == {s \in SUBSET S : Cardinality(s) <= n}
           Found(n) == \E it : it = [s \in Small(n) |-> Partial(f, it, s)]
<1>1. ASSUME NEW s \in SUBSET S PROVE Cardinality(s) \in Nat
  BY FS_Subset, FS_CardinalityType
<1>7. ASSUME NEW s \in SUBSET S, Cardinality(s) = 0 PROVE s = {}
  BY <1>7, FS_Subset, FS_EmptySet
<1>8. ASSUME NEW s \in SUBSET S, s # {}
      PROVE  /\ s \ {Picked(s)} \in SUBSET S
             /\ Cardinality(s \ {Picked(s)}) = Cardinality(s) - 1
  <2>1. Picked(s) \in s
    BY <1>8 DEF Picked
  <2> QED
    BY <2>1, FS_Subset, FS_RemoveElement
<1>2. Found(0)
  <2> DEFINE it == [s \in Small(0) |-> 0]
  <2>1. ASSUME NEW s \in Small(0) PROVE s = {}
    <3>1. s \in SUBSET S /\ Cardinality(s) <= 0
      OBVIOUS
    <3>2. Cardinality(s) = 0
      BY <1>1, <3>1
    <3> QED
      BY <1>7, <3>1, <3>2
  <2>2. \A s \in Small(0) : Partial(f, it, s) = 0
    BY <2>1 DEF Partial
  <2>3. it = [s \in Small(0) |-> Partial(f, it, s)]
    BY <2>2
  <2> QED
    BY <2>3
<1>3. ASSUME NEW n \in Nat, Found(n) PROVE Found(n + 1)
  <2>1. PICK less : less = [s \in Small(n) |-> Partial(f, less, s)]
    BY <1>3
  <2> DEFINE it == [s \in Small(n + 1) |-> Partial(f, less, s)]
  <2>2. \A s \in Small(n) : it[s] = less[s]
    <3>1. ASSUME NEW s \in Small(n) PROVE s \in Small(n + 1)
      <4>1. s \in SUBSET S /\ Cardinality(s) <= n
        OBVIOUS
      <4>2. Cardinality(s) <= n + 1
        BY <1>1, <4>1
      <4> QED
        BY <4>1, <4>2
    <3> QED
      BY <2>1, <3>1
  <2>3. \A s \in Small(n + 1) : Partial(f, it, s) = Partial(f, less, s)
    <3>1. ASSUME NEW s \in Small(n + 1), s # {} PROVE s \ {Picked(s)} \in Small(n)
      <4>1. s \in SUBSET S /\ Cardinality(s) <= n + 1
        OBVIOUS
      <4>2. Cardinality(s) - 1 <= n
        BY <1>1, <4>1
      <4> QED
        BY <1>8, <3>1, <4>1, <4>2
    <3> HIDE DEF it
    <3> QED
      BY <2>2, <3>1 DEF Partial
  <2>4. it = [s \in Small(n + 1) |-> Partial(f, it, s)]
    BY <2>3
  <2> QED
    BY <2>4
<1>4. \A n \in Nat : Found(n)
  <2> DEFINE G == {n \in Nat : Found(n)}
  <2> HIDE DEF Found
  <2>1. 0 \in G /\ \A n \in Nat : n \in G => n + 1 \in G
    BY <1>2, <1>3
  <2>2. Nat \subseteq G
    <3> HIDE DEF G
    <3> QED
      BY <2>1, Counting
  <2> QED
    BY <2>2
<1>5. Small(Cardinality(S)) = SUBSET S
  BY FS_Subset, FS_CardinalityType
<1>6. Found(Cardinality(S))
  <2> HIDE DEF Found
  <2> QED
    BY <1>4, FS_CardinalityType
<1> QED
  BY <1>5, <1>6 DEF IsSum

\* A property of the subsets of a finite set that holds of a subset whenever it
\* holds of what is left when a member leaves.
LEMMA Removing ==
    ASSUME NEW S, IsFiniteSet(S), NEW G,
           \A s \in SUBSET S : (\A x \in s : s \ {x} \in G) => s \in G
    PROVE  \A s \in SUBSET S : s \in G
<1> DEFINE H == {n \in Nat : \A s \in SUBSET S : Cardinality(s) = n => s \in G}
<1>1. 0 \in H
  <2>1. ASSUME NEW s \in SUBSET S, Cardinality(s) = 0 PROVE s = {}
    BY <2>1, FS_Subset, FS_EmptySet
  <2>2. ASSUME NEW s \in SUBSET S, Cardinality(s) = 0 PROVE s \in G
    <3>1. \A x \in s : s \ {x} \in G
      BY <2>1, <2>2
    <3> QED
      BY <3>1
  <2> QED
    BY <2>2
<1>2. ASSUME NEW n \in Nat, n \in H PROVE n + 1 \in H
  <2>1. ASSUME NEW s \in SUBSET S, Cardinality(s) = n + 1 PROVE s \in G
    <3>1. ASSUME NEW x \in s PROVE s \ {x} \in G
      <4>1. s \ {x} \in SUBSET S
        OBVIOUS
      <4>2. Cardinality(s \ {x}) = n
        <5>1. Cardinality(s \ {x}) = Cardinality(s) - 1
          BY FS_Subset, FS_RemoveElement
        <5> QED
          BY <2>1, <5>1
      <4> QED
        BY <1>2, <4>1, <4>2
    <3> QED
      BY <3>1
  <2> QED
    BY <2>1
<1>3. Nat \subseteq H
  <2> HIDE DEF H
  <2> QED
    BY <1>1, <1>2, Counting
<1>4. ASSUME NEW s \in SUBSET S PROVE s \in G
  <2>1. Cardinality(s) \in Nat
    BY FS_Subset, FS_CardinalityType
  <2> QED
    BY <1>3, <2>1
<1> QED
  BY <1>4

\* Two functions that agree on a set have one sum over it, whichever larger sets
\* the sums were taken along.
LEMMA SumsAgree ==
    ASSUME NEW f, NEW g, NEW S, NEW T, NEW a, NEW b, IsSum(a, f, S), IsSum(b, g, T),
           IsFiniteSet(S), T \subseteq S, \A x \in T : f[x] = g[x]
    PROVE  \A s \in SUBSET T : a[s] = b[s]
<1> DEFINE G == {s \in SUBSET T : a[s] = b[s]}
<1>1. ASSUME NEW s \in SUBSET T, \A x \in s : s \ {x} \in G PROVE s \in G
  <2>1. a[s] = Partial(f, a, s) /\ b[s] = Partial(g, b, s)
    BY DEF IsSum
  <2>2. CASE s = {}
    BY <2>1, <2>2 DEF Partial
  <2>3. CASE s # {}
    <3>1. Picked(s) \in s
      BY <2>3 DEF Picked
    <3>2. a[s \ {Picked(s)}] = b[s \ {Picked(s)}]
      BY <1>1, <3>1
    <3>3. f[Picked(s)] = g[Picked(s)]
      BY <3>1
    <3> QED
      BY <2>1, <2>3, <3>2, <3>3 DEF Partial
  <2> QED
    BY <2>2, <2>3
<1>2. IsFiniteSet(T)
  BY FS_Subset
<1>3. \A s \in SUBSET T : s \in G
  <2> HIDE DEF G
  <2> QED
    BY <1>1, <1>2, Removing
<1> QED
  BY <1>3

LEMMA SumAlong ==
    ASSUME NEW f, NEW S, IsFiniteSet(S), NEW a, IsSum(a, f, S), NEW T \in SUBSET S
    PROVE  SumFunctionOnSet(f, T) = a[T]
<1>1. IsFiniteSet(T)
  BY FS_Subset
<1>2. PICK b : b = (CHOOSE it : IsSum(it, f, T)) /\ IsSum(b, f, T)
  BY <1>1, SumsExist
<1>3. SumFunctionOnSet(f, T) = b[T]
  BY <1>2, SumIsChosen
<1>4. \A s \in SUBSET T : a[s] = b[s]
  BY <1>2, SumsAgree
<1> QED
  BY <1>3, <1>4

LEMMA SumSame ==
    ASSUME NEW f, NEW g, NEW S, IsFiniteSet(S), \A x \in S : f[x] = g[x]
    PROVE  SumFunctionOnSet(f, S) = SumFunctionOnSet(g, S)
<1>1. PICK a : IsSum(a, f, S)
  BY SumsExist
<1>2. PICK b : IsSum(b, g, S)
  BY SumsExist
<1>3. SumFunctionOnSet(f, S) = a[S] /\ SumFunctionOnSet(g, S) = b[S]
  BY <1>1, <1>2, SumAlong
<1>4. S \subseteq S
  OBVIOUS
<1>5. \A s \in SUBSET S : a[s] = b[s]
  BY <1>1, <1>2, <1>4, SumsAgree
<1> QED
  BY <1>3, <1>5

LEMMA SumOfNone == ASSUME NEW f PROVE SumFunctionOnSet(f, {}) = 0
<1>1. IsFiniteSet({})
  BY FS_EmptySet
<1>2. PICK a : IsSum(a, f, {})
  BY <1>1, SumsExist
<1>3. SumFunctionOnSet(f, {}) = a[{}]
  BY <1>1, <1>2, SumAlong
<1>4. a[{}] = Partial(f, a, {})
  BY <1>2 DEF IsSum
<1> QED
  BY <1>3, <1>4 DEF Partial

LEMMA PartialSums ==
    ASSUME NEW f, NEW S, IsFiniteSet(S), \A y \in S : f[y] \in Int, NEW a, IsSum(a, f, S)
    PROVE  \A s \in SUBSET S : a[s] \in Int
<1> DEFINE G == {s \in SUBSET S : a[s] \in Int}
<1>1. ASSUME NEW s \in SUBSET S, \A x \in s : s \ {x} \in G PROVE s \in G
  <2>1. a[s] = Partial(f, a, s)
    BY DEF IsSum
  <2>2. CASE s = {}
    BY <2>1, <2>2 DEF Partial
  <2>3. CASE s # {}
    <3>1. Picked(s) \in s
      BY <2>3 DEF Picked
    <3>2. f[Picked(s)] \in Int /\ a[s \ {Picked(s)}] \in Int
      BY <1>1, <3>1
    <3>3. a[s] = f[Picked(s)] + a[s \ {Picked(s)}]
      BY <2>1, <2>3 DEF Partial
    <3> QED
      BY <3>2, <3>3
  <2> QED
    BY <2>2, <2>3
<1>2. \A s \in SUBSET S : s \in G
  <2> HIDE DEF G
  <2> QED
    BY <1>1, Removing
<1> QED
  BY <1>2

\* The order of the members does not matter: any of them may come first.
LEMMA SumRemoves ==
    ASSUME NEW f, NEW S, IsFiniteSet(S), \A y \in S : f[y] \in Int
    PROVE  /\ SumFunctionOnSet(f, S) \in Int
           /\ \A x \in S : SumFunctionOnSet(f, S) = f[x] + SumFunctionOnSet(f, S \ {x})
<1>1. PICK a : IsSum(a, f, S)
  BY SumsExist
<1>2. \A s \in SUBSET S : a[s] \in Int
  BY <1>1, PartialSums
<1> DEFINE G == {s \in SUBSET S : \A x \in s : a[s] = f[x] + a[s \ {x}]}
<1>3. ASSUME NEW s \in SUBSET S, \A x \in s : s \ {x} \in G, NEW x \in s
      PROVE  a[s] = f[x] + a[s \ {x}]
  <2> DEFINE p == Picked(s)
  <2>1. p \in s
    BY DEF Picked
  <2>2. a[s] = f[p] + a[s \ {p}]
    <3>1. a[s] = Partial(f, a, s)
      BY <1>1 DEF IsSum
    <3> QED
      BY <3>1 DEF Partial
  <2> HIDE DEF p
  <2>3. CASE x = p
    BY <2>2, <2>3
  <2>4. CASE x # p
    <3> DEFINE rest == s \ {p, x}
    <3>1. (s \ {p}) \ {x} = rest /\ (s \ {x}) \ {p} = rest
      OBVIOUS
    <3>2. a[s \ {p}] = f[x] + a[rest]
      BY <1>3, <2>1, <2>4, <3>1
    <3>3. a[s \ {x}] = f[p] + a[rest]
      BY <1>3, <2>1, <2>4, <3>1
    <3>4. a[rest] \in Int /\ f[p] \in Int /\ f[x] \in Int
      BY <1>2, <2>1
    <3> HIDE DEF rest
    <3> QED
      BY <2>2, <3>2, <3>3, <3>4
  <2> QED
    BY <2>3, <2>4
<1>4. \A s \in SUBSET S : s \in G
  <2>1. \A s \in SUBSET S : (\A x \in s : s \ {x} \in G) => s \in G
    BY <1>3
  <2> HIDE DEF G
  <2> QED
    BY <2>1, Removing
<1>5. S \in G
  BY <1>4
<1>6. \A T \in SUBSET S : SumFunctionOnSet(f, T) = a[T]
  BY <1>1, SumAlong
<1> QED
  BY <1>2, <1>5, <1>6

LEMMA SumAdds ==
    ASSUME NEW f, NEW S, IsFiniteSet(S), NEW x, x \notin S,
           f[x] \in Int, \A y \in S : f[y] \in Int
    PROVE  SumFunctionOnSet(f, S \cup {x}) = f[x] + SumFunctionOnSet(f, S)
<1> DEFINE T == S \cup {x}
<1>1. IsFiniteSet(T) /\ x \in T /\ T \ {x} = S
  BY FS_AddElement
<1>2. \A y \in T : f[y] \in Int
  OBVIOUS
<1> HIDE DEF T
<1>3. SumFunctionOnSet(f, T) = f[x] + SumFunctionOnSet(f, T \ {x})
  BY <1>1, <1>2, SumRemoves
<1> QED
  BY <1>1, <1>3 DEF T

\* A sum over two sets apart is the two sums.
LEMMA SumOfBoth ==
    ASSUME NEW f, NEW A, NEW B, IsFiniteSet(A), IsFiniteSet(B), A \cap B = {},
           \A y \in A \cup B : f[y] \in Int
    PROVE  SumFunctionOnSet(f, A \cup B) = SumFunctionOnSet(f, A) + SumFunctionOnSet(f, B)
<1> DEFINE Sum(S) == SumFunctionOnSet(f, S)
           G == {s \in SUBSET B : Sum(A \cup s) = Sum(A) + Sum(s)}
<1>1. \A S \in SUBSET (A \cup B) : IsFiniteSet(S)
  BY FS_Union, FS_Subset
<1>2. ASSUME NEW S \in SUBSET (A \cup B)
      PROVE  Sum(S) \in Int /\ \A x \in S : Sum(S) = f[x] + Sum(S \ {x})
  BY <1>1, SumRemoves
<1> HIDE DEF Sum
<1>3. ASSUME NEW s \in SUBSET B, \A x \in s : s \ {x} \in G PROVE s \in G
  <2>1. CASE s = {}
    <3>1. A \cup s = A /\ Sum(A) \in Int
      BY <1>2, <2>1
    <3>2. Sum(s) = 0
      BY <2>1, SumOfNone DEF Sum
    <3> QED
      BY <3>1, <3>2
  <2>2. CASE s # {}
    <3>1. PICK x : x \in s
      BY <2>2
    <3> DEFINE r == s \ {x}
    <3>2. Sum(A \cup r) = Sum(A) + Sum(r)
      BY <1>3, <3>1
    <3>3. (A \cup s) \ {x} = A \cup r /\ x \in A \cup s
      BY <3>1
    <3>4. Sum(A \cup s) = f[x] + Sum(A \cup r)
      BY <1>2, <3>3
    <3>5. Sum(s) = f[x] + Sum(r)
      <4>1. s \in SUBSET (A \cup B)
        OBVIOUS
      <4> QED
        BY <1>2, <3>1, <4>1
    <3>6. Sum(A) \in Int /\ Sum(r) \in Int /\ f[x] \in Int
      BY <1>2, <3>1
    <3> HIDE DEF r
    <3> QED
      BY <3>2, <3>4, <3>5, <3>6
  <2> QED
    BY <2>1, <2>2
<1>4. \A s \in SUBSET B : s \in G
  <2> HIDE DEF G
  <2> QED
    BY <1>3, Removing
<1>5. B \in G
  BY <1>4
<1> QED
  BY <1>5 DEF Sum

\* The first n of one and the n after the first m of another that are the same
\* have the same sum.
Behind(g, f, m, n) == \A i \in 1 .. n : g[i] = f[m + i] /\ g[i] \in Int

LEMMA SumShifts ==
    ASSUME NEW f, NEW g, NEW m \in Nat, NEW n \in Nat, Behind(g, f, m, n)
    PROVE  SumFunctionOnSet(g, 1 .. n) = SumFunctionOnSet(f, m + 1 .. m + n)
<1> DEFINE G == {k \in Nat : k <= n =>
                    SumFunctionOnSet(g, 1 .. k) = SumFunctionOnSet(f, m + 1 .. m + k)}
<1>1. 0 \in G
  <2>1. 1 .. 0 = {} /\ m + 1 .. m + 0 = {}
    OBVIOUS
  <2> QED
    BY <2>1, SumOfNone
<1>2. ASSUME NEW k \in Nat, k \in G PROVE k + 1 \in G
  <2>1. SUFFICES ASSUME k + 1 <= n
                 PROVE  SumFunctionOnSet(g, 1 .. k + 1)
                          = SumFunctionOnSet(f, m + 1 .. m + (k + 1))
    OBVIOUS
  <2>2. /\ 1 .. k + 1 = (1 .. k) \cup {k + 1} /\ k + 1 \notin 1 .. k
        /\ m + 1 .. m + (k + 1) = (m + 1 .. m + k) \cup {m + (k + 1)}
        /\ m + (k + 1) \notin m + 1 .. m + k
    OBVIOUS
  <2>3. IsFiniteSet(1 .. k) /\ IsFiniteSet(m + 1 .. m + k)
    BY FS_Interval
  <2>4. /\ g[k + 1] = f[m + (k + 1)] /\ g[k + 1] \in Int
        /\ \A i \in 1 .. k : g[i] \in Int
    BY <2>1 DEF Behind
  <2>5. ASSUME NEW j \in m + 1 .. m + k PROVE f[j] \in Int
    <3>1. j - m \in 1 .. n /\ m + (j - m) = j
      BY <2>1
    <3> QED
      BY <3>1 DEF Behind
  <2>6. SumFunctionOnSet(g, 1 .. k + 1) = g[k + 1] + SumFunctionOnSet(g, 1 .. k)
    <3>1. SumFunctionOnSet(g, (1 .. k) \cup {k + 1}) = g[k + 1] + SumFunctionOnSet(g, 1 .. k)
      BY <2>2, <2>3, <2>4, SumAdds
    <3> QED
      BY <2>2, <3>1
  <2>7. SumFunctionOnSet(f, m + 1 .. m + (k + 1))
          = f[m + (k + 1)] + SumFunctionOnSet(f, m + 1 .. m + k)
    <3> DEFINE x == m + (k + 1)
               T == m + 1 .. m + k
    <3>1. x \notin T /\ IsFiniteSet(T) /\ f[x] \in Int /\ \A j \in T : f[j] \in Int
      BY <2>2, <2>3, <2>4, <2>5
    <3> HIDE DEF x, T
    <3>2. SumFunctionOnSet(f, T \cup {x}) = f[x] + SumFunctionOnSet(f, T)
      BY <3>1, SumAdds
    <3> QED
      BY <2>2, <3>2 DEF x, T
  <2>8. SumFunctionOnSet(g, 1 .. k) = SumFunctionOnSet(f, m + 1 .. m + k)
    BY <1>2, <2>1
  <2> QED
    BY <2>4, <2>6, <2>7, <2>8
<1>3. Nat \subseteq G
  <2> HIDE DEF G
  <2> QED
    BY <1>1, <1>2, Counting
<1> QED
  BY <1>3

-----------------------------------------------------------------------------
(* The alerts about costs.                                                 *)

Alarms == {"alert", "warning"}
Phases == {"none", "asked", "read", "alert", "warning"}
AtWork(i) == monitor[i] # NoCheck
Reached(d, status) == \E c \in seen[d] : CostStatus(c) = status

MonitorTypes ==
    /\ tick \in Ticks
    /\ DOMAIN monitor = Checks /\ monitor = [i \in Checks |-> monitor[i]]
    /\ \A i \in Checks :
        /\ DOMAIN monitor[i] = {"phase", "day", "cost"} /\ monitor[i].phase \in Phases
        /\ AtWork(i) => monitor[i].day \in Days /\ monitor[i].day <= DayOf(tick)
        /\ monitor[i].phase = "none" <=> ~AtWork(i)
    /\ lastDates \in [Alarms -> Days \cup {NoDay}]
    /\ \A s \in Alarms : lastDates[s] <= DayOf(tick)
    /\ raised \in [Days -> [Alarms -> Nat]]
    /\ DOMAIN seen = Days /\ seen = [d \in Days |-> seen[d]]
    /\ crossed \in BOOLEAN

\* What is noted, or about to be, was raised.
NotedWereRaised ==
    /\ \A s \in Alarms : lastDates[s] # NoDay => raised[lastDates[s]][s] >= 1
    /\ \A i \in Checks : monitor[i].phase \in Alarms =>
            raised[monitor[i].day][monitor[i].phase] >= 1

\* Something was raised for exactly the costs that were read.
RaisedWereReached ==
    \A d \in Days, s \in Alarms : Reached(d, s) <=> raised[d][s] >= 1

\* As long as no two checks overlap the days that are noted go up, and what was
\* raised has been noted or is about to be.
OneAtATime ==
    ~crossed =>
        /\ \A i, j \in Checks : AtWork(i) /\ AtWork(j) => i = j
        /\ \A i \in Checks, s \in Alarms : AtWork(i) => lastDates[s] <= monitor[i].day
        /\ \A d \in Days, s \in Alarms : raised[d][s] >= 1 =>
            \/ d <= lastDates[s]
            \/ \E i \in Checks : monitor[i].phase = s /\ monitor[i].day = d
        /\ \A d \in Days, s \in Alarms : raised[d][s] <= 1

MonitorInv == MonitorTypes /\ NotedWereRaised /\ RaisedWereReached /\ OneAtATime

LEMMA DaysGoOn ==
    /\ \A t \in Ticks : DayOf(t) \in Days
    /\ \A t, u \in Ticks : t <= u => DayOf(t) <= DayOf(u)
<1>1. TicksPerDay \in Nat \ {0} /\ LastDay \in Nat
  BY MonitorAssumption
<1>2. ASSUME NEW t \in Ticks
      PROVE  /\ t \in Int /\ DayOf(t) \in Int
             /\ TicksPerDay * DayOf(t) <= t
             /\ t < TicksPerDay * DayOf(t) + TicksPerDay
             /\ 0 <= t /\ t < TicksPerDay * LastDay + TicksPerDay
  <2>1. (LastDay + 1) * TicksPerDay = TicksPerDay * LastDay + TicksPerDay
    BY <1>1
  <2>2. TicksPerDay * LastDay \in Int
    BY <1>1
  <2>3. t \in Int /\ 0 <= t /\ t < TicksPerDay * LastDay + TicksPerDay
    <3> DEFINE w == TicksPerDay * LastDay
    <3>1. t \in 0 .. (w + TicksPerDay) - 1 /\ w \in Int
      BY <2>1, <2>2 DEF Ticks
    <3> HIDE DEF w
    <3>2. t \in Int /\ 0 <= t /\ t < w + TicksPerDay
      BY <1>1, <3>1
    <3> QED
      BY <3>2 DEF w
  <2> QED
    BY <1>1, <2>3, Quotient DEF DayOf
<1>3. ASSUME NEW t \in Ticks PROVE DayOf(t) \in Days
  <2>1. TicksPerDay * DayOf(t) < TicksPerDay * LastDay + TicksPerDay
    <3> DEFINE w == TicksPerDay * LastDay
               v == TicksPerDay * DayOf(t)
    <3>1. t \in Int /\ w \in Int /\ v \in Int /\ v <= t /\ t < w + TicksPerDay
      BY <1>1, <1>2
    <3> HIDE DEF v, w
    <3>2. v < w + TicksPerDay
      BY <1>1, <3>1
    <3> QED
      BY <3>2 DEF v, w
  <2>2. TicksPerDay * 0 < TicksPerDay * DayOf(t) + TicksPerDay
    <3> DEFINE v == TicksPerDay * DayOf(t)
    <3>1. t \in Int /\ v \in Int /\ 0 <= t /\ t < v + TicksPerDay /\ TicksPerDay * 0 = 0
      BY <1>1, <1>2
    <3> HIDE DEF v
    <3>2. TicksPerDay * 0 < v + TicksPerDay
      BY <1>1, <3>1
    <3> QED
      BY <3>2 DEF v
  <2>3. DayOf(t) \in Int /\ DayOf(t) <= LastDay /\ 0 <= DayOf(t)
    BY <1>1, <1>2, <2>1, <2>2, BelowMultiple
  <2> QED
    BY <1>1, <2>3 DEF Days
<1>4. ASSUME NEW t \in Ticks, NEW u \in Ticks, t <= u PROVE DayOf(t) <= DayOf(u)
  <2> DEFINE v == TicksPerDay * DayOf(t)
             w == TicksPerDay * DayOf(u)
  <2>1. /\ t \in Int /\ u \in Int /\ v \in Int /\ w \in Int
        /\ v <= t /\ u < w + TicksPerDay
    BY <1>1, <1>2
  <2> HIDE DEF v, w
  <2>2. v < w + TicksPerDay
    BY <1>1, <1>4, <2>1
  <2> USE DEF v, w
  <2> QED
    BY <1>1, <1>2, <2>2, BelowMultiple
<1> QED
  BY <1>3, <1>4

LEMMA Statuses ==
    ASSUME NEW c
    PROVE  CostStatus(c) \in Alarms \cup {"ok"}
  BY DEF CostStatus, Alarms

LEMMA MonitorStarts == MonitorInit => MonitorInv
<1> SUFFICES ASSUME MonitorInit PROVE MonitorInv
  OBVIOUS
<1>1. 0 \in Ticks
  BY MonitorAssumption DEF Ticks
<1>2. DayOf(0) \in Days
  BY <1>1, DaysGoOn
<1>3. [alert |-> NoDay, warning |-> NoDay] \in [Alarms -> Days \cup {NoDay}]
      /\ [alert |-> 0, warning |-> 0] \in [Alarms -> Nat]
  BY DEF Alarms
<1>4. MonitorTypes
  <2>1. /\ tick \in Ticks /\ DOMAIN monitor = Checks
        /\ monitor = [i \in Checks |-> monitor[i]]
    BY <1>1 DEF MonitorInit
  <2>2. \A i \in Checks : monitor[i] = NoCheck
    BY DEF MonitorInit
  <2>3. /\ DOMAIN NoCheck = {"phase", "day", "cost"}
        /\ NoCheck.phase = "none" /\ "none" \in Phases
    BY DEF NoCheck, Phases
  <2>4. \A s \in Alarms : lastDates[s] = -1
    BY DEF MonitorInit, Alarms, NoDay
  <2>5. 0 <= DayOf(tick) /\ DayOf(tick) \in Int
    BY <1>2 DEF MonitorInit, Days
  <2>6. \A s \in Alarms : lastDates[s] <= DayOf(tick)
    BY <2>4, <2>5
  <2>7. lastDates \in [Alarms -> Days \cup {NoDay}] /\ raised \in [Days -> [Alarms -> Nat]]
    BY <1>3 DEF MonitorInit
  <2>8. DOMAIN seen = Days /\ seen = [d \in Days |-> seen[d]] /\ crossed \in BOOLEAN
    BY DEF MonitorInit
  <2>9. ASSUME NEW i \in Checks
        PROVE  /\ DOMAIN monitor[i] = {"phase", "day", "cost"} /\ monitor[i].phase \in Phases
               /\ ~AtWork(i) /\ monitor[i].phase = "none"
    BY <2>2, <2>3 DEF AtWork
  <2> QED
    BY <2>1, <2>6, <2>7, <2>8, <2>9 DEF MonitorTypes
<1>5. NotedWereRaised
  BY DEF MonitorInit, NotedWereRaised, NoCheck, Alarms
<1>6. RaisedWereReached /\ OneAtATime
  BY DEF MonitorInit, RaisedWereReached, OneAtATime, Reached, AtWork, Alarms
<1> QED
  BY <1>4, <1>5, <1>6 DEF MonitorInv

LEMMA KeptByTime == MonitorInv /\ TimeGoesOn => MonitorInv'
<1> SUFFICES ASSUME MonitorInv, TimeGoesOn PROVE MonitorInv'
  OBVIOUS
<1>1. tick \in Ticks /\ tick' \in Ticks /\ tick <= tick'
  BY DEF MonitorInv, MonitorTypes, TimeGoesOn, Ticks
<1>2. DayOf(tick) <= DayOf(tick)' /\ DayOf(tick) \in Days /\ DayOf(tick)' \in Days
  BY <1>1, DaysGoOn
<1>3. MonitorTypes'
  <2>1. UNCHANGED <<monitor, lastDates, raised, seen, crossed>>
    BY DEF TimeGoesOn
  <2>2. \A e \in Days \cup {NoDay} : e <= DayOf(tick) => e <= DayOf(tick')
    BY <1>2 DEF Days, NoDay
  <2>3. /\ \A i \in Checks : AtWork(i) => monitor[i].day \in Days /\ monitor[i].day <= DayOf(tick')
        /\ \A s \in Alarms : lastDates[s] <= DayOf(tick')
    BY <2>2 DEF MonitorInv, MonitorTypes
  <2> QED
    BY <1>1, <2>1, <2>3 DEF MonitorInv, MonitorTypes, AtWork
<1> QED
  BY <1>3 DEF MonitorInv, TimeGoesOn, NotedWereRaised, RaisedWereReached, OneAtATime, Reached, AtWork

LEMMA KeptByCosts == MonitorInv /\ (\E c \in Prices : StoreCost(c)) => MonitorInv'
  BY DEF MonitorInv, StoreCost, MonitorTypes, NotedWereRaised, RaisedWereReached, OneAtATime,
         Reached, AtWork

LEMMA KeptByStart == MonitorInv /\ (\E i \in Checks : CheckDailyCosts(i)) => MonitorInv'
<1> SUFFICES ASSUME MonitorInv, NEW i \in Checks, CheckDailyCosts(i) PROVE MonitorInv'
  OBVIOUS
<1>1. DayOf(tick) \in Days /\ tick' = tick
  BY DaysGoOn DEF MonitorInv, MonitorTypes, CheckDailyCosts
<1>2. /\ monitor'[i].phase = "asked" /\ monitor'[i].day = DayOf(tick)
      /\ DOMAIN monitor'[i] = {"phase", "day", "cost"} /\ monitor'[i] # NoCheck
      /\ \A j \in Checks \ {i} : monitor'[j] = monitor[j]
      /\ DOMAIN monitor' = Checks /\ monitor' = [j \in Checks |-> monitor'[j]]
  BY DEF MonitorInv, MonitorTypes, CheckDailyCosts, NoCheck
<1>3. MonitorTypes'
  BY <1>1, <1>2 DEF MonitorInv, MonitorTypes, CheckDailyCosts, AtWork, Days, Phases
<1>4. NotedWereRaised' /\ RaisedWereReached'
  BY <1>2 DEF MonitorInv, NotedWereRaised, RaisedWereReached, CheckDailyCosts, Reached, Alarms
<1>5. OneAtATime'
  <2> SUFFICES ASSUME ~crossed' PROVE OneAtATime'
    BY DEF OneAtATime
  <2>1. ~crossed /\ (\A j \in Checks : ~AtWork(j)) /\ UNCHANGED <<lastDates, raised>>
    BY DEF CheckDailyCosts, AtWork
  <2>2. \A j \in Checks : AtWork(j)' => j = i
    BY <1>2, <2>1 DEF AtWork
  <2>3. \A j \in Checks : monitor[j].phase \notin Alarms
    BY <2>1 DEF MonitorInv, MonitorTypes, Alarms
  <2>4. \A j \in Checks, s \in Alarms : AtWork(j)' => lastDates'[s] <= monitor'[j].day
    BY <1>2, <2>1, <2>2 DEF MonitorInv, MonitorTypes
  <2>5. \A d \in Days, s \in Alarms : raised'[d][s] >= 1 => d <= lastDates'[s]
    BY <2>1, <2>3 DEF MonitorInv, OneAtATime
  <2> QED
    BY <2>1, <2>2, <2>4, <2>5 DEF MonitorInv, OneAtATime
<1> QED
  BY <1>3, <1>4, <1>5 DEF MonitorInv

LEMMA KeptByRead == MonitorInv /\ (\E i \in Checks : ReadCost(i)) => MonitorInv'
<1> SUFFICES ASSUME MonitorInv, NEW i \in Checks, ReadCost(i) PROVE MonitorInv'
  OBVIOUS
<1>1. /\ monitor'[i].phase = "read" /\ monitor'[i].day = monitor[i].day
      /\ DOMAIN monitor'[i] = {"phase", "day", "cost"}
      /\ \A j \in Checks \ {i} : monitor'[j] = monitor[j]
      /\ DOMAIN monitor' = Checks /\ monitor' = [j \in Checks |-> monitor'[j]]
  <2>1. PICK c : monitor' = [monitor EXCEPT ![i] =
                    [monitor[i] EXCEPT !.phase = "read", !.cost = c]]
    BY DEF ReadCost
  <2>2. monitor'[i] = [monitor[i] EXCEPT !.phase = "read", !.cost = c]
    BY <2>1 DEF MonitorInv, MonitorTypes
  <2>3. DOMAIN monitor[i] = {"phase", "day", "cost"}
    BY DEF MonitorInv, MonitorTypes
  <2>4. /\ monitor'[i].phase = "read" /\ monitor'[i].day = monitor[i].day
        /\ DOMAIN monitor'[i] = {"phase", "day", "cost"}
    BY <2>2, <2>3
  <2> QED
    BY <2>1, <2>4 DEF MonitorInv, MonitorTypes
<1>2. monitor[i].phase = "asked" /\ AtWork(i) /\ AtWork(i)'
  <2>1. monitor[i].phase = "asked" /\ NoCheck.phase = "none"
    BY DEF ReadCost, NoCheck
  <2> QED
    BY <1>1, <2>1 DEF AtWork
<1>3. MonitorTypes'
  BY <1>1, <1>2 DEF MonitorInv, MonitorTypes, ReadCost, AtWork, Phases
<1>4. NotedWereRaised' /\ RaisedWereReached'
  BY <1>1 DEF MonitorInv, NotedWereRaised, RaisedWereReached, ReadCost, Reached, Alarms
<1>5. OneAtATime'
  BY <1>1, <1>2 DEF MonitorInv, OneAtATime, ReadCost, AtWork, Alarms
<1> QED
  BY <1>3, <1>4, <1>5 DEF MonitorInv

LEMMA KeptByFailure == MonitorInv /\ (\E i \in Checks : ReadFails(i)) => MonitorInv'
<1> SUFFICES ASSUME MonitorInv, NEW i \in Checks, ReadFails(i) PROVE MonitorInv'
  OBVIOUS
<1>1. /\ monitor'[i] = NoCheck /\ \A j \in Checks \ {i} : monitor'[j] = monitor[j]
      /\ DOMAIN monitor' = Checks /\ monitor' = [j \in Checks |-> monitor'[j]]
  BY DEF MonitorInv, MonitorTypes, ReadFails
<1>2. /\ NoCheck.phase = "none" /\ DOMAIN NoCheck = {"phase", "day", "cost"} /\ "none" \in Phases
      /\ monitor[i].phase = "asked"
  BY DEF NoCheck, Phases, ReadFails
<1>3. MonitorTypes'
  BY <1>1, <1>2 DEF MonitorInv, MonitorTypes, ReadFails, AtWork
<1>4. NotedWereRaised' /\ RaisedWereReached'
  BY <1>1, <1>2 DEF MonitorInv, NotedWereRaised, RaisedWereReached, ReadFails, Reached, Alarms
<1>5. OneAtATime'
  BY <1>1, <1>2 DEF MonitorInv, OneAtATime, ReadFails, AtWork, Alarms
<1> QED
  BY <1>3, <1>4, <1>5 DEF MonitorInv

\* What Compare does once it has the answer of check i.
Raises(i, d, status) ==
    /\ status \in Alarms /\ lastDates[status] # d
    /\ raised' = [raised EXCEPT ![d][status] = @ + 1]
    /\ monitor'[i].phase = status /\ monitor'[i].day = d
    /\ DOMAIN monitor'[i] = {"phase", "day", "cost"}
StaysQuiet(i, d, status) ==
    /\ status \in Alarms => lastDates[status] = d
    /\ raised' = raised /\ monitor'[i] = NoCheck
Looked(i, d, status) ==
    /\ d \in Days /\ monitor[i].phase = "read" /\ AtWork(i) /\ monitor[i].day = d
    /\ \A e \in Days, s \in Alarms :
         Reached(e, s)' <=> Reached(e, s) \/ (e = d /\ s = status)
    /\ DOMAIN seen' = Days /\ seen' = [e \in Days |-> seen'[e]]
    /\ DOMAIN monitor' = Checks /\ monitor' = [j \in Checks |-> monitor'[j]]
    /\ \A j \in Checks \ {i} : monitor'[j] = monitor[j]
    /\ UNCHANGED <<tick, lastDates, crossed>>
    /\ Raises(i, d, status) \/ StaysQuiet(i, d, status)

LEMMA Compared ==
    ASSUME MonitorInv, NEW i \in Checks, Compare(i),
           NEW d, d = monitor[i].day, NEW status, status = CostStatus(monitor[i].cost)
    PROVE  Looked(i, d, status)
<1> DEFINE due == status # "ok" /\ lastDates[status] # d
<1>1. d \in Days /\ monitor[i].phase = "read" /\ AtWork(i)
  BY DEF Compare, MonitorInv, MonitorTypes
<1>2. status \in Alarms \cup {"ok"} /\ "ok" \notin Alarms
  BY Statuses DEF Alarms
<1>3. /\ seen' = [seen EXCEPT ![d] = seen[d] \cup {monitor[i].cost}]
      /\ raised' = IF due THEN [raised EXCEPT ![d][status] = @ + 1] ELSE raised
      /\ monitor' = [monitor EXCEPT ![i] =
                IF due THEN [monitor[i] EXCEPT !.phase = status] ELSE NoCheck]
      /\ UNCHANGED <<tick, lastDates, crossed>>
  BY DEF Compare
<1> HIDE DEF due
<1>4. DOMAIN seen' = Days /\ seen' = [e \in Days |-> seen'[e]]
  BY <1>3 DEF MonitorInv, MonitorTypes
<1>5. ASSUME NEW e \in Days, NEW s \in Alarms
      PROVE  Reached(e, s)' <=> Reached(e, s) \/ (e = d /\ s = status)
  <2>1. seen'[e] = IF e = d THEN seen[d] \cup {monitor[i].cost} ELSE seen[e]
    BY <1>1, <1>3 DEF MonitorInv, MonitorTypes
  <2> QED
    BY <2>1 DEF Reached
<1>6. /\ DOMAIN monitor' = Checks /\ monitor' = [j \in Checks |-> monitor'[j]]
      /\ \A j \in Checks \ {i} : monitor'[j] = monitor[j]
      /\ monitor'[i] = IF due THEN [monitor[i] EXCEPT !.phase = status] ELSE NoCheck
  BY <1>3 DEF MonitorInv, MonitorTypes
<1>7. CASE due
  <2>1. DOMAIN monitor[i] = {"phase", "day", "cost"}
    BY DEF MonitorInv, MonitorTypes
  <2>2. /\ monitor'[i].phase = status /\ monitor'[i].day = d
        /\ DOMAIN monitor'[i] = {"phase", "day", "cost"}
    BY <1>6, <1>7, <2>1
  <2>3. status \in Alarms /\ lastDates[status] # d
    BY <1>2, <1>7 DEF due
  <2> QED
    BY <1>1, <1>3, <1>4, <1>5, <1>6, <1>7, <2>2, <2>3 DEF Looked, Raises
<1>8. CASE ~due
  <2>1. status \in Alarms => lastDates[status] = d
    BY <1>2, <1>8 DEF due
  <2> QED
    BY <1>1, <1>3, <1>4, <1>5, <1>6, <1>8, <2>1 DEF Looked, StaysQuiet
<1> QED
  BY <1>7, <1>8

LEMMA KeptByCompare == MonitorInv /\ (\E i \in Checks : Compare(i)) => MonitorInv'
<1> SUFFICES ASSUME MonitorInv, NEW i \in Checks, Compare(i) PROVE MonitorInv'
  OBVIOUS
<1>0. PICK d, status : Looked(i, d, status)
  BY Compared
<1> DEFINE Due == Raises(i, d, status)
           Over == StaysQuiet(i, d, status)
<1>1. /\ d \in Days /\ monitor[i].phase = "read" /\ AtWork(i) /\ monitor[i].day = d
      /\ \A e \in Days, s \in Alarms :
           Reached(e, s)' <=> Reached(e, s) \/ (e = d /\ s = status)
      /\ DOMAIN seen' = Days /\ seen' = [e \in Days |-> seen'[e]]
      /\ DOMAIN monitor' = Checks /\ monitor' = [j \in Checks |-> monitor'[j]]
      /\ \A j \in Checks \ {i} : monitor'[j] = monitor[j]
      /\ UNCHANGED <<tick, lastDates, crossed>>
      /\ Due \/ Over
  BY <1>0 DEF Looked
<1>2. NoCheck.phase = "none" /\ DOMAIN NoCheck = {"phase", "day", "cost"} /\ "none" \in Phases
  BY DEF NoCheck, Phases
<1>3. Alarms \subseteq Phases /\ "read" \notin Alarms /\ "none" \notin Alarms
  BY DEF Alarms, Phases
<1>4. d # NoDay /\ d \in Int
  BY <1>1 DEF Days, NoDay
<1>5. raised \in [Days -> [Alarms -> Nat]] /\ lastDates \in [Alarms -> Days \cup {NoDay}]
  BY DEF MonitorInv, MonitorTypes
<1>6. CASE Due
  <2>1. /\ raised' \in [Days -> [Alarms -> Nat]]
        /\ \A e \in Days, s \in Alarms :
            raised'[e][s] = IF e = d /\ s = status THEN raised[e][s] + 1 ELSE raised[e][s]
    BY <1>1, <1>5, <1>6 DEF Raises
  <2>2. AtWork(i)'
    BY <1>2, <1>3, <1>6 DEF AtWork, Raises
  <2>3. MonitorTypes'
    BY <1>1, <1>3, <1>6, <2>1, <2>2 DEF MonitorInv, MonitorTypes, AtWork, Raises
  <2>4. NotedWereRaised'
    <3>1. ASSUME NEW s \in Alarms, lastDates'[s] # NoDay
          PROVE  raised'[lastDates'[s]][s] >= 1
      BY <1>1, <1>5, <2>1, <3>1 DEF MonitorInv, NotedWereRaised
    <3>2. ASSUME NEW j \in Checks, monitor'[j].phase \in Alarms
          PROVE  raised'[monitor'[j].day][monitor'[j].phase] >= 1
      <4>1. CASE j = i
        BY <1>1, <1>5, <1>6, <2>1, <4>1 DEF Raises
      <4>2. CASE j # i
        <5>1. monitor'[j] = monitor[j] /\ monitor[j].day \in Days /\ monitor[j].phase \in Alarms
          BY <1>1, <1>3, <3>2, <4>2 DEF MonitorInv, MonitorTypes
        <5>2. raised[monitor[j].day][monitor[j].phase] >= 1
          BY <5>1 DEF MonitorInv, NotedWereRaised
        <5>3. \A e \in Days, s \in Alarms : raised[e][s] >= 1 => raised'[e][s] >= 1
          BY <1>5, <2>1
        <5>4. raised'[monitor[j].day][monitor[j].phase] >= 1
          BY <5>1, <5>2, <5>3
        <5> QED
          BY <5>1, <5>4
      <4> QED
        BY <4>1, <4>2
    <3> QED
      BY <3>1, <3>2 DEF NotedWereRaised
  <2>5. RaisedWereReached'
    BY <1>1, <1>5, <2>1 DEF MonitorInv, RaisedWereReached
  <2>6. OneAtATime'
    <3> SUFFICES ASSUME ~crossed' PROVE OneAtATime'
      BY DEF OneAtATime
    <3>1. ~crossed /\ \A j \in Checks : AtWork(j) => j = i
      BY <1>1 DEF MonitorInv, OneAtATime
    <3>2. \A j \in Checks : AtWork(j)' => j = i
      BY <1>1, <3>1 DEF AtWork
    <3>3. \A j \in Checks : monitor[j].phase \notin Alarms
      BY <1>1, <1>3, <3>1 DEF MonitorInv, MonitorTypes
    <3>4. \A e \in Days, s \in Alarms : raised[e][s] >= 1 => e <= lastDates[s]
      BY <3>1, <3>3 DEF MonitorInv, OneAtATime
    <3>5. \A s \in Alarms : lastDates[s] <= d
      BY <1>1, <3>1 DEF MonitorInv, OneAtATime
    <3>6. raised[d][status] = 0
      <4>1. status \in Alarms /\ lastDates[status] # d
        BY <1>6 DEF Raises
      <4>2. lastDates[status] \in Int /\ raised[d][status] \in Nat
        BY <1>1, <1>5, <4>1 DEF NoDay, Days
      <4>3. lastDates[status] <= d /\ (raised[d][status] >= 1 => d <= lastDates[status])
        BY <1>1, <3>4, <3>5, <4>1
      <4> QED
        BY <1>4, <4>1, <4>2, <4>3
    <3>7. \A j \in Checks, s \in Alarms : AtWork(j)' => lastDates'[s] <= monitor'[j].day
      BY <1>1, <1>6, <3>2, <3>5 DEF Raises
    <3>8. ASSUME NEW e \in Days, NEW s \in Alarms, raised'[e][s] >= 1
          PROVE  e <= lastDates'[s] \/ \E j \in Checks : monitor'[j].phase = s /\ monitor'[j].day = e
      BY <1>1, <1>6, <2>1, <3>4, <3>8 DEF Raises
    <3>9. \A e \in Days, s \in Alarms : raised'[e][s] <= 1
      BY <1>5, <2>1, <3>1, <3>6 DEF MonitorInv, OneAtATime
    <3> QED
      BY <3>2, <3>7, <3>8, <3>9 DEF OneAtATime
  <2> QED
    BY <2>3, <2>4, <2>5, <2>6 DEF MonitorInv
<1>7. CASE Over
  <2>1. raised' = raised /\ lastDates' = lastDates /\ ~AtWork(i)'
    BY <1>1, <1>7 DEF AtWork, StaysQuiet
  <2>2. MonitorTypes'
    BY <1>1, <1>2, <1>7, <2>1 DEF MonitorInv, MonitorTypes, AtWork, StaysQuiet
  <2>3. NotedWereRaised'
    BY <1>1, <1>2, <1>3, <1>7, <2>1 DEF MonitorInv, NotedWereRaised, StaysQuiet
  <2>4. status \in Alarms => raised[d][status] >= 1
    BY <1>4, <1>7 DEF MonitorInv, NotedWereRaised, StaysQuiet
  <2>5. RaisedWereReached'
    BY <1>1, <2>1, <2>4 DEF MonitorInv, RaisedWereReached
  <2>6. OneAtATime'
    BY <1>1, <1>3, <2>1 DEF MonitorInv, OneAtATime, AtWork
  <2> QED
    BY <2>2, <2>3, <2>5, <2>6 DEF MonitorInv
<1> QED
  BY <1>1, <1>6, <1>7

LEMMA KeptByNote == MonitorInv /\ (\E i \in Checks : NoteDay(i)) => MonitorInv'
<1> SUFFICES ASSUME MonitorInv, NEW i \in Checks, NoteDay(i) PROVE MonitorInv'
  OBVIOUS
<1> DEFINE d == monitor[i].day
           status == monitor[i].phase
<1>1. /\ monitor'[i] = NoCheck /\ \A j \in Checks \ {i} : monitor'[j] = monitor[j]
      /\ DOMAIN monitor' = Checks /\ monitor' = [j \in Checks |-> monitor'[j]]
      /\ UNCHANGED <<tick, raised, seen, crossed>>
  BY DEF MonitorInv, MonitorTypes, NoteDay
<1>2. /\ NoCheck.phase = "none" /\ DOMAIN NoCheck = {"phase", "day", "cost"} /\ "none" \in Phases
      /\ "none" \notin Alarms
  BY DEF NoCheck, Phases, Alarms
<1>3. status \in Alarms /\ AtWork(i) /\ d \in Days /\ d <= DayOf(tick) /\ ~AtWork(i)'
  BY <1>1 DEF NoteDay, MonitorInv, MonitorTypes, Alarms, AtWork
<1>4. /\ lastDates' \in [Alarms -> Days \cup {NoDay}]
      /\ \A s \in Alarms : lastDates'[s] = IF s = status THEN d ELSE lastDates[s]
  BY <1>3 DEF NoteDay, MonitorInv, MonitorTypes
<1>5. raised[d][status] >= 1
  BY <1>3 DEF MonitorInv, NotedWereRaised
<1> HIDE DEF d, status
<1>6. MonitorTypes'
  <2>1. /\ tick' \in Ticks /\ raised' \in [Days -> [Alarms -> Nat]]
        /\ DOMAIN seen' = Days /\ seen' = [e \in Days |-> seen'[e]] /\ crossed' \in BOOLEAN
    BY <1>1 DEF MonitorInv, MonitorTypes
  <2>2. ASSUME NEW j \in Checks
        PROVE  /\ DOMAIN monitor'[j] = {"phase", "day", "cost"} /\ monitor'[j].phase \in Phases
               /\ AtWork(j)' => monitor'[j].day \in Days /\ monitor'[j].day <= DayOf(tick')
               /\ monitor'[j].phase = "none" <=> ~AtWork(j)'
    <3>1. CASE j = i
      BY <1>1, <1>2, <1>3, <3>1
    <3>2. CASE j # i
      <4>1. monitor'[j] = monitor[j] /\ tick' = tick /\ (AtWork(j)' <=> AtWork(j))
        BY <1>1, <3>2 DEF AtWork
      <4> QED
        BY <4>1 DEF MonitorInv, MonitorTypes
    <3> QED
      BY <3>1, <3>2
  <2>3. ASSUME NEW s \in Alarms PROVE lastDates'[s] <= DayOf(tick')
    BY <1>1, <1>3, <1>4 DEF MonitorInv, MonitorTypes
  <2> QED
    BY <1>1, <1>4, <2>1, <2>2, <2>3 DEF MonitorTypes
<1>7. NotedWereRaised'
  BY <1>1, <1>2, <1>4, <1>5 DEF MonitorInv, NotedWereRaised
<1>8. RaisedWereReached'
  BY <1>1 DEF MonitorInv, RaisedWereReached, Reached
<1>9. OneAtATime'
  <2> SUFFICES ASSUME ~crossed' PROVE OneAtATime'
    BY DEF OneAtATime
  <2>1. ~crossed /\ \A j \in Checks : AtWork(j) => j = i
    BY <1>1, <1>3 DEF MonitorInv, OneAtATime
  <2>2. \A j \in Checks : ~AtWork(j)'
    BY <1>1, <1>3, <2>1 DEF AtWork
  <2>3. \A s \in Alarms : lastDates[s] <= lastDates'[s]
    <3>1. \A s \in Alarms : lastDates[s] <= d
      BY <1>3, <2>1 DEF MonitorInv, OneAtATime, d
    <3>2. \A s \in Alarms : lastDates[s] \in Int
      BY DEF MonitorInv, MonitorTypes, Days, NoDay
    <3> QED
      BY <1>4, <3>1, <3>2
  <2>4. ASSUME NEW e \in Days, NEW s \in Alarms, raised'[e][s] >= 1
        PROVE  e <= lastDates'[s]
    <3>1. e <= lastDates[s] \/ (s = status /\ e = d)
      <4>1. \A j \in Checks : monitor[j].phase = s => AtWork(j)
        BY <1>2 DEF MonitorInv, MonitorTypes
      <4> QED
        BY <1>1, <2>1, <2>4, <4>1 DEF MonitorInv, OneAtATime, d, status
    <3>2. e \in Int /\ lastDates[s] \in Int /\ lastDates'[s] \in Int
      BY <1>4 DEF MonitorInv, MonitorTypes, Days, NoDay
    <3> QED
      BY <1>4, <2>3, <3>1, <3>2
  <2>5. \A e \in Days, s \in Alarms : raised'[e][s] <= 1
    BY <1>1, <2>1 DEF MonitorInv, OneAtATime
  <2> QED
    BY <2>2, <2>4, <2>5 DEF OneAtATime
<1> QED
  BY <1>6, <1>7, <1>8, <1>9 DEF MonitorInv

\* For every assignment of thresholds and any number of overlapping checks:
\* a day gets one alert, or one warning, exactly when a check read a cost that
\* calls for it, and two only after checks overlapped.
THEOREM AlertsOnce == MonitorSpec => []OneAlertPerCostlyDay
<1>1. MonitorInv /\ [MonitorNext]_monitorVars => MonitorInv'
  <2> SUFFICES ASSUME MonitorInv, [MonitorNext]_monitorVars PROVE MonitorInv'
    OBVIOUS
  <2>1. CASE UNCHANGED monitorVars
    BY <2>1 DEF monitorVars, MonitorInv, MonitorTypes, NotedWereRaised, RaisedWereReached,
                OneAtATime, Reached, AtWork
  <2> QED
    BY <2>1, KeptByTime, KeptByCosts, KeptByStart, KeptByRead, KeptByFailure, KeptByCompare,
       KeptByNote DEF MonitorNext
<1>2. MonitorInv => OneAlertPerCostlyDay
  <2> SUFFICES ASSUME MonitorInv, NEW d \in Days, NEW s \in Alarms
               PROVE  IF Reached(d, s)
                      THEN raised[d][s] = 1 \/ (raised[d][s] > 1 /\ crossed)
                      ELSE raised[d][s] = 0
    BY DEF OneAlertPerCostlyDay, Alarms, Reached
  <2>1. raised[d][s] \in Nat /\ crossed \in BOOLEAN
    BY DEF MonitorInv, MonitorTypes
  <2>2. Reached(d, s) <=> raised[d][s] >= 1
    BY DEF MonitorInv, RaisedWereReached
  <2>3. ~crossed => raised[d][s] <= 1
    BY DEF MonitorInv, OneAtATime
  <2> QED
    BY <2>1, <2>2, <2>3
<1> QED
  BY MonitorStarts, <1>1, <1>2, PTL DEF MonitorSpec

-----------------------------------------------------------------------------
(* The dashboard.                                                          *)

\* A sum of numbers of at most d each.
LEMMA SumIsBounded ==
    ASSUME NEW f, NEW S, IsFiniteSet(S), NEW d \in Nat,
           \A x \in S : f[x] \in Nat /\ f[x] <= d
    PROVE  /\ SumFunctionOnSet(f, S) \in Nat
           /\ SumFunctionOnSet(f, S) <= Cardinality(S) * d
<1> DEFINE Sum(s) == SumFunctionOnSet(f, s)
           G == {s \in SUBSET S : Sum(s) \in Nat /\ Sum(s) <= Cardinality(s) * d}
<1>1. ASSUME NEW s \in SUBSET S, \A x \in s : s \ {x} \in G PROVE s \in G
  <2>1. CASE s = {}
    <3>1. Sum(s) = 0
      BY <2>1, SumOfNone
    <3>2. Cardinality(s) = 0
      BY <2>1, FS_EmptySet
    <3> HIDE DEF Sum
    <3> QED
      BY <3>1, <3>2
  <2>2. CASE s # {}
    <3>1. PICK x : x \in s
      BY <2>2
    <3> DEFINE r == s \ {x}
    <3>2. IsFiniteSet(s) /\ \A y \in s : f[y] \in Int
      BY FS_Subset
    <3>3. Sum(s) = f[x] + Sum(r)
      BY <3>1, <3>2, SumRemoves
    <3>4. Cardinality(s) = Cardinality(r) + 1 /\ Cardinality(r) \in Nat
      <4>1. IsFiniteSet(r) /\ Cardinality(r) = Cardinality(s) - 1
        BY <3>1, <3>2, FS_RemoveElement
      <4>2. Cardinality(r) \in Nat /\ Cardinality(s) \in Nat
        BY <3>2, <4>1, FS_CardinalityType
      <4> QED
        BY <4>1, <4>2
    <3>5. Sum(r) \in Nat /\ Sum(r) <= Cardinality(r) * d
      BY <1>1, <3>1
    <3>6. f[x] \in Nat /\ f[x] <= d
      BY <3>1
    <3> HIDE DEF Sum, r
    <3>7. (Cardinality(r) + 1) * d = Cardinality(r) * d + d /\ Cardinality(r) * d \in Int
      BY <3>4
    <3>8. Sum(s) \in Nat /\ Sum(s) <= Cardinality(s) * d
      BY <3>3, <3>4, <3>5, <3>6, <3>7
    <3> QED
      BY <3>8
  <2> QED
    BY <2>1, <2>2
<1>2. \A s \in SUBSET S : s \in G
  <2> HIDE DEF G
  <2> QED
    BY <1>1, Removing
<1>3. S \in G
  BY <1>2
<1> QED
  BY <1>3

\* The members of a set with the same key, for each key.
ClassesOf(key, S) == {{j \in S : key[j] = key[i]} : i \in S}

\* The sums over the classes add up to the sum over the set.
LEMMA SumOfClasses ==
    ASSUME NEW f, NEW S, IsFiniteSet(S), NEW key, \A x \in S : f[x] \in Int,
           NEW g, \A C \in ClassesOf(key, S) : g[C] = SumFunctionOnSet(f, C)
    PROVE  SumFunctionOnSet(g, ClassesOf(key, S)) = SumFunctionOnSet(f, S)
<1> DEFINE classes == ClassesOf(key, S)
           G == {P \in SUBSET classes :
                    SumFunctionOnSet(g, P) = SumFunctionOnSet(f, UNION P)}
<1>1. /\ classes \in SUBSET (SUBSET S)
      /\ UNION classes = S
      /\ \A C \in classes, D \in classes : C # D => C \cap D = {}
  <2>1. classes \in SUBSET (SUBSET S)
    BY DEF ClassesOf
  <2>2. UNION classes = S
    BY DEF ClassesOf
  <2>3. ASSUME NEW C \in classes, NEW D \in classes, C \cap D # {} PROVE C = D
    <3>1. PICK a \in S : C = {j \in S : key[j] = key[a]}
      BY DEF ClassesOf
    <3>2. PICK b \in S : D = {j \in S : key[j] = key[b]}
      BY DEF ClassesOf
    <3>3. key[a] = key[b]
      BY <2>3, <3>1, <3>2
    <3> QED
      BY <3>1, <3>2, <3>3
  <2> QED
    BY <2>1, <2>2, <2>3
<1>2. IsFiniteSet(classes)
  <2>1. IsFiniteSet(SUBSET S)
    BY FS_SUBSET
  <2> QED
    BY <1>1, <2>1, FS_Subset
<1>3. ASSUME NEW T \in SUBSET S
      PROVE  /\ IsFiniteSet(T) /\ \A x \in T : f[x] \in Int
             /\ SumFunctionOnSet(f, T) \in Int
  <2>1. IsFiniteSet(T) /\ \A x \in T : f[x] \in Int
    BY FS_Subset
  <2> QED
    BY <2>1, SumRemoves
<1>4. \A C \in classes : g[C] \in Int /\ g[C] = SumFunctionOnSet(f, C)
  BY <1>1, <1>3
<1> HIDE DEF classes
<1>5. ASSUME NEW P \in SUBSET classes, \A C \in P : P \ {C} \in G PROVE P \in G
  <2>1. CASE P = {}
    <3>1. UNION P = {}
      BY <2>1
    <3> QED
      BY <2>1, <3>1, SumOfNone
  <2>2. CASE P # {}
    <3>1. PICK C : C \in P
      BY <2>2
    <3> DEFINE rest == P \ {C}
               others == UNION rest
    <3>2. IsFiniteSet(P) /\ \A D \in P : g[D] \in Int
      BY <1>2, <1>4, FS_Subset
    <3>3. SumFunctionOnSet(g, P) = g[C] + SumFunctionOnSet(g, rest)
      BY <3>1, <3>2, SumRemoves
    <3>4. SumFunctionOnSet(g, rest) = SumFunctionOnSet(f, others)
      BY <1>5, <3>1
    <3>5. g[C] = SumFunctionOnSet(f, C)
      BY <1>4, <3>1
    <3>6. UNION P = C \cup others /\ C \cap others = {}
      BY <1>1, <3>1
    <3>7. C \in SUBSET S /\ others \in SUBSET S
      BY <1>1, <3>1
    <3> HIDE DEF rest, others
    <3>8. /\ IsFiniteSet(C) /\ IsFiniteSet(others)
          /\ \A y \in C \cup others : f[y] \in Int
      BY <1>3, <3>7
    <3>9. SumFunctionOnSet(f, C \cup others)
            = SumFunctionOnSet(f, C) + SumFunctionOnSet(f, others)
      BY <3>6, <3>8, SumOfBoth
    <3> QED
      BY <3>3, <3>4, <3>5, <3>6, <3>9
  <2> QED
    BY <2>1, <2>2
<1>6. \A P \in SUBSET classes : P \in G
  <2> HIDE DEF G
  <2> QED
    BY <1>2, <1>5, Removing
<1>7. classes \in G
  BY <1>6
<1> QED
  BY <1>1, <1>7 DEF classes

Dearest == CHOOSE c \in RowCosts : \A d \in RowCosts : d <= c

LEMMA DearestIsMost == Dearest \in Nat /\ \A c \in RowCosts : c <= Dearest
  BY AnalyticsAssumption DEF Dearest

Rows == [user : RowUsers, model : BOOLEAN, success : BOOLEAN, cost : Nat, at : Nat]

AnalyticsTypes ==
  /\ hour \in Nat
  /\ interactions \in Seq(Rows)
  /\ \A i \in DOMAIN interactions :
       /\ interactions[i].at <= hour
       /\ interactions[i].cost <= Dearest
       /\ ~interactions[i].model => interactions[i].cost = 0
  /\ dashboard = [open |-> dashboard.open, start |-> dashboard.start, end |-> dashboard.end,
                  during |-> dashboard.during, read |-> dashboard.read]
  /\ dashboard.read = [report \in Reports |-> dashboard.read[report]]
  /\ dashboard.open \in BOOLEAN /\ dashboard.during \in Nat
  /\ dashboard.start \in Int /\ dashboard.end \in Int

\* The rows of the period that were there when the dashboard was opened, and
\* those that were stored since.
Before == {i \in 1 .. Len(interactions) - dashboard.during :
             interactions[i].at >= dashboard.start}
Since == Len(interactions) - dashboard.during + 1 .. Len(interactions)

\* Each report read so far is about all the rows before, and some of those since.
ReportIsSound(report) ==
  LET value == dashboard.read[report]
  IN  CASE report = "total" -> value \in Int /\ value >= Cardinality(Before)
        [] report = "successful" ->
             value \in Int /\ value <= Cardinality(Before) + dashboard.during
        [] OTHER -> value \in CostOfRows(Before)
                                .. CostOfRows(Before) + dashboard.during * Dearest

ReportsAreSound ==
  \A report \in Reports :
    dashboard.read[report] # Unread /\ (report = "topUsers" => Cardinality(RowUsers) <= TopUsers)
      => ReportIsSound(report)

OpenedInTime ==
  dashboard.open =>
    /\ dashboard.during <= Len(interactions)
    /\ \A i \in 1 .. Len(interactions) - dashboard.during : interactions[i].at <= dashboard.end

AnalyticsInv ==
  /\ AnalyticsTypes /\ OpenedInTime /\ ReportsAreSound
  /\ ~dashboard.open => \A report \in Reports : dashboard.read[report] = Unread

LEMMA AnalyticsStarts == AnalyticsInit => AnalyticsInv
  BY DEF AnalyticsInit, AnalyticsInv, AnalyticsTypes, NoDashboard, OpenedInTime,
         ReportsAreSound, Unread, Reports

LEMMA RowTypes ==
    ASSUME AnalyticsTypes
    PROVE  /\ Len(interactions) \in Nat /\ DOMAIN interactions = 1 .. Len(interactions)
           /\ \A i \in DOMAIN interactions :
                /\ interactions[i] \in Rows
                /\ interactions[i].at \in Nat /\ interactions[i].user \in RowUsers
                /\ interactions[i].cost \in Nat
<1>1. interactions \in Seq(Rows)
  BY DEF AnalyticsTypes
<1>2. Len(interactions) \in Nat /\ DOMAIN interactions = 1 .. Len(interactions)
  BY <1>1
<1>3. \A i \in DOMAIN interactions : interactions[i] \in Rows
  BY <1>1
<1> QED
  BY <1>2, <1>3 DEF Rows

\* The rows of the table have natural costs and are finitely many.
LEMMA CostsOfRows ==
    ASSUME AnalyticsTypes, NEW ids \in SUBSET DOMAIN interactions
    PROVE  /\ IsFiniteSet(ids)
           /\ \A i \in ids : Costs[i] \in Nat /\ Costs[i] <= Dearest
                               /\ Costs[i] = interactions[i].cost
           /\ CostOfRows(ids) \in Nat
           /\ CostOfRows(ids) <= Cardinality(ids) * Dearest
           /\ Cardinality(ids) \in Nat
<1>1. DOMAIN interactions = 1 .. Len(interactions) /\ Len(interactions) \in Nat
  BY DEF AnalyticsTypes
<1>2. IsFiniteSet(ids)
  <2>1. IsFiniteSet(DOMAIN interactions)
    BY <1>1, FS_Interval
  <2> QED
    BY <2>1, FS_Subset
<1>3. \A i \in ids : Costs[i] \in Nat /\ Costs[i] <= Dearest /\ Costs[i] = interactions[i].cost
  <2> SUFFICES ASSUME NEW i \in ids
               PROVE  Costs[i] \in Nat /\ Costs[i] <= Dearest /\ Costs[i] = interactions[i].cost
    OBVIOUS
  <2>1. i \in DOMAIN interactions /\ interactions[i] \in Rows
    BY <1>1 DEF AnalyticsTypes
  <2>2. Costs[i] = interactions[i].cost
    BY <2>1 DEF Costs
  <2> QED
    BY <2>1, <2>2 DEF AnalyticsTypes, Rows
<1>4. CostOfRows(ids) \in Nat /\ CostOfRows(ids) <= Cardinality(ids) * Dearest
  BY <1>2, <1>3, DearestIsMost, SumIsBounded DEF CostOfRows
<1> QED
  BY <1>2, <1>3, <1>4, FS_CardinalityType

\* What is about all the rows before and some of those since costs no less than
\* the former and little more.
LEMMA CostBetween ==
    ASSUME AnalyticsTypes, dashboard.during <= Len(interactions),
           NEW ids, Before \subseteq ids, ids \subseteq Before \cup Since
    PROVE  /\ CostOfRows(ids) \in CostOfRows(Before)
                                    .. CostOfRows(Before) + dashboard.during * Dearest
           /\ Cardinality(Before) <= Cardinality(ids)
           /\ Cardinality(ids) <= Cardinality(Before) + dashboard.during
<1> DEFINE n == Len(interactions)
           m == dashboard.during
           new == ids \ Before
<1>1. DOMAIN interactions = 1 .. n /\ n \in Nat /\ m \in Nat /\ m <= n
  BY DEF AnalyticsTypes
<1>2. /\ Before \in SUBSET DOMAIN interactions /\ Since \in SUBSET DOMAIN interactions
      /\ ids \in SUBSET DOMAIN interactions /\ new \in SUBSET Since
      /\ new \in SUBSET DOMAIN interactions
  <2>1. Before \subseteq 1 .. n /\ Since \subseteq 1 .. n
    <3> HIDE DEF n, m
    <3>1. 1 .. n - m \subseteq 1 .. n /\ n - m + 1 .. n \subseteq 1 .. n
      BY <1>1
    <3> QED
      BY <3>1 DEF Before, Since, n, m
  <2> QED
    BY <1>1, <2>1
<1>3. IsFiniteSet(Since) /\ Cardinality(Since) = m
  <2> HIDE DEF n, m
  <2>1. IsFiniteSet(n - m + 1 .. n)
        /\ Cardinality(n - m + 1 .. n) = IF n - m + 1 > n THEN 0 ELSE n - (n - m + 1) + 1
    BY <1>1, FS_Interval
  <2>2. Cardinality(n - m + 1 .. n) = m
    BY <1>1, <2>1
  <2> QED
    BY <2>1, <2>2 DEF Since, n, m
<1>4. /\ IsFiniteSet(Before) /\ IsFiniteSet(new) /\ IsFiniteSet(ids)
      /\ CostOfRows(Before) \in Nat /\ CostOfRows(new) \in Nat
      /\ CostOfRows(new) <= Cardinality(new) * Dearest
      /\ Cardinality(Before) \in Nat /\ Cardinality(new) \in Nat /\ Cardinality(ids) \in Nat
  BY <1>2, CostsOfRows
<1>5. Cardinality(new) <= m
  BY <1>2, <1>3, FS_Subset
<1>6. ids = Before \cup new /\ Before \cap new = {}
  OBVIOUS
<1>7. CostOfRows(ids) = CostOfRows(Before) + CostOfRows(new)
  <2>1. \A i \in Before \cup new : Costs[i] \in Int
    <3>1. \A i \in DOMAIN interactions : Costs[i] \in Nat
      BY CostsOfRows
    <3> QED
      BY <1>2, <3>1
  <2> HIDE DEF new
  <2>2. SumFunctionOnSet(Costs, Before \cup new)
          = SumFunctionOnSet(Costs, Before) + SumFunctionOnSet(Costs, new)
    BY <1>4, <1>6, <2>1, SumOfBoth
  <2> QED
    BY <1>6, <2>2 DEF CostOfRows
<1>8. Cardinality(ids) = Cardinality(Before) + Cardinality(new)
  <2> HIDE DEF new
  <2>1. Cardinality(Before \cup new)
          = Cardinality(Before) + Cardinality(new) - Cardinality(Before \cap new)
    BY <1>4, FS_Union
  <2>2. Cardinality(Before \cap new) = 0
    BY <1>6, FS_EmptySet
  <2> QED
    BY <1>4, <1>6, <2>1, <2>2
<1>9. CostOfRows(new) <= m * Dearest
  <2> DEFINE c == Cardinality(new)
  <2>1. c \in Nat /\ c <= m /\ m \in Nat /\ Dearest \in Nat
    BY <1>1, <1>4, <1>5, DearestIsMost
  <2>2. CostOfRows(new) <= c * Dearest /\ CostOfRows(new) \in Nat
    BY <1>4
  <2> HIDE DEF c, m
  <2>3. c * Dearest <= m * Dearest
    <3>1. (m - c) * Dearest >= 0
      BY <2>1
    <3> QED
      BY <2>1, <3>1
  <2>4. c * Dearest \in Int /\ m * Dearest \in Int
    BY <2>1
  <2> QED
    BY <2>2, <2>3, <2>4
<1>10. m * Dearest \in Int
  BY <1>1, DearestIsMost
<1> HIDE DEF n, new
<1>11. /\ CostOfRows(ids) \in Int
       /\ CostOfRows(Before) <= CostOfRows(ids)
       /\ CostOfRows(ids) <= CostOfRows(Before) + m * Dearest
  <2> HIDE DEF m
  <2> QED
    BY <1>4, <1>7, <1>9, <1>10
<1>12. Cardinality(Before) <= Cardinality(ids) /\ Cardinality(ids) <= Cardinality(Before) + m
  <2> HIDE DEF m
  <2> QED
    BY <1>1, <1>4, <1>5, <1>8
<1> QED
  BY <1>1, <1>4, <1>10, <1>11, <1>12

\* The groups of some rows add up to these rows.
LEMMA GroupsAddUp ==
    ASSUME AnalyticsTypes, NEW ids \in SUBSET DOMAIN interactions, NEW key
    PROVE  SumOfGroups(ClassesOf(key, ids)) = CostOfRows(ids)
<1> DEFINE groups == ClassesOf(key, ids)
           g == [group \in groups |-> CostOfRows(group)]
<1>1. IsFiniteSet(ids) /\ \A i \in ids : Costs[i] \in Int
  BY CostsOfRows
<1>2. \A C \in groups : g[C] = SumFunctionOnSet(Costs, C)
  BY DEF CostOfRows
<1> HIDE DEF g
<1>3. SumFunctionOnSet(g, ClassesOf(key, ids)) = SumFunctionOnSet(Costs, ids)
  BY <1>1, <1>2, SumOfClasses
<1> QED
  BY <1>3 DEF SumOfGroups, CostOfRows, g

LEMMA HourKeeps == AnalyticsInv /\ HourPasses => AnalyticsInv'
<1> SUFFICES ASSUME AnalyticsInv, HourPasses PROVE AnalyticsInv'
  OBVIOUS
<1>1. hour' = hour + 1 /\ interactions' = interactions /\ dashboard' = dashboard
  BY DEF HourPasses
<1>2. AnalyticsTypes'
  <2>1. \A i \in DOMAIN interactions : interactions[i].at \in Nat
    BY RowTypes DEF AnalyticsInv
  <2>2. hour \in Nat /\ \A i \in DOMAIN interactions : interactions[i].at <= hour
    BY DEF AnalyticsInv, AnalyticsTypes
  <2>3. hour' \in Nat /\ \A i \in DOMAIN interactions : interactions[i].at <= hour'
    BY <1>1, <2>1, <2>2
  <2> QED
    BY <1>1, <2>3 DEF AnalyticsInv, AnalyticsTypes
<1>3. ReportsAreSound' /\ OpenedInTime'
  BY <1>1 DEF AnalyticsInv, ReportsAreSound, ReportIsSound, OpenedInTime, Before,
              CostOfRows, Costs
<1> QED
  BY <1>1, <1>2, <1>3 DEF AnalyticsInv

\* A row stored while the dashboard is open is one of those since: what the reports
\* read so far are about stays, and the margin grows.
LEMMA StoringRowKeeps ==
    ASSUME AnalyticsInv, NEW u \in RowUsers, NEW c \in RowCosts, NEW ok \in BOOLEAN,
           StoreRow(u, c, ok)
    PROVE  AnalyticsInv'
<1> DEFINE row == [user |-> u, model |-> ok, success |-> ok,
                   cost |-> IF ok THEN c ELSE 0, at |-> hour]
           n == Len(interactions)
<1>1. /\ interactions \in Seq(Rows) /\ n \in Nat /\ hour \in Nat
      /\ DOMAIN interactions = 1 .. n
      /\ dashboard.open \in BOOLEAN /\ dashboard.during \in Nat
  BY DEF AnalyticsInv, AnalyticsTypes
<1>2. interactions' = Append(interactions, row) /\ hour' = hour
  BY DEF StoreRow
<1>3. /\ row \in Rows /\ row.at = hour /\ row.cost <= Dearest
      /\ ~row.model => row.cost = 0
  <2>1. c \in Nat /\ c <= Dearest /\ Dearest \in Nat
    BY AnalyticsAssumption, DearestIsMost
  <2> QED
    BY <1>1, <2>1 DEF Rows
<1> HIDE DEF row
<1>4. /\ interactions' \in Seq(Rows) /\ Len(interactions') = n + 1
      /\ DOMAIN interactions' = 1 .. n + 1
      /\ interactions'[n + 1] = row
      /\ \A i \in 1 .. n : interactions'[i] = interactions[i]
  BY <1>1, <1>2, <1>3
<1>5. /\ dashboard'.open = dashboard.open
      /\ dashboard'.during = IF dashboard.open THEN dashboard.during + 1 ELSE dashboard.during
      /\ dashboard'.start = dashboard.start /\ dashboard'.end = dashboard.end
      /\ dashboard'.read = dashboard.read
      /\ dashboard' = [open |-> dashboard'.open, start |-> dashboard'.start,
                       end |-> dashboard'.end, during |-> dashboard'.during,
                       read |-> dashboard'.read]
  BY DEF StoreRow, AnalyticsInv, AnalyticsTypes
<1> HIDE DEF n
<1>6. AnalyticsTypes'
  <2>1. ASSUME NEW i \in 1 .. n + 1
        PROVE  /\ interactions'[i].at <= hour /\ interactions'[i].cost <= Dearest
               /\ ~interactions'[i].model => interactions'[i].cost = 0
    <3>1. CASE i = n + 1
      BY <1>1, <1>3, <1>4, <3>1
    <3>2. CASE i \in 1 .. n
      BY <1>1, <1>4, <3>2 DEF AnalyticsInv, AnalyticsTypes
    <3> QED
      BY <1>1, <3>1, <3>2
  <2>2. /\ dashboard'.read = [report \in Reports |-> dashboard'.read[report]]
        /\ dashboard'.open \in BOOLEAN /\ dashboard'.during \in Nat
        /\ dashboard'.start \in Int /\ dashboard'.end \in Int
    BY <1>5 DEF AnalyticsInv, AnalyticsTypes
  <2> QED
    BY <1>1, <1>2, <1>4, <1>5, <2>1, <2>2 DEF AnalyticsTypes
<1>7. CASE dashboard.open
  <2> DEFINE m == dashboard.during
             X == CostOfRows(Before)
  <2>1. m \in Nat /\ m <= n /\ dashboard'.during = m + 1
    BY <1>1, <1>5, <1>7 DEF AnalyticsInv, OpenedInTime, n
  <2> HIDE DEF m
  <2>2. (n + 1) - (m + 1) = n - m /\ n - m \in Nat /\ 1 .. n - m \subseteq 1 .. n
    BY <1>1, <2>1
  <2>3. 1 .. Len(interactions') - dashboard'.during = 1 .. n - m
    BY <1>4, <2>1, <2>2
  <2>4. Before' = Before
    BY <1>4, <1>5, <2>2, <2>3 DEF Before, n, m
  <2>5. Before \in SUBSET (1 .. n) /\ Before \in SUBSET DOMAIN interactions
    BY <1>1, <2>2 DEF Before, n, m
  <2>6. CostOfRows(Before)' = X
    <3>1. IsFiniteSet(Before)
      BY <2>5, CostsOfRows DEF AnalyticsInv
    <3>2. \A i \in Before : Costs'[i] = Costs[i]
      <4>1. \A i \in 1 .. n : i \in DOMAIN interactions /\ i \in DOMAIN interactions'
        BY <1>1, <1>4
      <4> QED
        BY <1>4, <2>5, <4>1 DEF Costs
    <3>3. SumFunctionOnSet(Costs', Before) = SumFunctionOnSet(Costs, Before)
      BY <3>1, <3>2, SumSame
    <3> QED
      BY <2>4, <3>3 DEF CostOfRows
  <2>7. X \in Nat /\ Cardinality(Before) \in Nat
    BY <2>5, CostsOfRows DEF AnalyticsInv
  <2> HIDE DEF X
  <2>8. OpenedInTime'
    <3>1. ASSUME NEW i \in 1 .. n - m PROVE interactions'[i].at <= dashboard.end
      BY <1>4, <1>7, <2>2 DEF AnalyticsInv, OpenedInTime, n, m
    <3> QED
      <4>1. dashboard'.during <= Len(interactions')
        BY <1>1, <1>4, <2>1
      <4>2. \A i \in 1 .. Len(interactions') - dashboard'.during :
              interactions'[i].at <= dashboard'.end
        BY <1>5, <2>3, <3>1
      <4> QED
        BY <4>1, <4>2 DEF OpenedInTime
  <2>9. ASSUME NEW report \in Reports, ReportIsSound(report) PROVE ReportIsSound(report)'
    <3> DEFINE v == dashboard.read[report]
               D == Dearest
    <3>1. dashboard'.read[report] = v
      BY <1>5
    <3>2. CASE report = "total"
      BY <2>4, <2>9, <3>1, <3>2 DEF ReportIsSound
    <3>3. CASE report = "successful"
      <4>1. v \in Int /\ v <= Cardinality(Before) + m
        BY <2>9, <3>3 DEF ReportIsSound, m
      <4> HIDE DEF v
      <4>2. v <= Cardinality(Before) + (m + 1)
        BY <2>1, <2>7, <4>1
      <4>3. Cardinality(Before)' = Cardinality(Before)
        BY <2>4
      <4>4. /\ dashboard'.read[report] \in Int
            /\ dashboard'.read[report] <= Cardinality(Before)' + dashboard'.during
        BY <2>1, <3>1, <4>1, <4>2, <4>3
      <4> QED
        BY <3>3, <4>4 DEF ReportIsSound
    <3>4. CASE report \notin {"total", "successful"}
      <4>1. v \in X .. X + m * D
        BY <2>9, <3>4 DEF ReportIsSound, X, m
      <4>2. X .. X + m * D \subseteq X .. X + (m + 1) * D
        <5>1. D \in Nat
          BY DearestIsMost
        <5> HIDE DEF D
        <5>2. (m + 1) * D = m * D + D /\ m * D \in Int
          BY <2>1, <5>1
        <5> QED
          BY <2>7, <5>1, <5>2
      <4>3. v \in X .. X + (m + 1) * D
        BY <4>1, <4>2
      <4>4. Dearest' = Dearest
        BY DEF Dearest
      <4> QED
        BY <2>1, <2>6, <3>1, <3>4, <4>3, <4>4 DEF ReportIsSound
    <3> QED
      BY <3>2, <3>3, <3>4
  <2>10. ReportsAreSound'
    BY <1>5, <2>9 DEF AnalyticsInv, ReportsAreSound
  <2> QED
    BY <1>5, <1>6, <1>7, <2>8, <2>10 DEF AnalyticsInv
<1>8. CASE ~dashboard.open
  <2>1. \A report \in Reports : dashboard'.read[report] = Unread
    BY <1>5, <1>8 DEF AnalyticsInv
  <2> QED
    BY <1>5, <1>6, <1>8, <2>1 DEF AnalyticsInv, OpenedInTime, ReportsAreSound
<1> QED
  BY <1>1, <1>7, <1>8

LEMMA OpeningKeeps == AnalyticsInv /\ OpenDashboard => AnalyticsInv'
<1> SUFFICES ASSUME AnalyticsInv, OpenDashboard PROVE AnalyticsInv'
  OBVIOUS
<1>1. dashboard' = [open |-> TRUE, start |-> hour - DashboardSpan, end |-> hour,
                    during |-> 0, read |-> [report \in Reports |-> Unread]]
  BY DEF OpenDashboard, NoDashboard
<1>2. hour' = hour /\ interactions' = interactions
  BY DEF OpenDashboard
<1>3. AnalyticsTypes'
  <2>1. hour \in Int /\ hour - DashboardSpan \in Int
    BY AnalyticsAssumption DEF AnalyticsInv, AnalyticsTypes
  <2> QED
    BY <1>1, <1>2, <2>1 DEF AnalyticsInv, AnalyticsTypes
<1>4. OpenedInTime'
  BY <1>1, <1>2 DEF AnalyticsInv, AnalyticsTypes, OpenedInTime
<1>5. ReportsAreSound'
  BY <1>1 DEF ReportsAreSound
<1> QED
  BY <1>1, <1>3, <1>4, <1>5 DEF AnalyticsInv

LEMMA ClosingKeeps == AnalyticsInv /\ CloseDashboard => AnalyticsInv'
<1> SUFFICES ASSUME AnalyticsInv, CloseDashboard PROVE AnalyticsInv'
  OBVIOUS
<1>1. dashboard' = [open |-> FALSE, start |-> 0, end |-> 0,
                    during |-> 0, read |-> [report \in Reports |-> Unread]]
  BY DEF CloseDashboard, NoDashboard
<1>2. hour' = hour /\ interactions' = interactions
  BY DEF CloseDashboard
<1>3. AnalyticsTypes'
  BY <1>1, <1>2 DEF AnalyticsInv, AnalyticsTypes
<1> QED
  BY <1>1, <1>3 DEF AnalyticsInv, OpenedInTime, ReportsAreSound

\* No more users are listed than there are: with room for all, all are listed.
LEMMA AllUsersAreListed ==
    ASSUME AnalyticsTypes, NEW ids \in SUBSET DOMAIN interactions,
           Cardinality(RowUsers) <= TopUsers,
           NEW key, key = [i \in DOMAIN interactions |-> interactions[i].user]
    PROVE  (CHOOSE top \in TopUsersByCost(ids, TopUsers) : TRUE) = ClassesOf(key, ids)
<1> DEFINE groups == ClassesOf(key, ids)
           userOf == [group \in groups |-> key[CHOOSE i \in group : TRUE]]
<1>1. \A i \in ids : key[i] = interactions[i].user /\ key[i] \in RowUsers
  BY RowTypes
<1>2. GroupBy(ids, LAMBDA row : row.user) = groups
  BY <1>1 DEF GroupBy, ClassesOf
<1>3. \A group \in groups :
        /\ \E i \in group : i \in ids
        /\ group \subseteq ids
        /\ \A i \in group : group = {j \in ids : key[j] = key[i]}
  BY DEF ClassesOf
<1>4. IsFiniteSet(groups) /\ Cardinality(groups) <= Cardinality(RowUsers)
  <2>1. \A group \in groups : (CHOOSE i \in group : TRUE) \in group
    BY <1>3
  <2>2. userOf \in [groups -> RowUsers]
    BY <1>1, <1>3, <2>1
  <2>3. ASSUME NEW a \in groups, NEW b \in groups, userOf[a] = userOf[b] PROVE a = b
    <3> DEFINE i == CHOOSE i \in a : TRUE
               j == CHOOSE j \in b : TRUE
    <3>1. i \in a /\ j \in b /\ key[i] = key[j]
      BY <2>1, <2>3
    <3> HIDE DEF i, j
    <3>2. a = {k \in ids : key[k] = key[i]} /\ b = {k \in ids : key[k] = key[j]}
      BY <1>3, <3>1
    <3> QED
      BY <3>1, <3>2
  <2> HIDE DEF userOf, groups
  <2>4. userOf \in Injection(groups, RowUsers)
    BY <2>2, <2>3 DEF Injection, IsInjective
  <2> QED
    BY <2>4, AnalyticsAssumption, FS_Injection
<1> HIDE DEF groups
<1>5. Cardinality(groups) \in Nat /\ Cardinality(RowUsers) \in Nat /\ TopUsers \in Nat
  BY <1>4, AnalyticsAssumption, FS_CardinalityType
<1>6. Min({Cardinality(groups), TopUsers}) = Cardinality(groups)
  <2> DEFINE c == Cardinality(groups)
  <2>1. c \in Nat /\ TopUsers \in Nat /\ c <= TopUsers
    BY <1>4, <1>5
  <2> HIDE DEF c
  <2>2. \A x \in {c, TopUsers} : (\A y \in {c, TopUsers} : x =< y) => x = c
    BY <2>1
  <2>3. \E x \in {c, TopUsers} : \A y \in {c, TopUsers} : x =< y
    BY <2>1
  <2> QED
    BY <2>2, <2>3 DEF Min, c
<1>7. TopUsersByCost(ids, TopUsers) = {groups}
  <2>1. \A top : top \in TopUsersByCost(ids, TopUsers) <=>
           /\ top \in SUBSET groups
           /\ Cardinality(top) = Cardinality(groups)
           /\ \A a \in top, b \in groups \ top : CostOfRows(a) >= CostOfRows(b)
    BY <1>2, <1>6 DEF TopUsersByCost
  <2>2. ASSUME NEW top \in SUBSET groups, Cardinality(top) = Cardinality(groups)
        PROVE  top = groups
    BY <1>4, <2>2, FS_Subset
  <2> QED
    BY <2>1, <2>2
<1> QED
  BY <1>7 DEF groups

\* Every report is about all the rows before, and some of those since.
LEMMA ReportsAreRight ==
    ASSUME AnalyticsInv, dashboard.open, NEW report \in Reports,
           report = "topUsers" => Cardinality(RowUsers) <= TopUsers
    PROVE  CASE report = "total" ->
                  Report(report) \in Int /\ Report(report) >= Cardinality(Before)
             [] report = "successful" ->
                  /\ Report(report) \in Int
                  /\ Report(report) <= Cardinality(Before) + dashboard.during
             [] OTHER -> Report(report) \in CostOfRows(Before)
                                   .. CostOfRows(Before) + dashboard.during * Dearest
<1> DEFINE ids == Where(dashboard.start, dashboard.end)
           later == {i \in DOMAIN interactions : interactions[i].at >= dashboard.start}
           n == Len(interactions)
           m == dashboard.during
<1>1. /\ AnalyticsTypes /\ DOMAIN interactions = 1 .. n /\ n \in Nat /\ m \in Nat /\ m <= n
      /\ \A i \in 1 .. n - m : interactions[i].at <= dashboard.end
      /\ \A i \in 1 .. n : interactions[i].at \in Nat
      /\ dashboard.start \in Int /\ dashboard.end \in Int
  <2>1. AnalyticsTypes
    BY DEF AnalyticsInv
  <2>2. /\ m <= n
        /\ \A i \in 1 .. n - m : interactions[i].at <= dashboard.end
    BY DEF AnalyticsInv, OpenedInTime
  <2>3. m \in Nat /\ dashboard.start \in Int /\ dashboard.end \in Int
    BY <2>1 DEF AnalyticsTypes
  <2>4. /\ DOMAIN interactions = 1 .. n /\ n \in Nat
        /\ \A i \in 1 .. n : interactions[i].at \in Nat
    BY <2>1, RowTypes
  <2> QED
    BY <2>1, <2>2, <2>3, <2>4
<1>2. 1 .. n = (1 .. n - m) \cup (n - m + 1 .. n)
  <2> HIDE DEF n, m
  <2> QED
    BY <1>1
<1>3. ids \in SUBSET DOMAIN interactions /\ later \in SUBSET DOMAIN interactions
  BY DEF Where
<1>4. Before \subseteq ids /\ ids \subseteq Before \cup Since
  <2> HIDE DEF n, m
  <2>1. Before = {i \in 1 .. n - m : interactions[i].at >= dashboard.start}
        /\ Since = n - m + 1 .. n
    BY DEF Before, Since, n, m
  <2> QED
    BY <1>1, <1>2, <2>1 DEF Where
<1>5. Before \subseteq later /\ later \subseteq Before \cup Since
  <2> HIDE DEF n, m
  <2>1. Before = {i \in 1 .. n - m : interactions[i].at >= dashboard.start}
        /\ Since = n - m + 1 .. n
    BY DEF Before, Since, n, m
  <2> QED
    BY <1>1, <1>2, <2>1
<1>6. /\ CostOfRows(ids) \in CostOfRows(Before) .. CostOfRows(Before) + m * Dearest
      /\ Cardinality(Before) <= Cardinality(ids)
      /\ Cardinality(ids) <= Cardinality(Before) + m
  BY <1>1, <1>4, CostBetween
<1>7. CostOfRows(later) \in CostOfRows(Before) .. CostOfRows(Before) + m * Dearest
  BY <1>1, <1>5, CostBetween
<1> HIDE DEF ids, later, n, m
<1>8. CASE report = "total"
  <2>1. Cardinality(ids) \in Nat
    BY <1>1, <1>3, CostsOfRows
  <2>2. Report(report) = Cardinality(ids)
    BY <1>8 DEF Report, Stats, ids
  <2> QED
    BY <1>6, <1>8, <2>1, <2>2
<1>9. CASE report = "successful"
  <2> DEFINE good == Successful(ids)
  <2>1. Report(report) = Cardinality(good)
    BY <1>9 DEF Report, Stats, ids
  <2>2. good \in SUBSET ids /\ good \in SUBSET DOMAIN interactions
    BY <1>3 DEF Successful
  <2>3. IsFiniteSet(ids) /\ Cardinality(ids) \in Nat
    BY <1>1, <1>3, CostsOfRows
  <2> HIDE DEF good
  <2>4. Cardinality(good) \in Nat
    BY <1>1, <2>2, CostsOfRows
  <2>5. Cardinality(good) <= Cardinality(ids)
    BY <2>2, <2>3, FS_Subset
  <2>6. Before \in SUBSET DOMAIN interactions
    BY <1>3, <1>4
  <2>7. Cardinality(Before) \in Nat
    BY <1>1, <2>6, CostsOfRows
  <2>8. Cardinality(good) <= Cardinality(Before) + m
    BY <1>1, <1>6, <2>3, <2>4, <2>5, <2>7
  <2> QED
    BY <1>9, <2>1, <2>4, <2>8 DEF m
<1>10. CASE report = "cost"
  BY <1>6, <1>10 DEF Report, Stats, ids, m
<1>11. CASE report = "trends"
  <2> DEFINE key == [i \in DOMAIN interactions |-> interactions[i].at]
  <2>1. DailyTrends(dashboard.start) = ClassesOf(key, later)
    BY DEF DailyTrends, GroupBy, ClassesOf, later
  <2> HIDE DEF key
  <2>2. SumOfGroups(ClassesOf(key, later)) = CostOfRows(later)
    BY <1>1, <1>3, GroupsAddUp
  <2>3. Report(report) = CostOfRows(later)
    BY <1>11, <2>1, <2>2 DEF Report
  <2> QED
    BY <1>7, <1>11, <2>3 DEF m
<1>12. CASE report = "topUsers"
  <2> DEFINE key == [i \in DOMAIN interactions |-> interactions[i].user]
  <2>1. (CHOOSE top \in TopUsersByCost(ids, TopUsers) : TRUE) = ClassesOf(key, ids)
    BY <1>1, <1>3, <1>12, AllUsersAreListed
  <2> HIDE DEF key
  <2>2. SumOfGroups(ClassesOf(key, ids)) = CostOfRows(ids)
    BY <1>1, <1>3, GroupsAddUp
  <2>3. Report(report) = CostOfRows(ids)
    BY <1>12, <2>1, <2>2 DEF Report, ids
  <2> QED
    BY <1>6, <1>12, <2>3 DEF m
<1>13. CASE report = "models"
  <2> DEFINE key == [i \in DOMAIN interactions |-> interactions[i].model]
             named == {i \in ids : interactions[i].model}
             rest == ids \ named
  <2>1. ModelCosts(ids) = ClassesOf(key, named)
    BY <1>3 DEF ModelCosts, GroupBy, ClassesOf
  <2>2. /\ named \in SUBSET DOMAIN interactions /\ rest \in SUBSET DOMAIN interactions
        /\ named \cup rest = ids /\ named \cap rest = {}
    BY <1>3
  <2>3. \A i \in rest : interactions[i].cost = 0
    BY <1>1, <1>3 DEF AnalyticsTypes
  <2> HIDE DEF key, named, rest
  <2>4. SumOfGroups(ClassesOf(key, named)) = CostOfRows(named)
    BY <1>1, <2>2, GroupsAddUp
  <2>5. CostOfRows(rest) = 0
    <3>1. IsFiniteSet(rest) /\ Cardinality(rest) \in Nat
      BY <1>1, <2>2, CostsOfRows
    <3>2. \A i \in rest : Costs[i] \in Nat /\ Costs[i] <= 0
      <4>1. \A i \in rest : Costs[i] = interactions[i].cost
        BY <1>1, <2>2, CostsOfRows
      <4> QED
        BY <2>3, <4>1
    <3>3. /\ SumFunctionOnSet(Costs, rest) \in Nat
          /\ SumFunctionOnSet(Costs, rest) <= Cardinality(rest) * 0
      BY <3>1, <3>2, SumIsBounded
    <3> QED
      BY <3>1, <3>3 DEF CostOfRows
  <2>6. CostOfRows(ids) = CostOfRows(named) + CostOfRows(rest)
    <3>1. /\ IsFiniteSet(named) /\ IsFiniteSet(rest)
          /\ \A i \in named \cup rest : Costs[i] \in Int
      <4>1. IsFiniteSet(named) /\ \A i \in named : Costs[i] \in Nat
        BY <1>1, <2>2, CostsOfRows
      <4>2. IsFiniteSet(rest) /\ \A i \in rest : Costs[i] \in Nat
        BY <1>1, <2>2, CostsOfRows
      <4> QED
        BY <4>1, <4>2
    <3>2. SumFunctionOnSet(Costs, named \cup rest)
            = SumFunctionOnSet(Costs, named) + SumFunctionOnSet(Costs, rest)
      BY <2>2, <3>1, SumOfBoth
    <3> QED
      BY <2>2, <3>2 DEF CostOfRows
  <2>7. CostOfRows(named) \in Nat
    BY <1>1, <2>2, CostsOfRows
  <2>8. Report(report) = CostOfRows(ids)
    BY <1>13, <2>1, <2>4, <2>5, <2>6, <2>7 DEF Report, ids
  <2> QED
    BY <1>6, <1>13, <2>8 DEF m
<1> QED
  BY <1>8, <1>9, <1>10, <1>11, <1>12, <1>13 DEF Reports

LEMMA ReadingKeeps ==
    ASSUME AnalyticsInv, NEW report \in Reports, ReadReport(report)
    PROVE  AnalyticsInv'
<1>1. /\ dashboard' = [dashboard EXCEPT !.read[report] = Report(report)]
      /\ hour' = hour /\ interactions' = interactions /\ dashboard.open
  BY DEF ReadReport
<1>2. /\ dashboard'.read = [dashboard.read EXCEPT ![report] = Report(report)]
      /\ dashboard'.open = dashboard.open /\ dashboard'.during = dashboard.during
      /\ dashboard'.start = dashboard.start /\ dashboard'.end = dashboard.end
      /\ dashboard' = [open |-> dashboard'.open, start |-> dashboard'.start,
                       end |-> dashboard'.end, during |-> dashboard'.during,
                       read |-> dashboard'.read]
  BY <1>1 DEF AnalyticsInv, AnalyticsTypes
<1>3. /\ dashboard'.read[report] = Report(report)
      /\ \A r \in Reports \ {report} : dashboard'.read[r] = dashboard.read[r]
      /\ dashboard'.read = [r \in Reports |-> dashboard'.read[r]]
  BY <1>2 DEF AnalyticsInv, AnalyticsTypes
<1>4. AnalyticsTypes'
  BY <1>1, <1>2, <1>3 DEF AnalyticsInv, AnalyticsTypes
<1>5. OpenedInTime'
  BY <1>1, <1>2 DEF AnalyticsInv, OpenedInTime
<1>6. /\ Before' = Before /\ Dearest' = Dearest
      /\ CostOfRows(Before)' = CostOfRows(Before)
  BY <1>1, <1>2 DEF Before, Dearest, CostOfRows, Costs
<1>7. ASSUME NEW r \in Reports, dashboard'.read[r] # Unread,
             r = "topUsers" => Cardinality(RowUsers) <= TopUsers
      PROVE  ReportIsSound(r)'
  <2>1. CASE r = report
    <3>1. dashboard'.read[r] = Report(r)
      BY <1>3, <2>1
    <3>2. CASE report = "total"
      BY <1>1, <1>6, <1>7, <2>1, <3>1, <3>2, ReportsAreRight DEF ReportIsSound
    <3>3. CASE report = "successful"
      BY <1>1, <1>2, <1>6, <1>7, <2>1, <3>1, <3>3, ReportsAreRight DEF ReportIsSound
    <3>4. CASE report \notin {"total", "successful"}
      BY <1>1, <1>2, <1>6, <1>7, <2>1, <3>1, <3>4, ReportsAreRight DEF ReportIsSound
    <3> QED
      BY <3>2, <3>3, <3>4
  <2>2. CASE r # report
    <3>1. ReportIsSound(r)
      BY <1>3, <1>7, <2>2 DEF AnalyticsInv, ReportsAreSound
    <3> QED
      BY <1>2, <1>3, <1>6, <2>2, <3>1 DEF ReportIsSound
  <2> QED
    BY <2>1, <2>2
<1>8. ReportsAreSound'
  BY <1>7 DEF ReportsAreSound
<1> QED
  BY <1>1, <1>2, <1>4, <1>5, <1>8 DEF AnalyticsInv

\* For any number of users and rows: the reports of a dashboard agree but for what
\* the rows stored between its queries can have cost.
THEOREM ReportsAgree == AnalyticsSpec => []DashboardAddsUp
<1>1. AnalyticsInv /\ [AnalyticsNext]_analyticsVars => AnalyticsInv'
  <2> SUFFICES ASSUME AnalyticsInv, [AnalyticsNext]_analyticsVars PROVE AnalyticsInv'
    OBVIOUS
  <2>1. CASE UNCHANGED analyticsVars
    BY <2>1 DEF analyticsVars, AnalyticsInv, AnalyticsTypes, OpenedInTime, ReportsAreSound,
                ReportIsSound, Before, CostOfRows, Costs
  <2> QED
    BY <2>1, HourKeeps, StoringRowKeeps, OpeningKeeps, ClosingKeeps, ReadingKeeps
       DEF AnalyticsNext
<1>2. AnalyticsInv => DashboardAddsUp
  <2> SUFFICES ASSUME AnalyticsInv PROVE DashboardAddsUp
    OBVIOUS
  <2> DEFINE read == dashboard.read
             m == dashboard.during
             X == CostOfRows(Before)
             AtMost(a, b, by) == Unread \in {read[a], read[b]} \/ read[a] <= read[b] + by
  <2>1. CASE ~dashboard.open
    <3>1. \A r \in Reports : read[r] = Unread
      BY <2>1 DEF AnalyticsInv
    <3>2. \A r \in {"trends", "models", "topUsers", "successful", "cost"} : read[r] = Unread
      BY <3>1 DEF Reports
    <3> QED
      BY <3>2 DEF DashboardAddsUp
  <2>2. CASE dashboard.open
    <3>1. m \in Nat /\ Dearest \in Nat /\ m * Dearest \in Nat
      BY DearestIsMost DEF AnalyticsInv, AnalyticsTypes
    <3>2. Before \in SUBSET DOMAIN interactions
      BY <2>2 DEF Before, AnalyticsInv, AnalyticsTypes, OpenedInTime
    <3>3. X \in Nat /\ Cardinality(Before) \in Nat
      BY <3>2, CostsOfRows DEF AnalyticsInv
    <3> HIDE DEF m, X
    <3>4. ASSUME NEW a \in {"trends", "models", "cost", "topUsers"}, read[a] # Unread,
                 a = "topUsers" => Cardinality(RowUsers) <= TopUsers
          PROVE  read[a] \in X .. X + m * Dearest
      <4>1. ReportIsSound(a)
        BY <3>4 DEF AnalyticsInv, ReportsAreSound, Reports
      <4> QED
        BY <4>1 DEF ReportIsSound, X, m
    <3>5. ASSUME NEW a \in {"trends", "models", "cost", "topUsers"},
                 NEW b \in {"trends", "models", "cost", "topUsers"},
                 "topUsers" \in {a, b} => Cardinality(RowUsers) <= TopUsers
          PROVE  AtMost(a, b, m * Dearest)
      <4> SUFFICES ASSUME read[a] # Unread, read[b] # Unread
                   PROVE  read[a] <= read[b] + m * Dearest
        OBVIOUS
      <4>1. read[a] \in X .. X + m * Dearest /\ read[b] \in X .. X + m * Dearest
        BY <3>4, <3>5
      <4> HIDE DEF read
      <4> QED
        BY <3>1, <3>3, <4>1
    <3>6. AtMost("successful", "total", m)
      <4> SUFFICES ASSUME read["successful"] # Unread, read["total"] # Unread
                   PROVE  read["successful"] <= read["total"] + m
        OBVIOUS
      <4>1. ReportIsSound("successful") /\ ReportIsSound("total")
        BY DEF AnalyticsInv, ReportsAreSound, Reports
      <4>2. /\ read["successful"] \in Int /\ read["total"] \in Int
            /\ read["successful"] <= Cardinality(Before) + m
            /\ read["total"] >= Cardinality(Before)
        BY <4>1 DEF ReportIsSound, m
      <4> HIDE DEF read
      <4> QED
        BY <3>1, <3>3, <4>2
    <3> QED
      BY <3>5, <3>6 DEF DashboardAddsUp, Dearest, m
  <2> QED
    BY <2>1, <2>2 DEF AnalyticsInv, AnalyticsTypes
<1> QED
  BY <1>1, <1>2, AnalyticsStarts, PTL DEF AnalyticsSpec

-----------------------------------------------------------------------------
(* The turns of a conversation.                                            *)

Turns == [by : Callers, tokens : {TokensUsed(n, b) : n \in Chunks, b \in BOOLEAN}]

\* s is what is left of t when turns leave from the front.
IsEnd(s, t) ==
    /\ Len(s) <= Len(t)
    /\ \A i \in 1 .. Len(s) : s[i] = t[Len(t) - Len(s) + i]
KeepsLatest(turns, v) ==
    /\ IsEnd(turns, saved[v])
    /\ saved[v] # << >> => turns # << >>

CallerTypes ==
    \A c \in Callers :
        /\ caller[c].phase \in {"asked", "generated", "adding"} =>
                caller[c].conversation \in Conversations
        /\ caller[c].phase = "asked" => caller[c].streamed \in BOOLEAN
        /\ caller[c].phase \in {"generated", "adding"} => caller[c].turn \in Turns
        /\ caller[c].phase = "adding" => caller[c].talk.turns \in Seq(Turns)
        /\ caller[c].phase = "clearing" =>
                caller[c] \in [phase : {"clearing"}, todo : SUBSET Conversations]

MemoryTypes ==
    /\ storage \in {"redis", "memory"}
    /\ DOMAIN talks = Conversations /\ \A v \in Conversations : talks[v].turns \in Seq(Turns)
    /\ present \subseteq Conversations
    /\ DOMAIN caller = Callers /\ CallerTypes
    /\ saved \in [Conversations -> Seq(Turns)]

\* In Redis, one addition at a time is under way, and it holds what is stored.
HoldsWhatIsStored ==
    storage = "redis" => \A v \in Conversations \ collided : \A c \in AddingTo(v) :
        caller[c].talk = talks[v] /\ AddingTo(v) = {c}
LatestAreKept == \A v \in Conversations \ collided : KeepsLatest(talks[v].turns, v)

MemoryInv == MemoryTypes /\ HoldsWhatIsStored /\ LatestAreKept

LEMMA EndIsSuffix ==
    ASSUME NEW s \in Seq(Turns), NEW t \in Seq(Turns), IsEnd(s, t)
    PROVE  IsSuffix(s, t)
<1> DEFINE m == Len(s)
           n == Len(t)
           rs == Reverse(s)
           rt == Reverse(t)
<1>1. m \in Nat /\ n \in Nat /\ m <= n
  BY LenProperties DEF IsEnd
<1>2. /\ rs = [i \in 1 .. m |-> s[(m - i) + 1]] /\ Len(rs) = m
      /\ rt = [i \in 1 .. n |-> t[(n - i) + 1]] /\ Len(rt) = n
  BY <1>1 DEF Reverse
<1>3. ASSUME NEW i \in 1 .. m PROVE rs[i] = rt[i] /\ rs[i] \in Turns
  <2>1. (m - i) + 1 \in 1 .. m /\ (n - m) + ((m - i) + 1) = (n - i) + 1 /\ i \in 1 .. n
    BY <1>1
  <2>2. s[(m - i) + 1] = t[(n - i) + 1]
    BY <2>1 DEF IsEnd
  <2>3. s[(m - i) + 1] \in Turns
    BY <2>1, ElementOfSeq
  <2> QED
    BY <1>2, <2>1, <2>2, <2>3
<1> HIDE DEF m, n, rs, rt
<1>4. SubSeq(rs, 1, m) = SubSeq(rt, 1, m)
  <2>1. /\ SubSeq(rs, 1, m) \in Seq(Turns)
        /\ Len(SubSeq(rs, 1, m)) = (IF 1 <= m THEN m - 1 + 1 ELSE 0)
        /\ \A i \in 1 .. m - 1 + 1 : SubSeq(rs, 1, m)[i] = rs[1 + i - 1]
    BY <1>1, <1>3, SubSeqProperties
  <2>2. /\ SubSeq(rt, 1, m) \in Seq(Turns)
        /\ Len(SubSeq(rt, 1, m)) = (IF 1 <= m THEN m - 1 + 1 ELSE 0)
        /\ \A i \in 1 .. m - 1 + 1 : SubSeq(rt, 1, m)[i] = rt[1 + i - 1]
    <3>1. \A i \in 1 .. m : rt[i] \in Turns
      BY <1>3
    <3> QED
      BY <1>1, <3>1, SubSeqProperties
  <2>3. /\ Len(SubSeq(rs, 1, m)) = m /\ Len(SubSeq(rt, 1, m)) = m
        /\ \A i \in 1 .. m : SubSeq(rs, 1, m)[i] = SubSeq(rt, 1, m)[i]
    BY <1>1, <1>3, <2>1, <2>2
  <2> QED
    BY <2>1, <2>2, <2>3, SeqEqual
<1> QED
  BY <1>1, <1>2, <1>4 DEF IsSuffix, IsPrefix, m, n, rs, rt

\* addTurn adds the turn and then takes away some of the older ones.
LEMMA ExtendedIsLatest ==
    ASSUME NEW t, t.turns \in Seq(Turns), NEW turn \in Turns
    PROVE  \E n \in 0 .. Len(t.turns) :
              Extended(t, turn).turns = SubSeq(Append(t.turns, turn), n + 1, Len(t.turns) + 1)
<1> DEFINE longer == [turns |-> Append(t.turns, turn),
                      totalTokens |-> t.totalTokens + turn.tokens]
           len == Len(t.turns)
           all == Append(t.turns, turn)
<1>1. len \in Nat /\ all \in Seq(Turns) /\ Len(all) = len + 1 /\ longer.turns = all
  BY LenProperties, AppendProperties
<1>2. Extended(t, turn) = IF ShouldPrune(longer) THEN PruneConversation(longer) ELSE longer
  BY DEF Extended
<1>3. CASE ~ShouldPrune(longer)
  <2>1. SubSeq(all, 1, len + 1) = all
    BY <1>1, SubSeqFull
  <2>2. 0 \in 0 .. len /\ 0 + 1 = 1
    BY <1>1
  <2> QED
    BY <1>1, <1>2, <1>3, <2>1, <2>2
<1>4. CASE ShouldPrune(longer)
  <2> DEFINE Enough(n) == /\ Len(longer.turns) - n <= TurnLimit
                          /\ \/ 2 * Dropping(longer, n).totalTokens <= TokenLimit
                             \/ Len(longer.turns) - n <= 1
             Least(m) == Enough(m) /\ \A k \in 0 .. m - 1 : ~Enough(k)
             dropped == CHOOSE m \in 0 .. Len(longer.turns) : Least(m)
  <2>1. PruneConversation(longer) = Dropping(longer, dropped)
    BY DEF PruneConversation
  <2>2. Enough(len)
    BY <1>1, MemoryAssumption
  <2> HIDE DEF Enough
  <2>3. \E m \in 0 .. Len(longer.turns) : Least(m)
    <3> DEFINE enough == {m \in 0 .. len : Enough(m)}
    <3>1. enough \subseteq Nat /\ len \in enough
      BY <1>1, <2>2
    <3>2. PICK m \in enough : \A k \in enough : m <= k
      BY <3>1, LeastMember
    <3>3. \A k \in 0 .. m - 1 : ~Enough(k)
      BY <1>1, <3>1, <3>2
    <3>4. m \in 0 .. Len(longer.turns)
      BY <1>1
    <3> QED
      BY <3>2, <3>3, <3>4
  <2>4. dropped \in 0 .. Len(longer.turns) /\ Least(dropped)
    BY <2>3
  <2> HIDE DEF dropped
  <2>5. dropped \in 0 .. len
    BY <1>1, <2>2, <2>4
  <2>6. Dropping(longer, dropped).turns = SubSeq(all, dropped + 1, len + 1)
    BY <1>1 DEF Dropping
  <2> QED
    BY <1>2, <1>4, <2>1, <2>5, <2>6
<1> QED
  BY <1>3, <1>4

\* The latest of some turns and one more are the latest of all turns and that one.
LEMMA EndWithOneMore ==
    ASSUME NEW s \in Seq(Turns), NEW t \in Seq(Turns), IsEnd(s, t), NEW turn \in Turns
    PROVE  IsEnd(Append(s, turn), Append(t, turn))
<1> DEFINE l == Len(s)
           k == Len(t)
           u == Append(s, turn)
           w == Append(t, turn)
<1>1. l \in Nat /\ k \in Nat /\ l <= k /\ \A i \in 1 .. l : s[i] = t[k - l + i]
  BY LenProperties DEF IsEnd
<1>2. Len(u) = l + 1 /\ u[l + 1] = turn /\ \A i \in 1 .. l : u[i] = s[i]
  BY AppendProperties
<1>3. Len(w) = k + 1 /\ w[k + 1] = turn /\ \A i \in 1 .. k : w[i] = t[i]
  BY AppendProperties
<1> HIDE DEF l, k, u, w
<1>4. ASSUME NEW i \in 1 .. l + 1 PROVE u[i] = w[(k + 1) - (l + 1) + i]
  <2>1. (k + 1) - (l + 1) + i = k - l + i
    BY <1>1
  <2>2. CASE i = l + 1
    <3>1. k - l + i = k + 1
      BY <1>1, <2>2
    <3> QED
      BY <1>2, <1>3, <2>1, <2>2, <3>1
  <2>3. CASE i # l + 1
    <3>1. i \in 1 .. l /\ k - l + i \in 1 .. k
      BY <1>1, <2>3
    <3> QED
      BY <1>1, <1>2, <1>3, <2>1, <3>1
  <2> QED
    BY <2>2, <2>3
<1>5. l + 1 <= k + 1
  BY <1>1
<1>6. IsEnd(u, w)
  BY <1>2, <1>3, <1>4, <1>5 DEF IsEnd
<1> QED
  BY <1>6 DEF u, w

\* What leaves from the front leaves an end.
LEMMA EndOfEnd ==
    ASSUME NEW u \in Seq(Turns), NEW w \in Seq(Turns), IsEnd(u, w), NEW n \in Nat, n < Len(u)
    PROVE  /\ SubSeq(u, n + 1, Len(u)) \in Seq(Turns)
           /\ IsEnd(SubSeq(u, n + 1, Len(u)), w)
           /\ SubSeq(u, n + 1, Len(u)) # << >>
<1> DEFINE l == Len(u)
           k == Len(w)
           r == SubSeq(u, n + 1, Len(u))
<1>1. l \in Nat /\ k \in Nat /\ l <= k /\ \A i \in 1 .. l : u[i] = w[k - l + i]
  BY LenProperties DEF IsEnd
<1>2. \A i \in n + 1 .. l : u[i] \in Turns
  BY <1>1, ElementOfSeq
<1>3. /\ r \in Seq(Turns)
      /\ Len(r) = (IF n + 1 <= l THEN l - (n + 1) + 1 ELSE 0)
      /\ \A i \in 1 .. l - (n + 1) + 1 : r[i] = u[n + 1 + i - 1]
  BY <1>1, <1>2, SubSeqProperties
<1>4. n < l
  OBVIOUS
<1> HIDE DEF l, k, r
<1>5. l - (n + 1) + 1 = l - n /\ n + 1 <= l /\ l - n <= k /\ l - n # 0
  BY <1>1, <1>4
<1>6. Len(r) = l - n
  BY <1>3, <1>5
<1>7. ASSUME NEW i \in 1 .. l - n PROVE r[i] = w[k - (l - n) + i]
  <2>1. /\ n + 1 + i - 1 = n + i /\ n + i \in 1 .. l
        /\ k - l + (n + i) = k - (l - n) + i
    <3>1. l \in Int /\ k \in Int /\ n \in Int /\ i \in Int /\ 1 <= i /\ i <= l - n /\ n >= 0
      BY <1>1
    <3> QED
      BY <3>1
  <2>2. r[i] = u[n + i]
    BY <1>3, <1>5, <2>1
  <2>3. u[n + i] = w[k - l + (n + i)]
    BY <1>1, <2>1
  <2> QED
    BY <2>1, <2>2, <2>3
<1>8. IsEnd(r, w)
  BY <1>5, <1>6, <1>7 DEF IsEnd, k
<1>9. r # << >>
  BY <1>5, <1>6
<1> QED
  BY <1>3, <1>8, <1>9 DEF r, l

LEMMA MemoryStarts == MemoryInit => MemoryInv
<1> SUFFICES ASSUME MemoryInit PROVE MemoryInv
  OBVIOUS
<1>1. /\ storage \in {"redis", "memory"} /\ present = {}
      /\ DOMAIN talks = Conversations /\ DOMAIN caller = Callers
      /\ \A v \in Conversations : talks[v].turns = << >> /\ saved[v] = << >>
      /\ \A c \in Callers : caller[c].phase = "away"
      /\ saved \in [Conversations -> Seq(Turns)]
  BY DEF MemoryInit, NewTalk, Away
<1>2. << >> \in Seq(Turns) /\ IsEnd(<< >>, << >>)
  BY DEF IsEnd
<1>3. MemoryTypes
  BY <1>1, <1>2 DEF MemoryTypes, CallerTypes
<1>4. HoldsWhatIsStored /\ LatestAreKept
  BY <1>1, <1>2 DEF HoldsWhatIsStored, LatestAreKept, KeepsLatest, AddingTo
<1> QED
  BY <1>3, <1>4 DEF MemoryInv

\* The caller that takes a step is the only one to move.
LEMMA Entered ==
    ASSUME MemoryTypes, NEW c \in Callers, NEW where, Enter(c, where)
    PROVE  /\ DOMAIN caller' = Callers /\ caller'[c] = where
           /\ \A d \in Callers \ {c} : caller'[d] = caller[d]
  BY DEF MemoryTypes, Enter

\* A step that neither adds a turn nor begins to leaves the turns alone.
LEMMA TurnsStay ==
    ASSUME MemoryInv, UNCHANGED <<storage, talks, saved>>, collided \subseteq collided',
           \A c \in Callers : caller'[c].phase = "adding" => caller'[c] = caller[c]
    PROVE  HoldsWhatIsStored' /\ LatestAreKept'
<1>1. \A v : AddingTo(v)' \subseteq AddingTo(v) /\ \A c \in AddingTo(v)' : caller'[c] = caller[c]
  BY DEF AddingTo
<1>2. ASSUME storage' = "redis", NEW v \in Conversations \ collided', NEW c \in AddingTo(v)'
      PROVE  caller'[c].talk = talks'[v] /\ AddingTo(v)' = {c}
  <2>1. c \in AddingTo(v) /\ caller'[c] = caller[c] /\ AddingTo(v)' \subseteq AddingTo(v)
    BY <1>1, <1>2
  <2>2. caller[c].talk = talks[v] /\ AddingTo(v) = {c}
    BY <1>2, <2>1 DEF MemoryInv, HoldsWhatIsStored
  <2> QED
    BY <1>2, <2>1, <2>2
<1>3. HoldsWhatIsStored'
  BY <1>2 DEF HoldsWhatIsStored
<1>4. LatestAreKept'
  BY DEF MemoryInv, LatestAreKept, KeepsLatest
<1> QED
  BY <1>3, <1>4

LEMMA KeptByConversations ==
    ASSUME MemoryInv, NEW v \in Conversations,
           CreateConversation(v) \/ DeleteConversation(v) \/ Expire(v)
    PROVE  MemoryInv'
<1>1. /\ UNCHANGED <<storage, talks, caller, saved>> /\ collided \subseteq collided'
      /\ present' \subseteq present \cup {v}
  BY DEF CreateConversation, DeleteConversation, Expire, Forget
<1>2. MemoryTypes'
  BY <1>1 DEF MemoryInv, MemoryTypes, CallerTypes
<1>3. HoldsWhatIsStored' /\ LatestAreKept'
  BY <1>1, TurnsStay
<1> QED
  BY <1>2, <1>3 DEF MemoryInv

LEMMA KeptByAsk ==
    ASSUME MemoryInv, NEW c \in Callers, NEW v \in Conversations, NEW streamed \in BOOLEAN,
           Ask(c, v, streamed)
    PROVE  MemoryInv'
<1>1. /\ DOMAIN caller' = Callers
      /\ caller'[c] = [phase |-> "asked", conversation |-> v, streamed |-> streamed]
      /\ \A d \in Callers \ {c} : caller'[d] = caller[d]
      /\ UNCHANGED <<storage, talks, present, saved, collided>>
  BY Entered DEF Ask, MemoryInv
<1>2. CallerTypes'
  BY <1>1 DEF MemoryInv, MemoryTypes, CallerTypes
<1>3. MemoryTypes'
  BY <1>1, <1>2 DEF MemoryInv, MemoryTypes
<1>4. HoldsWhatIsStored' /\ LatestAreKept'
  BY <1>1, TurnsStay
<1> QED
  BY <1>3, <1>4 DEF MemoryInv

LEMMA KeptByReply ==
    ASSUME MemoryInv, NEW c \in Callers, GenerateReply(c)
    PROVE  MemoryInv'
<1>1. caller[c].conversation \in Conversations
  BY DEF GenerateReply, MemoryInv, MemoryTypes, CallerTypes
<1>2. PICK where :
        /\ Enter(c, where)
        /\ \/ where = Away
           \/ /\ where.phase = "generated" /\ where.conversation = caller[c].conversation
              /\ where.turn \in Turns
  <2> DEFINE Turn(n) == [by |-> c, tokens |-> TokensUsed(n, caller[c].streamed)]
             Generated(n) == [phase |-> "generated", conversation |-> caller[c].conversation,
                              turn |-> Turn(n)]
  <2>1. Leave(c) \/ \E n \in Chunks : Enter(c, Generated(n))
    BY DEF GenerateReply
  <2>2. ASSUME NEW n \in Chunks PROVE Turn(n) \in Turns
    <3>1. TokensUsed(n, caller[c].streamed) \in {TokensUsed(m, b) : m \in Chunks, b \in BOOLEAN}
      <4>1. caller[c].streamed \in BOOLEAN
        BY DEF GenerateReply, MemoryInv, MemoryTypes, CallerTypes
      <4> QED
        BY <4>1
    <3> QED
      BY <3>1 DEF Turns
  <2>3. \A n \in Chunks : /\ Generated(n).phase = "generated"
                          /\ Generated(n).conversation = caller[c].conversation
                          /\ Generated(n).turn \in Turns
    BY <2>2
  <2> HIDE DEF Generated
  <2> QED
    BY <2>1, <2>3 DEF Leave
<1>3. /\ DOMAIN caller' = Callers /\ caller'[c] = where
      /\ \A d \in Callers \ {c} : caller'[d] = caller[d]
      /\ UNCHANGED <<storage, talks, present, saved, collided>>
      /\ where.phase \in {"away", "generated"}
  BY <1>2, Entered DEF GenerateReply, MemoryInv, Away
<1>4. CallerTypes'
  BY <1>1, <1>2, <1>3 DEF MemoryInv, MemoryTypes, CallerTypes, Away
<1>5. MemoryTypes'
  BY <1>3, <1>4 DEF MemoryInv, MemoryTypes
<1>6. HoldsWhatIsStored' /\ LatestAreKept'
  BY <1>3, TurnsStay
<1> QED
  BY <1>5, <1>6 DEF MemoryInv

LEMMA KeptByReading ==
    ASSUME MemoryInv, NEW c \in Callers, ReadForTurn(c)
    PROVE  MemoryInv'
<1>1. PICK v \in Conversations :
        v = caller[c].conversation /\ caller[c].turn \in Turns /\ c \notin AddingTo(v)
  BY DEF ReadForTurn, MemoryInv, MemoryTypes, CallerTypes, AddingTo
<1>2. CASE Leave(c) /\ UNCHANGED collided
  <2>1. /\ DOMAIN caller' = Callers /\ caller'[c] = Away /\ Away.phase = "away"
        /\ \A d \in Callers \ {c} : caller'[d] = caller[d]
        /\ UNCHANGED <<storage, talks, present, saved, collided>>
    BY <1>2, Entered DEF Leave, ReadForTurn, MemoryInv, Away
  <2>2. CallerTypes'
    BY <2>1 DEF MemoryInv, MemoryTypes, CallerTypes
  <2>3. MemoryTypes'
    BY <2>1, <2>2 DEF MemoryInv, MemoryTypes
  <2>4. HoldsWhatIsStored' /\ LatestAreKept'
    BY <2>1, TurnsStay
  <2> QED
    BY <2>3, <2>4 DEF MemoryInv
<1>3. ASSUME Enter(c, [phase |-> "adding", conversation |-> v, turn |-> caller[c].turn,
                       talk |-> talks[v]]),
             collided' = IF storage = "redis" /\ AddingTo(v) # {}
                         THEN collided \cup {v} ELSE collided
      PROVE  MemoryInv'
  <2>1. /\ DOMAIN caller' = Callers
        /\ caller'[c].phase = "adding" /\ caller'[c].conversation = v
        /\ caller'[c].turn = caller[c].turn /\ caller'[c].talk = talks[v]
        /\ \A d \in Callers \ {c} : caller'[d] = caller[d]
        /\ UNCHANGED <<storage, talks, present, saved>> /\ collided \subseteq collided'
    BY <1>3, Entered DEF ReadForTurn, MemoryInv
  <2>2. CallerTypes'
    BY <1>1, <2>1 DEF MemoryInv, MemoryTypes, CallerTypes
  <2>3. MemoryTypes'
    BY <2>1, <2>2 DEF MemoryInv, MemoryTypes
  <2>4. LatestAreKept'
    BY <2>1 DEF MemoryInv, LatestAreKept, KeepsLatest
  <2>5. /\ AddingTo(v)' = AddingTo(v) \cup {c}
        /\ \A u : u # v => AddingTo(u)' = AddingTo(u)
    <3>1. caller[c].phase # "adding"
      BY DEF ReadForTurn
    <3> QED
      BY <2>1, <3>1 DEF AddingTo
  <2>6. ASSUME storage' = "redis", NEW u \in Conversations \ collided', NEW d \in AddingTo(u)'
        PROVE  caller'[d].talk = talks'[u] /\ AddingTo(u)' = {d}
    <3>1. u \in Conversations \ collided /\ storage = "redis"
      BY <2>1, <2>6
    <3>2. CASE u = v
      <4>1. AddingTo(v) = {}
        BY <1>3, <2>6, <3>1, <3>2
      <4>2. AddingTo(u)' = {c}
        BY <2>5, <3>2, <4>1
      <4>3. d = c /\ AddingTo(u)' = {d}
        BY <2>6, <4>2
      <4> QED
        BY <2>1, <3>2, <4>3
    <3>3. CASE u # v
      <4>1. d \in AddingTo(u) /\ AddingTo(u)' = AddingTo(u) /\ d # c /\ d \in Callers
        BY <1>1, <2>5, <2>6, <3>3 DEF AddingTo, ReadForTurn
      <4> QED
        BY <2>1, <3>1, <4>1 DEF MemoryInv, HoldsWhatIsStored
    <3> QED
      BY <3>2, <3>3
  <2>7. HoldsWhatIsStored'
    BY <2>6 DEF HoldsWhatIsStored
  <2> QED
    BY <2>3, <2>4, <2>7 DEF MemoryInv
<1> QED
  BY <1>1, <1>2, <1>3 DEF ReadForTurn

LEMMA KeptBySaving ==
    ASSUME MemoryInv, NEW c \in Callers, SaveTurn(c)
    PROVE  MemoryInv'
<1>1. PICK v \in Conversations :
        /\ v = caller[c].conversation /\ caller[c].turn \in Turns
        /\ caller[c].phase = "adding" /\ c \in AddingTo(v)
        /\ caller[c].talk.turns \in Seq(Turns)
  BY DEF SaveTurn, MemoryInv, MemoryTypes, CallerTypes, AddingTo
<1> DEFINE turn == caller[c].turn
           held == IF storage = "redis" THEN caller[c].talk ELSE talks[v]
           s == held.turns
<1>2. /\ DOMAIN caller' = Callers /\ caller'[c] = Away /\ Away.phase = "away"
      /\ \A d \in Callers \ {c} : caller'[d] = caller[d]
      /\ UNCHANGED <<storage, collided>> /\ present' = present \cup {v}
      /\ talks' = [talks EXCEPT ![v] = Extended(held, turn)]
      /\ saved' = [saved EXCEPT ![v] = Append(saved[v], turn)]
  BY <1>1, Entered DEF SaveTurn, Leave, MemoryInv, Away
<1>3. s \in Seq(Turns) /\ turn \in Turns /\ saved[v] \in Seq(Turns)
  BY <1>1 DEF MemoryInv, MemoryTypes
<1>4. PICK n \in 0 .. Len(s) :
        Extended(held, turn).turns = SubSeq(Append(s, turn), n + 1, Len(s) + 1)
  BY <1>3, ExtendedIsLatest
<1>5. /\ talks'[v] = Extended(held, turn) /\ saved'[v] = Append(saved[v], turn)
      /\ DOMAIN talks' = Conversations
      /\ \A u \in Conversations \ {v} : talks'[u] = talks[u] /\ saved'[u] = saved[u]
  BY <1>2 DEF MemoryInv, MemoryTypes
<1>6. Append(saved[v], turn) \in Seq(Turns) /\ Append(saved[v], turn) # << >>
  BY <1>3, AppendProperties
<1>7. v \notin collided => held = talks[v]
  BY <1>1 DEF MemoryInv, HoldsWhatIsStored
<1> HIDE DEF turn, held
<1>8. /\ Append(s, turn) \in Seq(Turns) /\ Len(Append(s, turn)) = Len(s) + 1
      /\ n \in Nat /\ n < Len(s) + 1 /\ Len(s) \in Nat
  <2>1. Len(s) \in Nat /\ Append(s, turn) \in Seq(Turns) /\ Len(Append(s, turn)) = Len(s) + 1
    BY <1>3, LenProperties, AppendProperties
  <2>2. n \in Nat /\ n < Len(s) + 1
    BY <2>1
  <2> QED
    BY <2>1, <2>2
<1>9. talks'[v].turns \in Seq(Turns)
  <2>1. IsEnd(Append(s, turn), Append(s, turn))
    <3>1. \A i \in 1 .. Len(s) + 1 : (Len(s) + 1) - (Len(s) + 1) + i = i
      BY <1>8
    <3>2. Len(s) + 1 <= Len(s) + 1
      BY <1>8
    <3> QED
      BY <1>8, <3>1, <3>2 DEF IsEnd
  <2> QED
    BY <1>4, <1>5, <1>8, <2>1, EndOfEnd
<1>10. MemoryTypes'
  <2>1. CallerTypes'
    BY <1>2 DEF MemoryInv, MemoryTypes, CallerTypes
  <2>2. \A u \in Conversations : talks'[u].turns \in Seq(Turns)
    BY <1>5, <1>9 DEF MemoryInv, MemoryTypes
  <2>3. saved' \in [Conversations -> Seq(Turns)]
    BY <1>2, <1>6 DEF MemoryInv, MemoryTypes
  <2> QED
    BY <1>2, <1>5, <2>1, <2>2, <2>3 DEF MemoryInv, MemoryTypes
<1>11. LatestAreKept'
  <2> SUFFICES ASSUME NEW u \in Conversations \ collided PROVE KeepsLatest(talks[u].turns, u)'
    BY <1>2 DEF LatestAreKept
  <2>1. IsEnd(talks[u].turns, saved[u]) /\ (saved[u] # << >> => talks[u].turns # << >>)
    BY DEF MemoryInv, LatestAreKept, KeepsLatest
  <2>2. CASE u = v
    <3>1. held = talks[v] /\ IsEnd(s, saved[v])
      BY <1>7, <2>1, <2>2
    <3>2. IsEnd(Append(s, turn), Append(saved[v], turn))
      BY <1>3, <3>1, EndWithOneMore
    <3>3. IsEnd(talks'[v].turns, saved'[v]) /\ talks'[v].turns # << >>
      BY <1>4, <1>5, <1>6, <1>8, <3>2, EndOfEnd
    <3> QED
      BY <2>2, <3>3 DEF KeepsLatest
  <2>3. CASE u # v
    BY <1>5, <2>1, <2>3 DEF KeepsLatest
  <2> QED
    BY <2>2, <2>3
<1>12. HoldsWhatIsStored'
  <2> SUFFICES ASSUME storage = "redis", NEW u \in Conversations \ collided, NEW d \in AddingTo(u)'
               PROVE  caller'[d].talk = talks'[u] /\ AddingTo(u)' = {d}
    BY <1>2 DEF HoldsWhatIsStored
  <2>1. d # c /\ d \in Callers /\ d \in AddingTo(u) /\ AddingTo(u)' = AddingTo(u) \ {c}
    BY <1>1, <1>2 DEF AddingTo
  <2>2. caller[d].talk = talks[u] /\ AddingTo(u) = {d}
    BY <2>1 DEF MemoryInv, HoldsWhatIsStored
  <2>3. u # v
    BY <1>1, <2>1, <2>2
  <2> QED
    BY <1>2, <1>5, <2>1, <2>2, <2>3
<1> QED
  BY <1>10, <1>11, <1>12 DEF MemoryInv

LEMMA KeptByClearing ==
    ASSUME MemoryInv, NEW c \in Callers, ClearUserConversations(c)
    PROVE  MemoryInv'
<1>1. PICK where \in {Away} \cup [phase : {"clearing"}, todo : SUBSET Conversations] :
        Enter(c, where)
  <2>1. CASE Leave(c)
    BY <2>1 DEF Leave
  <2>2. CASE Enter(c, [phase |-> "clearing", todo |-> present])
    BY <2>2 DEF MemoryInv, MemoryTypes
  <2>3. ASSUME caller[c].phase = "clearing", NEW v \in caller[c].todo,
               Enter(c, [caller[c] EXCEPT !.todo = @ \ {v}])
        PROVE  [caller[c] EXCEPT !.todo = @ \ {v}] \in
                    [phase : {"clearing"}, todo : SUBSET Conversations]
    BY <2>3 DEF MemoryInv, MemoryTypes, CallerTypes
  <2> QED
    BY <2>1, <2>2, <2>3 DEF ClearUserConversations
<1>2. /\ UNCHANGED <<storage, talks, saved>> /\ collided \subseteq collided'
      /\ present' \subseteq present
  BY DEF ClearUserConversations, Forget
<1>3. /\ DOMAIN caller' = Callers /\ caller'[c] = where
      /\ \A d \in Callers \ {c} : caller'[d] = caller[d]
  BY <1>1, Entered DEF MemoryInv
<1>4. where.phase \in {"away", "clearing"} /\ Away.phase = "away"
  BY <1>1 DEF Away
<1>5. CallerTypes'
  BY <1>1, <1>3, <1>4 DEF MemoryInv, MemoryTypes, CallerTypes
<1>6. MemoryTypes'
  BY <1>2, <1>3, <1>5 DEF MemoryInv, MemoryTypes
<1>7. HoldsWhatIsStored' /\ LatestAreKept'
  <2>1. \A d \in Callers : caller'[d].phase = "adding" => caller'[d] = caller[d]
    BY <1>3, <1>4
  <2> QED
    BY <1>2, <2>1, TurnsStay
<1> QED
  BY <1>6, <1>7 DEF MemoryInv

LEMMA MemoryStepKeeps == MemoryInv /\ [MemoryNext]_memoryVars => MemoryInv'
<1> SUFFICES ASSUME MemoryInv, [MemoryNext]_memoryVars PROVE MemoryInv'
  OBVIOUS
<1>1. CASE UNCHANGED memoryVars
  BY <1>1 DEF memoryVars, MemoryInv, MemoryTypes, CallerTypes, HoldsWhatIsStored,
              LatestAreKept, KeepsLatest, AddingTo
<1> QED
  BY <1>1, KeptByConversations, KeptByAsk, KeptByReply, KeptByReading, KeptBySaving,
     KeptByClearing DEF MemoryNext

\* For every limit of turns and of tokens, any number of requests and both kinds
\* of storage: a conversation nobody deleted, and no two additions to which
\* overlapped, holds the most recent of its turns, the latest among them.
THEOREM LatestTurnsAreKept == MemorySpec => []KeepsTheLatestTurns
<1>1. MemoryInv /\ [MemoryNext]_memoryVars => MemoryInv'
  BY MemoryStepKeeps
<1>2. MemoryInv => KeepsTheLatestTurns
  BY EndIsSuffix DEF MemoryInv, MemoryTypes, LatestAreKept, KeepsLatest, KeepsTheLatestTurns
<1> QED
  BY MemoryStarts, <1>1, <1>2, PTL DEF MemorySpec

-----------------------------------------------------------------------------
(* The tokens of a conversation.                                           *)

TokensOfTurns(turns) == [i \in DOMAIN turns |-> turns[i].tokens]
TokenPart(turns, it, s) ==
    IF s = {} THEN 0 ELSE turns[Picked(s)].tokens + it[s \ {Picked(s)}]
IsTokenSum(it, turns) == it = [s \in SUBSET DOMAIN turns |-> TokenPart(turns, it, s)]

LEMMA TokensAreChosen ==
    ASSUME NEW turns
    PROVE  SumTokens(turns) = (CHOOSE it : IsTokenSum(it, turns))[DOMAIN turns]
  BY DEF SumTokens, FoldSeq, FoldFunction, FoldFunctionOnSet, MapThenFoldSet,
         IsTokenSum, TokenPart, Picked

\* SumTokens adds up what SumFunctionOnSet adds up.
LEMMA TokensAreSum ==
    ASSUME NEW turns, IsFiniteSet(DOMAIN turns)
    PROVE  SumTokens(turns) = SumFunctionOnSet(TokensOfTurns(turns), DOMAIN turns)
<1> DEFINE S == DOMAIN turns
           f == TokensOfTurns(turns)
<1>1. ASSUME NEW it, NEW s \in SUBSET S PROVE TokenPart(turns, it, s) = Partial(f, it, s)
  <2>1. CASE s = {}
    BY <2>1 DEF TokenPart, Partial
  <2>2. CASE s # {}
    <3>1. Picked(s) \in S
      BY <2>2 DEF Picked
    <3>2. f[Picked(s)] = turns[Picked(s)].tokens
      BY <3>1 DEF TokensOfTurns
    <3> HIDE DEF f
    <3> QED
      BY <2>2, <3>2 DEF TokenPart, Partial
  <2> QED
    BY <2>1, <2>2
<1> HIDE DEF f
<1>2. ASSUME NEW it PROVE IsTokenSum(it, turns) <=> IsSum(it, f, S)
  BY <1>1 DEF IsTokenSum, IsSum
<1>3. PICK a : IsTokenSum(a, turns)
  BY <1>2, SumsExist
<1>4. PICK b : b = (CHOOSE it : IsTokenSum(it, turns)) /\ IsTokenSum(b, turns)
  BY <1>3
<1>5. SumFunctionOnSet(f, S) = b[S]
  <2>1. IsSum(b, f, S) /\ IsFiniteSet(S)
    BY <1>2, <1>4
  <2> HIDE DEF S
  <2> QED
    BY <2>1, SumAlong
<1> QED
  BY <1>4, <1>5, TokensAreChosen DEF f

LEMMA TurnTokens == ASSUME NEW turn \in Turns PROVE turn.tokens \in Int
<1>1. ASSUME NEW n \in Chunks, NEW b \in BOOLEAN PROVE TokensUsed(n, b) \in Int
  <2>1. n \in Int
    BY MemoryAssumption
  <2> DEFINE twice == n * (n + 1)
  <2>2. twice \in Int
    BY <2>1
  <2> HIDE DEF twice
  <2>3. twice \div 2 \in Int
    BY <2>2
  <2> QED
    BY <2>1, <2>3 DEF TokensUsed, twice
<1> QED
  BY <1>1 DEF Turns

LEMMA TurnSums ==
    ASSUME NEW turns \in Seq(Turns)
    PROVE  /\ DOMAIN turns = 1 .. Len(turns) /\ Len(turns) \in Nat
           /\ IsFiniteSet(1 .. Len(turns))
           /\ \A i \in 1 .. Len(turns) :
                TokensOfTurns(turns)[i] = turns[i].tokens /\ TokensOfTurns(turns)[i] \in Int
           /\ SumTokens(turns) = SumFunctionOnSet(TokensOfTurns(turns), 1 .. Len(turns))
           /\ SumTokens(turns) \in Int
<1>1. /\ DOMAIN turns = 1 .. Len(turns) /\ Len(turns) \in Nat
      /\ IsFiniteSet(1 .. Len(turns))
  BY LenProperties, FS_Interval
<1>2. \A i \in 1 .. Len(turns) : turns[i] \in Turns
  BY ElementOfSeq
<1>3. \A i \in 1 .. Len(turns) :
        TokensOfTurns(turns)[i] = turns[i].tokens /\ TokensOfTurns(turns)[i] \in Int
  BY <1>1, <1>2, TurnTokens DEF TokensOfTurns
<1>4. SumTokens(turns) = SumFunctionOnSet(TokensOfTurns(turns), 1 .. Len(turns))
  BY <1>1, TokensAreSum
<1>5. SumFunctionOnSet(TokensOfTurns(turns), 1 .. Len(turns)) \in Int
  <2> DEFINE S == 1 .. Len(turns)
             f == TokensOfTurns(turns)
  <2>1. IsFiniteSet(S) /\ \A i \in S : f[i] \in Int
    BY <1>1, <1>3
  <2> HIDE DEF S, f
  <2>2. SumFunctionOnSet(f, S) \in Int
    BY <2>1, SumRemoves
  <2> QED
    BY <2>2 DEF S, f
<1> QED
  BY <1>1, <1>3, <1>4, <1>5

LEMMA TokensOfLonger ==
    ASSUME NEW turns \in Seq(Turns), NEW turn \in Turns
    PROVE  SumTokens(Append(turns, turn)) = SumTokens(turns) + turn.tokens
<1> DEFINE longer == Append(turns, turn)
           n == Len(turns)
           f == TokensOfTurns(longer)
           g == TokensOfTurns(turns)
<1>1. /\ longer \in Seq(Turns) /\ Len(longer) = n + 1 /\ longer[n + 1] = turn
      /\ \A i \in 1 .. n : longer[i] = turns[i]
  BY AppendProperties
<1>2. /\ n \in Nat /\ IsFiniteSet(1 .. n) /\ \A i \in 1 .. n : g[i] = turns[i].tokens
      /\ SumTokens(turns) = SumFunctionOnSet(g, 1 .. n) /\ SumTokens(turns) \in Int
  BY TurnSums
<1> HIDE DEF longer, g
<1>3. /\ \A i \in 1 .. n + 1 : f[i] = longer[i].tokens /\ f[i] \in Int
      /\ SumTokens(longer) = SumFunctionOnSet(f, 1 .. n + 1)
  BY <1>1, TurnSums
<1> HIDE DEF f, n
<1>4. 1 .. n + 1 = (1 .. n) \cup {n + 1} /\ n + 1 \notin 1 .. n
  BY <1>2
<1>5. f[n + 1] = turn.tokens /\ f[n + 1] \in Int /\ \A i \in 1 .. n : f[i] \in Int
  BY <1>1, <1>3, <1>4
<1>6. SumFunctionOnSet(f, (1 .. n) \cup {n + 1}) = f[n + 1] + SumFunctionOnSet(f, 1 .. n)
  BY <1>2, <1>4, <1>5, SumAdds
<1>7. SumFunctionOnSet(f, 1 .. n) = SumFunctionOnSet(g, 1 .. n)
  <2>1. \A i \in 1 .. n : f[i] = g[i]
    BY <1>1, <1>2, <1>3, <1>4
  <2> QED
    BY <1>2, <2>1, SumSame
<1>8. SumTokens(longer) = SumTokens(turns) + turn.tokens
  <2>1. SumTokens(longer) = SumFunctionOnSet(f, (1 .. n) \cup {n + 1})
    BY <1>3, <1>4
  <2>2. SumTokens(longer) = f[n + 1] + SumTokens(turns)
    BY <1>2, <1>6, <1>7, <2>1
  <2>3. turn.tokens \in Int
    BY TurnTokens
  <2>4. SumTokens(longer) = turn.tokens + SumTokens(turns)
    BY <1>5, <2>2
  <2> QED
    BY <1>2, <2>3, <2>4
<1> QED
  BY <1>8 DEF longer

\* Turns that leave from the front take their tokens along.
LEMMA TokensLeave ==
    ASSUME NEW turns \in Seq(Turns), NEW n \in 0 .. Len(turns)
    PROVE  /\ SubSeq(turns, n + 1, Len(turns)) \in Seq(Turns)
           /\ Len(SubSeq(turns, n + 1, Len(turns))) = Len(turns) - n
           /\ SumTokens(SubSeq(turns, n + 1, Len(turns)))
                = SumTokens(turns) - SumTokens(SubSeq(turns, 1, n))
           /\ SumTokens(SubSeq(turns, 1, n)) \in Int
<1> DEFINE len == Len(turns)
           k == len - n
           rest == SubSeq(turns, n + 1, len)
           first == SubSeq(turns, 1, n)
           f == TokensOfTurns(turns)
           g == TokensOfTurns(rest)
           h == TokensOfTurns(first)
<1>1. /\ len \in Nat /\ n \in Nat /\ k \in Nat /\ n + k = len
      /\ 1 .. len = (1 .. n) \cup (n + 1 .. n + k)
      /\ (1 .. n) \cap (n + 1 .. n + k) = {}
  BY LenProperties
<1>2. \A i \in 1 .. len : turns[i] \in Turns
  BY ElementOfSeq
<1> HIDE DEF k
<1>3. rest \in Seq(Turns) /\ Len(rest) = k /\ \A i \in 1 .. k : rest[i] = turns[n + i]
  <2>1. /\ rest \in Seq(Turns)
        /\ Len(rest) = (IF n + 1 <= len THEN len - (n + 1) + 1 ELSE 0)
        /\ \A i \in 1 .. len - (n + 1) + 1 : rest[i] = turns[n + 1 + i - 1]
    <3>1. \A i \in n + 1 .. len : turns[i] \in Turns
      BY <1>1, <1>2
    <3> QED
      BY <1>1, <3>1, SubSeqProperties
  <2>2. /\ len - (n + 1) + 1 = k /\ (IF n + 1 <= len THEN len - (n + 1) + 1 ELSE 0) = k
        /\ \A i \in 1 .. k : n + 1 + i - 1 = n + i
    BY <1>1
  <2> QED
    BY <2>1, <2>2
<1>4. first \in Seq(Turns) /\ Len(first) = n /\ \A i \in 1 .. n : first[i] = turns[i]
  <2>1. /\ first \in Seq(Turns)
        /\ Len(first) = (IF 1 <= n THEN n - 1 + 1 ELSE 0)
        /\ \A i \in 1 .. n - 1 + 1 : first[i] = turns[1 + i - 1]
    <3>1. \A i \in 1 .. n : turns[i] \in Turns
      BY <1>1, <1>2
    <3> QED
      BY <1>1, <3>1, SubSeqProperties
  <2>2. /\ n - 1 + 1 = n /\ (IF 1 <= n THEN n - 1 + 1 ELSE 0) = n
        /\ \A i \in 1 .. n : 1 + i - 1 = i
    BY <1>1
  <2> QED
    BY <2>1, <2>2
<1>5. /\ \A i \in 1 .. len : f[i] = turns[i].tokens /\ f[i] \in Int
      /\ SumTokens(turns) = SumFunctionOnSet(f, 1 .. len)
  BY TurnSums
<1> HIDE DEF rest, first, f, len
<1>6. /\ \A i \in 1 .. k : g[i] = rest[i].tokens /\ g[i] \in Int
      /\ SumTokens(rest) = SumFunctionOnSet(g, 1 .. k) /\ SumTokens(rest) \in Int
  BY <1>3, TurnSums
<1>7. /\ \A i \in 1 .. n : h[i] = first[i].tokens /\ h[i] \in Int
      /\ SumTokens(first) = SumFunctionOnSet(h, 1 .. n) /\ SumTokens(first) \in Int
  BY <1>4, TurnSums
<1> HIDE DEF g, h
<1>8. SumFunctionOnSet(g, 1 .. k) = SumFunctionOnSet(f, n + 1 .. n + k)
  <2>1. ASSUME NEW i \in 1 .. k PROVE g[i] = f[n + i] /\ g[i] \in Int
    <3>1. n + i \in 1 .. len
      BY <1>1
    <3> QED
      BY <1>3, <1>5, <1>6, <3>1
  <2>2. Behind(g, f, n, k)
    BY <2>1 DEF Behind
  <2> QED
    BY <1>1, <2>2, SumShifts
<1>9. SumFunctionOnSet(h, 1 .. n) = SumFunctionOnSet(f, 1 .. n)
  <2>1. ASSUME NEW i \in 1 .. n PROVE h[i] = f[i]
    <3>1. i \in 1 .. len
      BY <1>1
    <3> QED
      BY <1>4, <1>5, <1>7, <3>1
  <2>2. IsFiniteSet(1 .. n)
    BY <1>1, FS_Interval
  <2> QED
    BY <2>1, <2>2, SumSame
<1>10. SumFunctionOnSet(f, 1 .. len)
         = SumFunctionOnSet(f, 1 .. n) + SumFunctionOnSet(f, n + 1 .. n + k)
  <2> DEFINE A == 1 .. n
             B == n + 1 .. n + k
  <2>1. IsFiniteSet(A) /\ IsFiniteSet(B) /\ A \cap B = {} /\ A \cup B = 1 .. len
    BY <1>1, FS_Interval
  <2>2. \A y \in A \cup B : f[y] \in Int
    BY <1>5, <2>1
  <2> HIDE DEF A, B
  <2>3. SumFunctionOnSet(f, A \cup B) = SumFunctionOnSet(f, A) + SumFunctionOnSet(f, B)
    BY <2>1, <2>2, SumOfBoth
  <2> QED
    BY <2>1, <2>3 DEF A, B
<1>11. SumTokens(rest) = SumTokens(turns) - SumTokens(first)
  BY <1>5, <1>6, <1>7, <1>8, <1>9, <1>10
<1> QED
  BY <1>3, <1>7, <1>11 DEF rest, first, len, k

\* The total of a conversation is right and it is within its limits.
Booked(t) ==
    /\ t.totalTokens = SumTokens(t.turns)
    /\ Len(t.turns) <= TurnLimit
    /\ t.totalTokens <= TokenLimit \/ Len(t.turns) = 1

LEMMA NoTokens == SumTokens(<< >>) = 0
<1> DEFINE none == << >>
<1>1. none \in Seq(Turns) /\ 1 .. Len(none) = {}
  OBVIOUS
<1> HIDE DEF none
<1>2. SumTokens(none) = SumFunctionOnSet(TokensOfTurns(none), {})
  BY <1>1, TurnSums
<1>3. SumTokens(none) = 0
  BY <1>2, SumOfNone
<1> QED
  BY <1>3 DEF none

\* addTurn keeps the total right, also where it takes turns away.
LEMMA ExtendedIsBooked ==
    ASSUME NEW t, t.turns \in Seq(Turns), t.totalTokens = SumTokens(t.turns), NEW turn \in Turns
    PROVE  Booked(Extended(t, turn))
<1> DEFINE longer == [turns |-> Append(t.turns, turn),
                      totalTokens |-> t.totalTokens + turn.tokens]
           all == Append(t.turns, turn)
           len == Len(all)
<1>1. all \in Seq(Turns) /\ longer.turns = all /\ len \in Nat \ {0}
  BY LenProperties, AppendProperties
<1>2. longer.totalTokens = SumTokens(all) /\ SumTokens(all) \in Int
  BY <1>1, TokensOfLonger, TurnSums
<1>3. Extended(t, turn) = IF ShouldPrune(longer) THEN PruneConversation(longer) ELSE longer
  BY DEF Extended
<1>4. TurnLimit \in Nat \ {0} /\ TokenLimit \in Nat
  BY MemoryAssumption
<1>5. CASE ~ShouldPrune(longer)
  <2>1. Extended(t, turn) = longer
    BY <1>3, <1>5
  <2> HIDE DEF longer, all
  <2>2. Booked(longer)
    BY <1>1, <1>2, <1>4, <1>5 DEF ShouldPrune, Booked
  <2> QED
    BY <2>1, <2>2
<1>6. CASE ShouldPrune(longer)
  <2> DEFINE Enough(n) == /\ Len(longer.turns) - n <= TurnLimit
                          /\ \/ 2 * Dropping(longer, n).totalTokens <= TokenLimit
                             \/ Len(longer.turns) - n <= 1
             Least(m) == Enough(m) /\ \A k \in 0 .. m - 1 : ~Enough(k)
             n == CHOOSE m \in 0 .. Len(longer.turns) : Least(m)
  <2>1. PruneConversation(longer) = Dropping(longer, n)
    BY DEF PruneConversation
  <2> HIDE DEF longer
  <2>2. Enough(len)
    BY <1>1, <1>4
  <2> HIDE DEF Enough
  <2>3. \E m \in 0 .. Len(longer.turns) : Least(m)
    <3> DEFINE enough == {m \in 0 .. len : Enough(m)}
    <3>1. enough \subseteq Nat /\ len \in enough
      BY <1>1, <2>2
    <3>2. PICK m \in enough : \A k \in enough : m <= k
      BY <3>1, LeastMember
    <3>3. \A k \in 0 .. m - 1 : ~Enough(k)
      BY <1>1, <3>1, <3>2
    <3>4. m \in 0 .. Len(longer.turns)
      BY <1>1
    <3> QED
      BY <3>2, <3>3, <3>4
  <2>4. n \in 0 .. len /\ Enough(n)
    BY <1>1, <2>3
  <2> HIDE DEF n, all
  <2> DEFINE left == Dropping(longer, n)
             rest == SubSeq(all, n + 1, len)
  <2>5. left.turns = rest /\ left.totalTokens = SumTokens(all) - SumTokens(SubSeq(all, 1, n))
    BY <1>1, <1>2 DEF Dropping
  <2>6. /\ rest \in Seq(Turns) /\ Len(rest) = len - n
        /\ SumTokens(rest) = SumTokens(all) - SumTokens(SubSeq(all, 1, n))
    BY <1>1, <2>4, TokensLeave
  <2>7. len - n <= TurnLimit /\ (2 * left.totalTokens <= TokenLimit \/ len - n <= 1)
    BY <1>1, <2>4 DEF Enough
  <2> HIDE DEF left, rest
  <2>8. left.totalTokens = SumTokens(rest) /\ SumTokens(rest) \in Int
    BY <2>5, <2>6, TurnSums
  <2>9. left.totalTokens <= TokenLimit \/ Len(left.turns) = 1
    <3>1. CASE len - n = 0
      <4>1. rest = << >>
        BY <2>6, <3>1, EmptySeq
      <4> QED
        BY <1>4, <2>8, <4>1, NoTokens
    <3>2. CASE len - n # 0
      <4>1. len - n \in Nat \ {0}
        BY <1>1, <2>4, <3>2
      <4> QED
        BY <1>4, <2>5, <2>6, <2>7, <2>8, <4>1
    <3> QED
      BY <3>1, <3>2
  <2>10. Booked(left)
    BY <2>5, <2>6, <2>7, <2>8, <2>9 DEF Booked
  <2> QED
    BY <1>3, <1>6, <2>1, <2>10 DEF left
<1> QED
  BY <1>5, <1>6

\* What is stored is right, and so is every copy that a request has read.
TalksAreBooked ==
    /\ \A v \in Conversations : Booked(talks[v])
    /\ \A c \in Callers : caller[c].phase = "adding" => Booked(caller[c].talk)

LEMMA BookedBySaving ==
    ASSUME MemoryInv, TalksAreBooked, NEW c \in Callers, SaveTurn(c)
    PROVE  TalksAreBooked'
<1> DEFINE v == caller[c].conversation
           turn == caller[c].turn
           held == IF storage = "redis" THEN caller[c].talk ELSE talks[v]
<1>1. /\ v \in Conversations /\ turn \in Turns /\ caller[c].phase = "adding"
      /\ caller[c].talk.turns \in Seq(Turns) /\ talks[v].turns \in Seq(Turns)
  BY DEF SaveTurn, MemoryInv, MemoryTypes, CallerTypes
<1>2. /\ talks' = [talks EXCEPT ![v] = Extended(held, turn)] /\ Enter(c, Away)
  BY DEF SaveTurn, Leave
<1>3. held.turns \in Seq(Turns) /\ held.totalTokens = SumTokens(held.turns)
  BY <1>1 DEF TalksAreBooked, Booked
<1> HIDE DEF held
<1>4. Booked(Extended(held, turn))
  BY <1>1, <1>3, ExtendedIsBooked
<1>5. /\ DOMAIN talks = Conversations /\ talks'[v] = Extended(held, turn)
      /\ \A u \in Conversations \ {v} : talks'[u] = talks[u]
  BY <1>1, <1>2 DEF MemoryInv, MemoryTypes
<1>6. caller'[c] = Away /\ Away.phase = "away" /\ \A d \in Callers \ {c} : caller'[d] = caller[d]
  BY <1>2, Entered DEF MemoryInv, Away
<1> HIDE DEF v, turn
<1>7. ASSUME NEW u \in Conversations PROVE Booked(talks'[u])
  BY <1>4, <1>5 DEF TalksAreBooked
<1>8. ASSUME NEW d \in Callers, caller'[d].phase = "adding" PROVE Booked(caller'[d].talk)
  BY <1>6, <1>8 DEF TalksAreBooked
<1> QED
  BY <1>7, <1>8 DEF TalksAreBooked, Booked, SumTokens, FoldSeq, FoldFunction,
     FoldFunctionOnSet, MapThenFoldSet


\* A step that leaves the turns alone keeps what is said of them.
LEMMA BookedByOthers ==
    ASSUME TalksAreBooked, talks' = talks,
           \A c \in Callers : caller'[c].phase = "adding" =>
                caller'[c] = caller[c] \/ \E v \in Conversations : caller'[c].talk = talks[v]
    PROVE  TalksAreBooked'
<1>1. ASSUME NEW c \in Callers, caller'[c].phase = "adding" PROVE Booked(caller'[c].talk)
  BY <1>1 DEF TalksAreBooked
<1>2. \A v \in Conversations : Booked(talks'[v])
  BY DEF TalksAreBooked
<1> QED
  BY <1>1, <1>2 DEF TalksAreBooked, Booked, SumTokens, FoldSeq, FoldFunction,
     FoldFunctionOnSet, MapThenFoldSet

\* For all limits, whatever requests overlap, are lost or write over each other:
\* totalTokens is the sum over the turns a conversation has, and what is kept is
\* within the limits, or a single turn that exceeds them.
THEOREM TotalsAreRight == MemorySpec => []TotalsMatchTurns
<1>1. MemoryInit => TalksAreBooked
  <2> SUFFICES ASSUME MemoryInit PROVE TalksAreBooked
    OBVIOUS
  <2>1. \A v \in Conversations : talks[v] = NewTalk
    BY DEF MemoryInit
  <2>2. \A c \in Callers : caller[c].phase = "away"
    BY DEF MemoryInit, Away
  <2>3. Booked(NewTalk)
    <3>1. NewTalk.turns = << >> /\ NewTalk.totalTokens = 0 /\ Len(<< >>) = 0
      BY DEF NewTalk
    <3>2. NewTalk.totalTokens = SumTokens(NewTalk.turns)
      BY <3>1, NoTokens
    <3> QED
      BY <3>1, <3>2, MemoryAssumption DEF Booked
  <2> QED
    BY <2>1, <2>2, <2>3 DEF TalksAreBooked
<1>2. MemoryInv /\ TalksAreBooked /\ [MemoryNext]_memoryVars => TalksAreBooked'
  <2> SUFFICES ASSUME MemoryInv, TalksAreBooked, [MemoryNext]_memoryVars PROVE TalksAreBooked'
    OBVIOUS
  <2>1. ASSUME NEW v \in Conversations,
               CreateConversation(v) \/ DeleteConversation(v) \/ Expire(v)
        PROVE  TalksAreBooked'
    BY <2>1, BookedByOthers DEF CreateConversation, DeleteConversation, Expire, Forget
  <2>2. ASSUME NEW c \in Callers, NEW where, Enter(c, where), talks' = talks,
               where.phase = "adding" => \E v \in Conversations : where.talk = talks[v]
        PROVE  TalksAreBooked'
    <3>1. caller'[c] = where /\ \A d \in Callers \ {c} : caller'[d] = caller[d]
      BY <2>2, Entered DEF MemoryInv
    <3> QED
      BY <2>2, <3>1, BookedByOthers
  <2>3. ASSUME NEW c \in Callers, NEW v \in Conversations, NEW streamed \in BOOLEAN,
               Ask(c, v, streamed)
        PROVE  TalksAreBooked'
    BY <2>2, <2>3 DEF Ask
  <2>4. ASSUME NEW c \in Callers, Leave(c), talks' = talks PROVE TalksAreBooked'
    BY <2>2, <2>4 DEF Leave, Away
  <2>5. ASSUME NEW c \in Callers, GenerateReply(c) PROVE TalksAreBooked'
    BY <2>2, <2>4, <2>5 DEF GenerateReply
  <2>6. ASSUME NEW c \in Callers, ReadForTurn(c) PROVE TalksAreBooked'
    <3>1. caller[c].conversation \in Conversations
      BY <2>6 DEF ReadForTurn, MemoryInv, MemoryTypes, CallerTypes
    <3> QED
      BY <2>2, <2>4, <2>6, <3>1 DEF ReadForTurn
  <2>7. ASSUME NEW c \in Callers, ClearUserConversations(c) PROVE TalksAreBooked'
    <3>1. talks' = talks
      BY <2>7 DEF ClearUserConversations, Forget
    <3>2. CASE Leave(c)
      BY <2>4, <3>1, <3>2
    <3>3. CASE Enter(c, [phase |-> "clearing", todo |-> present])
      BY <2>2, <3>1, <3>3
    <3>4. ASSUME caller[c].phase = "clearing", NEW v \in caller[c].todo,
                 Enter(c, [caller[c] EXCEPT !.todo = @ \ {v}])
          PROVE  TalksAreBooked'
      <4>1. [caller[c] EXCEPT !.todo = @ \ {v}].phase = "clearing"
        BY <3>4 DEF MemoryInv, MemoryTypes, CallerTypes
      <4> QED
        BY <2>2, <3>1, <3>4, <4>1
    <3> QED
      BY <2>7, <3>2, <3>3, <3>4 DEF ClearUserConversations
  <2>8. CASE UNCHANGED memoryVars
    BY <2>8, BookedByOthers DEF memoryVars
  <2> QED
    BY <2>1, <2>3, <2>5, <2>6, <2>7, <2>8, BookedBySaving DEF MemoryNext
<1>3. MemoryInv /\ [MemoryNext]_memoryVars => MemoryInv'
  BY MemoryStepKeeps
<1>4. TalksAreBooked => TotalsMatchTurns
  BY DEF TalksAreBooked, Booked, TotalsMatchTurns
<1> QED
  BY MemoryStarts, <1>1, <1>2, <1>3, <1>4, PTL DEF MemorySpec

-----------------------------------------------------------------------------
(* The requests to the model.                                              *)

Kinds == {"notification", "completion", "rag"}
Spans == {"rag", "retrieval", "llm"}
Answers == [prompt : Prompts, settings : Settings, tokens : Nat, cost : Nat]
Fields == {"phase", "kind", "prompt", "settings", "attempt", "answer"}
RequestPhases ==
    {"idle", "retrieve", "lookup", "attempt", "keep", "answered", "failed", "store"}

\* What is known of a request under way.
Sound(q) ==
    /\ q.phase \in RequestPhases
    /\ q.phase # "idle" => /\ DOMAIN q = Fields /\ q.kind \in Kinds
                           /\ q.prompt \in Prompts /\ q.settings \in Settings
    /\ q.phase = "retrieve" => UsesRetrieval(q.kind)
    /\ q.phase = "attempt" => q.attempt \in 1 .. MaxAttempts
    /\ q.phase \in {"keep", "answered"} => q.answer \in Answers
    /\ q.phase = "store" => q.answer.cost \in Nat /\ q.kind = "notification"

AITypes ==
    /\ answers \in [CacheKeys -> Answers \cup {NoAnswer}]
    /\ DOMAIN request = Prompters /\ \A r \in Prompters : Sound(request[r])
    /\ IsFiniteSet({r \in Prompters : request[r].phase # "idle"})
    /\ metrics \in [success : Nat, error : Nat, errors : Nat]
    /\ attempts \in [answered : Nat, failed : Nat]
    /\ started \in Nat
    /\ tracked \in Seq(Nat) /\ stored \in Seq(Nat)
    /\ openSpans \in [rag : Int, retrieval : Int, llm : Int]
    /\ spent \in [notification : Nat, completion : Nat, rag : Nat]
    /\ lost \in [evicted : Nat, unstored : Nat, retrievals : Nat]

\* The requests in some phases, those that retrieve, and those whose cost is due.
InPhases(phases) == {r \in Prompters : request[r].phase \in phases}
Retrieving(phases) ==
    {r \in Prompters : request[r].phase \in phases /\ UsesRetrieval(request[r].kind)}
Due(kind, phases) ==
    {r \in Prompters : request[r].phase \in phases /\ request[r].kind = kind}

\* Attempts that failed before the one that is under way.
Failed == [r \in Prompters |-> request[r].attempt - 1]
FailedSoFar == SumFunctionOnSet(Failed, InPhases({"attempt"}))

\* Every error belongs to a request that ended, or to one that is still trying.
ErrorsAreBounded ==
    metrics.errors <= MaxAttempts * (metrics.error + metrics.success) + FailedSoFar

CallsAreCounted ==
    /\ metrics.success = attempts.answered
    /\ metrics.errors = attempts.failed
    /\ metrics.error + lost.retrievals + metrics.success
        + Cardinality(InPhases({"retrieve", "lookup", "attempt"})) <= started

AIInv ==
    /\ AITypes /\ SpendIsAccountedFor /\ EverySpanEnds
    /\ CallsAreCounted /\ ErrorsAreBounded

\* What one request adds to a count, to what is due, and to the failed attempts.
One(q, phases) == IF q.phase \in phases THEN 1 ELSE 0
OneRetrieving(q, phases) == IF q.phase \in phases /\ UsesRetrieval(q.kind) THEN 1 ELSE 0
Share(q, kind, phases) ==
    IF q.phase \in phases /\ q.kind = kind
    THEN IF q.phase = "failed" THEN 0 ELSE q.answer.cost ELSE 0
FailedBy(q) == IF q.phase = "attempt" THEN q.attempt - 1 ELSE 0

\* What x adds to the sum over S.
Part(f, S, x) == IF x \in S THEN f[x] ELSE 0

LEMMA SumWithout ==
    ASSUME NEW f, NEW S, IsFiniteSet(S), \A y \in S : f[y] \in Int, NEW x
    PROVE  /\ SumFunctionOnSet(f, S \ {x}) \in Int
           /\ SumFunctionOnSet(f, S)
                = Part(f, S, x) + SumFunctionOnSet(f, S \ {x})
<1> DEFINE R == S \ {x}
<1>1. IsFiniteSet(R) /\ \A y \in R : f[y] \in Int
  BY FS_Subset
<1>2. SumFunctionOnSet(f, R) \in Int
  <2> HIDE DEF R
  <2> QED
    BY <1>1, SumRemoves
<1>3. CASE x \in S
  BY <1>2, <1>3, SumRemoves DEF Part
<1>4. CASE x \notin S
  <2>1. R = S
    BY <1>4
  <2>2. Part(f, S, x) = 0
    BY <1>4 DEF Part
  <2> HIDE DEF R
  <2>3. SumFunctionOnSet(f, S) = 0 + SumFunctionOnSet(f, R)
    BY <1>2, <2>1
  <2> QED
    BY <1>2, <2>2, <2>3 DEF R
<1> QED
  BY <1>3, <1>4

LEMMA SizesDiffer ==
    ASSUME NEW S, NEW T, NEW x, IsFiniteSet(S), IsFiniteSet(T), S \ {x} = T \ {x}
    PROVE  /\ Cardinality(S) \in Nat /\ Cardinality(T) \in Nat
           /\ Cardinality(T) - (IF x \in T THEN 1 ELSE 0)
                = Cardinality(S) - (IF x \in S THEN 1 ELSE 0)
<1>1. ASSUME NEW U, IsFiniteSet(U)
      PROVE  /\ Cardinality(U) \in Nat
             /\ Cardinality(U) - (IF x \in U THEN 1 ELSE 0) = Cardinality(U \ {x})
  <2>1. Cardinality(U) \in Nat
    BY <1>1, FS_CardinalityType
  <2>2. CASE x \in U
    BY <1>1, <2>1, <2>2, FS_RemoveElement
  <2>3. CASE x \notin U
    <3>1. U \ {x} = U
      BY <2>3
    <3>2. (IF x \in U THEN 1 ELSE 0) = 0
      BY <2>3
    <3>3. Cardinality(U \ {x}) = Cardinality(U)
      BY <3>1
    <3>4. Cardinality(U) - 0 = Cardinality(U)
      BY <2>1
    <3> QED
      BY <2>1, <3>2, <3>3, <3>4
  <2> QED
    BY <2>1, <2>2, <2>3
<1> QED
  BY <1>1

\* A step that changes one request changes the counts and the sums by what that
\* request adds to them before and after.
LEMMA PendingIsSum ==
    ASSUME NEW kind, NEW phases
    PROVE  /\ Pending(kind, phases)
                = SumFunctionOnSet([r \in Prompters |->
                    IF r \in Due(kind, phases) THEN Cost(r) ELSE 0], Due(kind, phases))
           /\ Pending(kind, phases)'
                = SumFunctionOnSet([r \in Prompters |->
                    IF r \in Due(kind, phases)' THEN Cost(r)' ELSE 0], Due(kind, phases)')
<1>1. Pending(kind, phases)
        = SumFunctionOnSet([r \in Prompters |->
            IF r \in Due(kind, phases) THEN Cost(r) ELSE 0], Due(kind, phases))
  BY DEF Pending, Due, SumFunctionOnSet
<1>2. Pending(kind, phases)'
        = SumFunctionOnSet([r \in Prompters |->
            IF r \in Due(kind, phases)' THEN Cost(r)' ELSE 0], Due(kind, phases)')
  BY DEF Pending, Due, SumFunctionOnSet, FoldFunctionOnSet, MapThenFoldSet
<1> QED
  BY <1>1, <1>2

Owed == {"keep", "answered", "store"}

LEMMA SlotMoves ==
    ASSUME AITypes, NEW r \in Prompters, NEW w, Sound(w),
           request' = [request EXCEPT ![r] = w]
    PROVE  /\ DOMAIN request' = Prompters /\ \A q \in Prompters : Sound(request'[q])
           /\ IsFiniteSet({q \in Prompters : request'[q].phase # "idle"})
           /\ request'[r] = w
           /\ \A q \in Prompters \ {r} : request'[q] = request[q]
<1>1. /\ DOMAIN request' = Prompters /\ request'[r] = w
      /\ \A q \in Prompters \ {r} : request'[q] = request[q]
  BY DEF AITypes
<1>2. \A q \in Prompters : Sound(request'[q])
  BY <1>1 DEF AITypes
<1>3. IsFiniteSet({q \in Prompters : request[q].phase # "idle"} \cup {r})
  BY FS_AddElement DEF AITypes
<1>4. {q \in Prompters : request'[q].phase # "idle"}
        \subseteq {q \in Prompters : request[q].phase # "idle"} \cup {r}
  BY <1>1
<1>5. IsFiniteSet({q \in Prompters : request'[q].phase # "idle"})
  BY <1>3, <1>4, FS_Subset
<1> QED
  BY <1>1, <1>2, <1>5

Working == RequestPhases \ {"idle"}

LEMMA SlotCounts ==
    ASSUME AITypes, NEW r \in Prompters, NEW w, Sound(w),
           request' = [request EXCEPT ![r] = w], NEW phases \in SUBSET Working
    PROVE  /\ Cardinality(InPhases(phases)) \in Nat
           /\ Cardinality(InPhases(phases)') \in Nat
           /\ Cardinality(InPhases(phases)') - One(w, phases)
                = Cardinality(InPhases(phases)) - One(request[r], phases)
           /\ Cardinality(Retrieving(phases)) \in Nat
           /\ Cardinality(Retrieving(phases)') \in Nat
           /\ Cardinality(Retrieving(phases)') - OneRetrieving(w, phases)
                = Cardinality(Retrieving(phases)) - OneRetrieving(request[r], phases)
<1>1. /\ IsFiniteSet({q \in Prompters : request'[q].phase # "idle"})
      /\ request'[r] = w
      /\ \A q \in Prompters \ {r} : request'[q] = request[q]
  BY SlotMoves
<1>2. IsFiniteSet({q \in Prompters : request[q].phase # "idle"})
  BY DEF AITypes
<1>3. /\ InPhases(phases) \subseteq {q \in Prompters : request[q].phase # "idle"}
      /\ InPhases(phases)' \subseteq {q \in Prompters : request'[q].phase # "idle"}
      /\ Retrieving(phases) \subseteq InPhases(phases)
      /\ Retrieving(phases)' \subseteq InPhases(phases)'
  BY DEF InPhases, Retrieving, Working, RequestPhases
<1>4. /\ IsFiniteSet(InPhases(phases)) /\ IsFiniteSet(InPhases(phases)')
      /\ IsFiniteSet(Retrieving(phases)) /\ IsFiniteSet(Retrieving(phases)')
  BY <1>1, <1>2, <1>3, FS_Subset
<1>5. /\ InPhases(phases) \ {r} = InPhases(phases)' \ {r}
      /\ Retrieving(phases) \ {r} = Retrieving(phases)' \ {r}
  BY <1>1 DEF InPhases, Retrieving, UsesRetrieval
<1>6. /\ One(request[r], phases) = IF r \in InPhases(phases) THEN 1 ELSE 0
      /\ One(w, phases) = IF r \in InPhases(phases)' THEN 1 ELSE 0
      /\ OneRetrieving(request[r], phases) = IF r \in Retrieving(phases) THEN 1 ELSE 0
      /\ OneRetrieving(w, phases) = IF r \in Retrieving(phases)' THEN 1 ELSE 0
  BY <1>1 DEF InPhases, Retrieving, One, OneRetrieving, UsesRetrieval
<1>7. /\ Cardinality(InPhases(phases)) \in Nat
      /\ Cardinality(InPhases(phases)') \in Nat
      /\ Cardinality(InPhases(phases)') - (IF r \in InPhases(phases)' THEN 1 ELSE 0)
           = Cardinality(InPhases(phases)) - (IF r \in InPhases(phases) THEN 1 ELSE 0)
  BY <1>4, <1>5, SizesDiffer
<1>8. /\ Cardinality(Retrieving(phases)) \in Nat
      /\ Cardinality(Retrieving(phases)') \in Nat
      /\ Cardinality(Retrieving(phases)') - (IF r \in Retrieving(phases)' THEN 1 ELSE 0)
           = Cardinality(Retrieving(phases)) - (IF r \in Retrieving(phases) THEN 1 ELSE 0)
  BY <1>4, <1>5, SizesDiffer
<1> QED
  BY <1>6, <1>7, <1>8

LEMMA SlotOwes ==
    ASSUME AITypes, NEW r \in Prompters, NEW w, Sound(w),
           request' = [request EXCEPT ![r] = w], NEW kind, NEW phases \in SUBSET Owed
    PROVE  /\ Pending(kind, phases) \in Int /\ Pending(kind, phases)' \in Int
           /\ Pending(kind, phases)' - Share(w, kind, phases)
                = Pending(kind, phases) - Share(request[r], kind, phases)
<1> DEFINE S == Due(kind, phases)
           T == Due(kind, phases)'
           f == [q \in Prompters |-> IF q \in S THEN Cost(q) ELSE 0]
           g == [q \in Prompters |-> IF q \in T THEN Cost(q)' ELSE 0]
<1>1. /\ IsFiniteSet({q \in Prompters : request'[q].phase # "idle"})
      /\ request'[r] = w
      /\ \A q \in Prompters : Sound(request'[q])
      /\ \A q \in Prompters \ {r} : request'[q] = request[q]
  BY SlotMoves
<1>2. /\ IsFiniteSet({q \in Prompters : request[q].phase # "idle"})
      /\ \A q \in Prompters : Sound(request[q])
  BY DEF AITypes
<1>3. /\ S \subseteq {q \in Prompters : request[q].phase # "idle"}
      /\ T \subseteq {q \in Prompters : request'[q].phase # "idle"}
  BY DEF Due, Owed
<1>4. IsFiniteSet(S) /\ IsFiniteSet(T)
  BY <1>1, <1>2, <1>3, FS_Subset
<1>5. S \ {r} = T \ {r}
  BY <1>1 DEF Due
<1>6. ASSUME NEW q \in S PROVE f[q] = request[q].answer.cost /\ f[q] \in Int
  <2>1. request[q].phase \in Owed
    BY DEF Due
  <2>2. Cost(q) = request[q].answer.cost /\ f[q] = Cost(q)
    BY <2>1 DEF Owed, Cost, Stage, Due
  <2>3. Sound(request[q])
    BY <1>2 DEF Due
  <2>4. request[q].answer.cost \in Nat
    BY <2>1, <2>3 DEF Sound, Owed, Answers
  <2> QED
    BY <2>2, <2>4
<1>7. ASSUME NEW q \in T PROVE g[q] = request'[q].answer.cost /\ g[q] \in Int
  <2>1. request'[q].phase \in Owed
    BY DEF Due
  <2>2. Cost(q)' = request'[q].answer.cost /\ g[q] = Cost(q)'
    BY <2>1 DEF Owed, Cost, Stage, Due
  <2>3. Sound(request'[q])
    BY <1>1 DEF Due
  <2>4. request'[q].answer.cost \in Nat
    BY <2>1, <2>3 DEF Sound, Owed, Answers
  <2> QED
    BY <2>2, <2>4
<1>8. \A q \in S \ {r} : f[q] = g[q]
  BY <1>1, <1>5, <1>6, <1>7 DEF Due
<1>9. Share(request[r], kind, phases) = Part(f, S, r)
  BY <1>6 DEF Share, Due, Owed, Part
<1>10. Share(w, kind, phases) = Part(g, T, r)
  BY <1>1, <1>7 DEF Share, Due, Owed, Part
<1>11. /\ Pending(kind, phases) = SumFunctionOnSet(f, S)
       /\ Pending(kind, phases)' = SumFunctionOnSet(g, T)
  BY PendingIsSum
<1> HIDE DEF S, T, f, g
<1>12. /\ SumFunctionOnSet(f, S \ {r}) \in Int
       /\ SumFunctionOnSet(f, S)
            = Part(f, S, r) + SumFunctionOnSet(f, S \ {r})
  <2>1. \A y \in S : f[y] \in Int
    BY <1>6
  <2>2. SumFunctionOnSet(f, S \ {r}) \in Int
    BY <1>4, <2>1, SumWithout
  <2>3. SumFunctionOnSet(f, S)
          = Part(f, S, r) + SumFunctionOnSet(f, S \ {r})
    BY <1>4, <2>1, SumWithout
  <2> QED
    BY <2>2, <2>3
<1>13. /\ SumFunctionOnSet(g, T \ {r}) \in Int
       /\ SumFunctionOnSet(g, T)
            = Part(g, T, r) + SumFunctionOnSet(g, T \ {r})
  <2>1. \A y \in T : g[y] \in Int
    BY <1>7
  <2>2. SumFunctionOnSet(g, T \ {r}) \in Int
    BY <1>4, <2>1, SumWithout
  <2>3. SumFunctionOnSet(g, T)
          = Part(g, T, r) + SumFunctionOnSet(g, T \ {r})
    BY <1>4, <2>1, SumWithout
  <2> QED
    BY <2>2, <2>3
<1>14. SumFunctionOnSet(f, S \ {r}) = SumFunctionOnSet(g, T \ {r})
  <2> DEFINE R == S \ {r}
  <2>1. IsFiniteSet(R) /\ \A q \in R : f[q] = g[q]
    BY <1>4, <1>8, FS_Subset
  <2> HIDE DEF R
  <2>2. SumFunctionOnSet(f, R) = SumFunctionOnSet(g, R)
    BY <2>1, SumSame
  <2> QED
    BY <1>5, <2>2 DEF R
<1>15. Part(f, S, r) \in Int /\ Part(g, T, r) \in Int
  BY <1>6, <1>7 DEF Part
<1> QED
  BY <1>9, <1>10, <1>11, <1>12, <1>13, <1>14, <1>15

LEMMA SlotFailed ==
    ASSUME AITypes, NEW r \in Prompters, NEW w, Sound(w),
           request' = [request EXCEPT ![r] = w]
    PROVE  /\ FailedSoFar \in Int /\ FailedSoFar' \in Int
           /\ FailedSoFar' - FailedBy(w) = FailedSoFar - FailedBy(request[r])
<1> DEFINE S == InPhases({"attempt"})
           T == InPhases({"attempt"})'
           f == [q \in Prompters |-> request[q].attempt - 1]
           g == [q \in Prompters |-> request'[q].attempt - 1]
<1>1. /\ IsFiniteSet({q \in Prompters : request'[q].phase # "idle"})
      /\ request'[r] = w
      /\ \A q \in Prompters : Sound(request'[q])
      /\ \A q \in Prompters \ {r} : request'[q] = request[q]
  BY SlotMoves
<1>2. /\ IsFiniteSet({q \in Prompters : request[q].phase # "idle"})
      /\ \A q \in Prompters : Sound(request[q])
  BY DEF AITypes
<1>3. /\ S \subseteq {q \in Prompters : request[q].phase # "idle"}
      /\ T \subseteq {q \in Prompters : request'[q].phase # "idle"}
  BY DEF InPhases
<1>4. IsFiniteSet(S) /\ IsFiniteSet(T)
  BY <1>1, <1>2, <1>3, FS_Subset
<1>5. S \ {r} = T \ {r}
  BY <1>1 DEF InPhases
<1>6. ASSUME NEW q \in S PROVE f[q] = request[q].attempt - 1 /\ f[q] \in Int
  BY <1>2 DEF InPhases, Sound, MaxAttempts
<1>7. ASSUME NEW q \in T PROVE g[q] = request'[q].attempt - 1 /\ g[q] \in Int
  BY <1>1 DEF InPhases, Sound, MaxAttempts
<1>8. \A q \in S \ {r} : f[q] = g[q]
  BY <1>1, <1>5, <1>6, <1>7 DEF InPhases
<1>9. FailedBy(request[r]) = Part(f, S, r)
  BY <1>6 DEF FailedBy, InPhases, Part
<1>10. FailedBy(w) = Part(g, T, r)
  BY <1>1, <1>7 DEF FailedBy, InPhases, Part
<1>11. /\ FailedSoFar = SumFunctionOnSet(f, S)
       /\ FailedSoFar' = SumFunctionOnSet(g, T)
  BY DEF FailedSoFar, Failed, SumFunctionOnSet, FoldFunctionOnSet, MapThenFoldSet
<1> HIDE DEF S, T, f, g
<1>12. /\ SumFunctionOnSet(f, S \ {r}) \in Int
       /\ SumFunctionOnSet(f, S)
            = Part(f, S, r) + SumFunctionOnSet(f, S \ {r})
  <2>1. \A y \in S : f[y] \in Int
    BY <1>6
  <2>2. SumFunctionOnSet(f, S \ {r}) \in Int
    BY <1>4, <2>1, SumWithout
  <2>3. SumFunctionOnSet(f, S)
          = Part(f, S, r) + SumFunctionOnSet(f, S \ {r})
    BY <1>4, <2>1, SumWithout
  <2> QED
    BY <2>2, <2>3
<1>13. /\ SumFunctionOnSet(g, T \ {r}) \in Int
       /\ SumFunctionOnSet(g, T)
            = Part(g, T, r) + SumFunctionOnSet(g, T \ {r})
  <2>1. \A y \in T : g[y] \in Int
    BY <1>7
  <2>2. SumFunctionOnSet(g, T \ {r}) \in Int
    BY <1>4, <2>1, SumWithout
  <2>3. SumFunctionOnSet(g, T)
          = Part(g, T, r) + SumFunctionOnSet(g, T \ {r})
    BY <1>4, <2>1, SumWithout
  <2> QED
    BY <2>2, <2>3
<1>14. SumFunctionOnSet(f, S \ {r}) = SumFunctionOnSet(g, T \ {r})
  <2> DEFINE R == S \ {r}
  <2>1. IsFiniteSet(R) /\ \A q \in R : f[q] = g[q]
    BY <1>4, <1>8, FS_Subset
  <2> HIDE DEF R
  <2>2. SumFunctionOnSet(f, R) = SumFunctionOnSet(g, R)
    BY <2>1, SumSame
  <2> QED
    BY <1>5, <2>2 DEF R
<1>15. Part(f, S, r) \in Int /\ Part(g, T, r) \in Int
  BY <1>6, <1>7 DEF Part
<1> QED
  BY <1>9, <1>10, <1>11, <1>12, <1>13, <1>14, <1>15

\* The costs of a sequence.
LEMMA CostsAreSum ==
    ASSUME NEW entries
    PROVE  SumCosts(entries) = SumFunctionOnSet(entries, DOMAIN entries)
  BY DEF SumCosts, FoldSeq, FoldFunction, SumFunctionOnSet, FoldFunctionOnSet, MapThenFoldSet

LEMMA CostsInt ==
    ASSUME NEW entries \in Seq(Nat)
    PROVE  SumCosts(entries) \in Int
<1>1. IsFiniteSet(DOMAIN entries) /\ \A i \in DOMAIN entries : entries[i] \in Int
  BY FS_Interval
<1>2. SumFunctionOnSet(entries, DOMAIN entries) \in Int
  BY <1>1, SumRemoves
<1> QED
  BY <1>2, CostsAreSum

LEMMA CostsOfLonger ==
    ASSUME NEW entries \in Seq(Nat), NEW cost \in Nat
    PROVE  SumCosts(Append(entries, cost)) = SumCosts(entries) + cost
<1> DEFINE longer == Append(entries, cost)
           n == Len(entries)
<1>1. /\ DOMAIN entries = 1 .. n /\ DOMAIN longer = (1 .. n) \cup {n + 1}
      /\ n \in Nat /\ n + 1 \notin 1 .. n
      /\ longer[n + 1] = cost /\ \A i \in 1 .. n : longer[i] = entries[i]
      /\ \A i \in 1 .. n : longer[i] \in Int
  OBVIOUS
<1> HIDE DEF longer, n
<1>2. IsFiniteSet(1 .. n)
  BY <1>1, FS_Interval
<1>3. SumFunctionOnSet(longer, (1 .. n) \cup {n + 1})
        = longer[n + 1] + SumFunctionOnSet(longer, 1 .. n)
  <2>1. longer[n + 1] \in Int /\ n + 1 \notin 1 .. n
    BY <1>1
  <2>2. \A y \in 1 .. n : longer[y] \in Int
    BY <1>1
  <2> QED
    BY <1>2, <2>1, <2>2, SumAdds
<1>4. SumFunctionOnSet(longer, 1 .. n) = SumFunctionOnSet(entries, 1 .. n)
  BY <1>1, <1>2, SumSame
<1>5. SumCosts(entries) = SumFunctionOnSet(entries, 1 .. n)
  BY <1>1, CostsAreSum
<1>6. SumCosts(longer) = SumFunctionOnSet(longer, (1 .. n) \cup {n + 1})
  BY <1>1, CostsAreSum
<1>7. SumCosts(entries) \in Int
  BY CostsInt
<1>8. SumCosts(longer) = SumCosts(entries) + cost
  BY <1>1, <1>3, <1>4, <1>5, <1>6, <1>7
<1> QED
  BY <1>8 DEF longer

LEMMA CostsOfTail ==
    ASSUME NEW entries \in Seq(Nat), entries # << >>
    PROVE  SumCosts(Tail(entries)) = SumCosts(entries) - Head(entries)
<1> DEFINE rest == Tail(entries)
           n == Len(entries) - 1
           m == 1
           others == m + 1 .. m + n
<1>1. n \in Nat /\ DOMAIN entries = others \cup {1} /\ 1 \notin others
  <2>1. Len(entries) \in Nat /\ Len(entries) >= 1 /\ DOMAIN entries = 1 .. Len(entries)
    OBVIOUS
  <2>2. others = 2 .. Len(entries)
    BY <2>1
  <2> QED
    BY <2>1, <2>2
<1>2. rest \in Seq(Nat) /\ DOMAIN rest = 1 .. n
  OBVIOUS
<1>3. m \in Nat /\ \A i \in 1 .. n : rest[i] = entries[m + i] /\ rest[i] \in Int
  OBVIOUS
<1>4. /\ entries[1] \in Int /\ Head(entries) = entries[1]
      /\ \A i \in others : entries[i] \in Int
  BY <1>1
<1>5. IsFiniteSet(others)
  BY <1>1, FS_Interval
<1> HIDE DEF rest, n
<1>6. SumFunctionOnSet(rest, 1 .. n) = SumFunctionOnSet(entries, others)
  <2> HIDE DEF m
  <2>1. m \in Nat /\ n \in Nat
    BY <1>1, <1>3
  <2>2. Behind(rest, entries, m, n)
    BY <1>3 DEF Behind
  <2>3. SumFunctionOnSet(rest, 1 .. n) = SumFunctionOnSet(entries, m + 1 .. m + n)
    BY <2>1, <2>2, SumShifts
  <2> QED
    BY <2>3
<1> HIDE DEF others
<1>7. SumFunctionOnSet(entries, others \cup {1}) = entries[1] + SumFunctionOnSet(entries, others)
  BY <1>1, <1>4, <1>5, SumAdds
<1>8. SumCosts(rest) = SumFunctionOnSet(rest, 1 .. n)
  BY <1>2, CostsAreSum
<1>9. SumCosts(entries) = SumFunctionOnSet(entries, others \cup {1})
  BY <1>1, CostsAreSum
<1>10. SumCosts(rest) \in Int
  BY <1>2, CostsInt
<1>11. SumCosts(rest) = SumCosts(entries) - Head(entries)
  BY <1>4, <1>6, <1>7, <1>8, <1>9, <1>10
<1> QED
  BY <1>11 DEF rest

RagPhases == {"retrieve", "lookup", "attempt", "keep"}
Unanswered == {"retrieve", "lookup", "attempt"}
AllDue == Unbooked \cup {"store"}

LEMMA SpansCount ==
    /\ EverySpanEnds <=>
         /\ openSpans.llm = Cardinality(InPhases({"attempt"}))
         /\ openSpans.rag = Cardinality(Retrieving(RagPhases))
         /\ openSpans.retrieval = Cardinality(InPhases({"retrieve"})) + lost.retrievals
    /\ EverySpanEnds' <=>
         /\ openSpans'.llm = Cardinality(InPhases({"attempt"})')
         /\ openSpans'.rag = Cardinality(Retrieving(RagPhases)')
         /\ openSpans'.retrieval = Cardinality(InPhases({"retrieve"})') + lost'.retrievals
  BY DEF EverySpanEnds, InPhases, Retrieving, RagPhases

\* The types of what is not a request.
BookTypes ==
    /\ answers \in [CacheKeys -> Answers \cup {NoAnswer}]
    /\ metrics \in [success : Nat, error : Nat, errors : Nat]
    /\ attempts \in [answered : Nat, failed : Nat]
    /\ started \in Nat
    /\ tracked \in Seq(Nat) /\ stored \in Seq(Nat)
    /\ openSpans \in [rag : Int, retrieval : Int, llm : Int]
    /\ spent \in [notification : Nat, completion : Nat, rag : Nat]
    /\ lost \in [evicted : Nat, unstored : Nat, retrievals : Nat]

\* What the request r moves when it becomes w.
SpansFollow(q, w) ==
    /\ openSpans'.llm - openSpans.llm = One(w, {"attempt"}) - One(q, {"attempt"})
    /\ openSpans'.rag - openSpans.rag
         = OneRetrieving(w, RagPhases) - OneRetrieving(q, RagPhases)
    /\ openSpans'.retrieval - openSpans.retrieval
         = One(w, {"retrieve"}) - One(q, {"retrieve"}) + lost'.retrievals - lost.retrievals
MemoryFollows(q, w) ==
    (spent'.notification + spent'.completion) - (spent.notification + spent.completion)
      = (SumCosts(tracked') - SumCosts(tracked)) + (lost'.evicted - lost.evicted)
          + (Share(w, "notification", Unbooked) - Share(q, "notification", Unbooked))
          + (Share(w, "completion", Unbooked) - Share(q, "completion", Unbooked))
RowsFollow(q, w) ==
    spent'.notification - spent.notification
      = (SumCosts(stored') - SumCosts(stored)) + (lost'.unstored - lost.unstored)
          + (Share(w, "notification", AllDue) - Share(q, "notification", AllDue))
MetricsFollow(q, w) ==
    /\ metrics'.success - metrics.success = attempts'.answered - attempts.answered
    /\ metrics'.errors - metrics.errors = attempts'.failed - attempts.failed
    /\ (metrics'.error - metrics.error) + (lost'.retrievals - lost.retrievals)
        + (metrics'.success - metrics.success) + (One(w, Unanswered) - One(q, Unanswered))
        <= started' - started
    /\ metrics'.errors - metrics.errors
        <= MaxAttempts * ((metrics'.error - metrics.error) + (metrics'.success - metrics.success))
             + (FailedBy(w) - FailedBy(q))

LEMMA SharesAreCosts ==
    ASSUME NEW q, Sound(q), NEW kind, NEW phases \in SUBSET Owed
    PROVE  /\ Share(q, kind, phases) \in Int
           /\ FailedBy(q) \in Int
           /\ \A p : One(q, p) \in Int /\ OneRetrieving(q, p) \in Int
<1>1. Share(q, kind, phases) \in Int
  <2>1. CASE q.phase \in {"keep", "answered"}
    <3>1. q.answer.cost \in Nat
      BY <2>1 DEF Sound, Answers
    <3> QED
      BY <3>1 DEF Share
  <2>2. CASE q.phase = "store"
    BY <2>2 DEF Sound, Share
  <2>3. CASE q.phase \notin {"keep", "answered", "store"}
    <3>1. q.phase \notin phases
      BY <2>3 DEF Owed
    <3> QED
      BY <3>1 DEF Share
  <2> QED
    BY <2>1, <2>2, <2>3
<1>2. FailedBy(q) \in Int
  BY DEF FailedBy, Sound, MaxAttempts
<1>3. ASSUME NEW p PROVE One(q, p) \in Int /\ OneRetrieving(q, p) \in Int
  BY DEF One, OneRetrieving
<1> QED
  BY <1>1, <1>2, <1>3

LEMMA StepKeeps ==
    ASSUME AIInv, NEW r \in Prompters, NEW w, Sound(w),
           request' = [request EXCEPT ![r] = w], BookTypes',
           SpansFollow(request[r], w), MemoryFollows(request[r], w),
           RowsFollow(request[r], w), MetricsFollow(request[r], w)
    PROVE  AIInv'
<1> DEFINE q == request[r]
<1>1. AITypes /\ BookTypes /\ Sound(q)
  BY DEF AIInv, AITypes, BookTypes
<1>2. AITypes'
  BY <1>1, SlotMoves DEF AITypes, BookTypes
<1>3. /\ {"attempt"} \in SUBSET Working /\ RagPhases \in SUBSET Working
      /\ {"retrieve"} \in SUBSET Working /\ Unanswered \in SUBSET Working
      /\ Unbooked \in SUBSET Owed /\ AllDue \in SUBSET Owed
  BY DEF Working, RequestPhases, RagPhases, Unanswered, Unbooked, AllDue, Owed
<1>4. \A p : /\ One(q, p) \in Int /\ OneRetrieving(q, p) \in Int
            /\ One(w, p) \in Int /\ OneRetrieving(w, p) \in Int
  BY <1>1, <1>3, SharesAreCosts
<1> HIDE DEF q
<1>5. EverySpanEnds'
  <2>1. /\ Cardinality(InPhases({"attempt"})) \in Nat
        /\ Cardinality(InPhases({"attempt"})') \in Nat
        /\ Cardinality(InPhases({"attempt"})') - One(w, {"attempt"})
             = Cardinality(InPhases({"attempt"})) - One(q, {"attempt"})
    BY <1>1, <1>3, SlotCounts DEF q
  <2>2. /\ Cardinality(InPhases({"retrieve"})) \in Nat
        /\ Cardinality(InPhases({"retrieve"})') \in Nat
        /\ Cardinality(InPhases({"retrieve"})') - One(w, {"retrieve"})
             = Cardinality(InPhases({"retrieve"})) - One(q, {"retrieve"})
    BY <1>1, <1>3, SlotCounts DEF q
  <2>3. /\ Cardinality(Retrieving(RagPhases)) \in Nat
        /\ Cardinality(Retrieving(RagPhases)') \in Nat
        /\ Cardinality(Retrieving(RagPhases)') - OneRetrieving(w, RagPhases)
             = Cardinality(Retrieving(RagPhases)) - OneRetrieving(q, RagPhases)
    BY <1>1, <1>3, SlotCounts DEF q
  <2>4. /\ openSpans.llm = Cardinality(InPhases({"attempt"}))
        /\ openSpans.rag = Cardinality(Retrieving(RagPhases))
        /\ openSpans.retrieval = Cardinality(InPhases({"retrieve"})) + lost.retrievals
    BY SpansCount DEF AIInv
  <2>5. /\ openSpans'.llm \in Int /\ openSpans'.rag \in Int /\ openSpans'.retrieval \in Int
        /\ lost.retrievals \in Nat /\ lost'.retrievals \in Nat
    BY <1>1 DEF BookTypes
  <2>6. openSpans'.llm = Cardinality(InPhases({"attempt"})')
    <3>1. openSpans'.llm - openSpans.llm = One(w, {"attempt"}) - One(q, {"attempt"})
      BY DEF SpansFollow, q
    <3>2. openSpans.llm \in Int /\ One(w, {"attempt"}) \in Int /\ One(q, {"attempt"}) \in Int
      BY <1>1, <1>4 DEF BookTypes
    <3> QED
      BY <2>1, <2>4, <2>5, <3>1, <3>2
  <2>7. openSpans'.rag = Cardinality(Retrieving(RagPhases)')
    <3>1. openSpans'.rag - openSpans.rag
            = OneRetrieving(w, RagPhases) - OneRetrieving(q, RagPhases)
      BY DEF SpansFollow, q
    <3>2. /\ openSpans.rag \in Int
          /\ OneRetrieving(w, RagPhases) \in Int /\ OneRetrieving(q, RagPhases) \in Int
      BY <1>1, <1>4 DEF BookTypes
    <3> QED
      BY <2>3, <2>4, <2>5, <3>1, <3>2
  <2>8. openSpans'.retrieval = Cardinality(InPhases({"retrieve"})') + lost'.retrievals
    <3>1. openSpans'.retrieval - openSpans.retrieval
            = One(w, {"retrieve"}) - One(q, {"retrieve"}) + lost'.retrievals - lost.retrievals
      BY DEF SpansFollow, q
    <3>2. /\ openSpans.retrieval \in Int
          /\ One(w, {"retrieve"}) \in Int /\ One(q, {"retrieve"}) \in Int
      BY <1>1, <1>4 DEF BookTypes
    <3>3. One(w, {"retrieve"}) - One(q, {"retrieve"})
            = Cardinality(InPhases({"retrieve"})') - Cardinality(InPhases({"retrieve"}))
      BY <2>2, <3>2
    <3>4. openSpans.retrieval - lost.retrievals = Cardinality(InPhases({"retrieve"}))
      BY <2>2, <2>4, <2>5
    <3>5. openSpans'.retrieval
            = (openSpans.retrieval - lost.retrievals)
                + (One(w, {"retrieve"}) - One(q, {"retrieve"})) + lost'.retrievals
      BY <2>5, <3>1, <3>2
    <3>6. openSpans'.retrieval
            = Cardinality(InPhases({"retrieve"}))
                + (Cardinality(InPhases({"retrieve"})') - Cardinality(InPhases({"retrieve"})))
                + lost'.retrievals
      BY <3>3, <3>4, <3>5
    <3> QED
      BY <2>2, <2>5, <3>6
  <2> QED
    BY <2>6, <2>7, <2>8, SpansCount
<1>6. SpendIsAccountedFor'
  <2> DEFINE P(kind, phases) == Pending(kind, phases)
  <2>1. ASSUME NEW kind, NEW phases \in SUBSET Owed
        PROVE  /\ P(kind, phases) \in Int /\ P(kind, phases)' \in Int
               /\ P(kind, phases)' - Share(w, kind, phases)
                    = P(kind, phases) - Share(q, kind, phases)
    <3>1. Pending(kind, phases)' - Share(w, kind, phases)
            = Pending(kind, phases) - Share(request[r], kind, phases)
      BY <1>1, SlotOwes, ZenonT(60)
    <3>2. Pending(kind, phases) \in Int /\ Pending(kind, phases)' \in Int
      BY <1>1, SlotOwes
    <3> QED
      BY <3>1, <3>2 DEF q
  <2>2. ASSUME NEW kind, NEW phases \in SUBSET Owed
        PROVE  Share(q, kind, phases) \in Int /\ Share(w, kind, phases) \in Int
    BY <1>1, SharesAreCosts
  <2>3. /\ SumCosts(tracked) \in Int /\ SumCosts(tracked') \in Int
        /\ SumCosts(stored) \in Int /\ SumCosts(stored') \in Int
    BY <1>1, CostsInt DEF BookTypes
  <2>4. /\ spent.notification \in Nat /\ spent.completion \in Nat
        /\ spent'.notification \in Nat /\ spent'.completion \in Nat
        /\ lost.evicted \in Nat /\ lost'.evicted \in Nat
        /\ lost.unstored \in Nat /\ lost'.unstored \in Nat
    BY <1>1 DEF BookTypes
  <2>5. /\ spent.notification + spent.completion =
             SumCosts(tracked) + lost.evicted
                + P("notification", Unbooked) + P("completion", Unbooked)
        /\ spent.notification = SumCosts(stored) + lost.unstored + P("notification", AllDue)
    BY DEF AIInv, SpendIsAccountedFor, AllDue
  <2> HIDE DEF P
  <2>6. spent'.notification + spent'.completion =
             SumCosts(tracked') + lost'.evicted
                + P("notification", Unbooked)' + P("completion", Unbooked)'
    <3>1. /\ P("notification", Unbooked) \in Int /\ P("notification", Unbooked)' \in Int
          /\ P("notification", Unbooked)' - Share(w, "notification", Unbooked)
               = P("notification", Unbooked) - Share(q, "notification", Unbooked)
      BY <1>3, <2>1
    <3>2. /\ P("completion", Unbooked) \in Int /\ P("completion", Unbooked)' \in Int
          /\ P("completion", Unbooked)' - Share(w, "completion", Unbooked)
               = P("completion", Unbooked) - Share(q, "completion", Unbooked)
      BY <1>3, <2>1
    <3>3. /\ Share(q, "notification", Unbooked) \in Int
          /\ Share(w, "notification", Unbooked) \in Int
          /\ Share(q, "completion", Unbooked) \in Int
          /\ Share(w, "completion", Unbooked) \in Int
      BY <1>3, <2>2
    <3> QED
      BY <2>3, <2>4, <2>5, <3>1, <3>2, <3>3 DEF MemoryFollows, q
  <2>7. spent'.notification = SumCosts(stored') + lost'.unstored + P("notification", AllDue)'
    <3>1. /\ P("notification", AllDue) \in Int /\ P("notification", AllDue)' \in Int
          /\ P("notification", AllDue)' - Share(w, "notification", AllDue)
               = P("notification", AllDue) - Share(q, "notification", AllDue)
      BY <1>3, <2>1
    <3>2. /\ Share(q, "notification", AllDue) \in Int
          /\ Share(w, "notification", AllDue) \in Int
      BY <1>3, <2>2
    <3>3. spent'.notification - spent.notification
            = (SumCosts(stored') - SumCosts(stored)) + (lost'.unstored - lost.unstored)
                + (Share(w, "notification", AllDue) - Share(q, "notification", AllDue))
      BY DEF RowsFollow, q
    <3>4. Share(w, "notification", AllDue) - Share(q, "notification", AllDue)
            = P("notification", AllDue)' - P("notification", AllDue)
      BY <3>1, <3>2
    <3>5. spent'.notification
            = (spent.notification - SumCosts(stored) - lost.unstored)
                + SumCosts(stored') + lost'.unstored
                + (Share(w, "notification", AllDue) - Share(q, "notification", AllDue))
      BY <2>3, <2>4, <3>2, <3>3
    <3>6. spent.notification - SumCosts(stored) - lost.unstored = P("notification", AllDue)
      BY <2>3, <2>4, <2>5, <3>1
    <3>7. spent'.notification
            = P("notification", AllDue) + SumCosts(stored') + lost'.unstored
                + (P("notification", AllDue)' - P("notification", AllDue))
      BY <3>4, <3>5, <3>6
    <3> QED
      BY <2>3, <2>4, <3>1, <3>7
  <2>8. SumCosts(tracked)' = SumCosts(tracked') /\ SumCosts(stored)' = SumCosts(stored')
    BY DEF SumCosts, FoldSeq, FoldFunction, FoldFunctionOnSet, MapThenFoldSet
  <2> QED
    BY <2>6, <2>7, <2>8 DEF P, SpendIsAccountedFor, AllDue
<1>7. /\ metrics.success \in Nat /\ metrics.error \in Nat /\ metrics.errors \in Nat
      /\ metrics'.success \in Nat /\ metrics'.error \in Nat /\ metrics'.errors \in Nat
      /\ attempts.answered \in Nat /\ attempts.failed \in Nat
      /\ attempts'.answered \in Nat /\ attempts'.failed \in Nat
      /\ lost.retrievals \in Nat /\ lost'.retrievals \in Nat
      /\ started \in Nat /\ started' \in Nat
  BY <1>1 DEF BookTypes
<1>8. CallsAreCounted'
  <2>1. /\ Cardinality(InPhases(Unanswered)) \in Nat
        /\ Cardinality(InPhases(Unanswered)') \in Nat
        /\ Cardinality(InPhases(Unanswered)') - One(w, Unanswered)
             = Cardinality(InPhases(Unanswered)) - One(q, Unanswered)
    BY <1>1, <1>3, SlotCounts DEF q
  <2>2. /\ metrics.success = attempts.answered
        /\ metrics.errors = attempts.failed
        /\ metrics.error + lost.retrievals + metrics.success
            + Cardinality(InPhases(Unanswered)) <= started
    BY DEF AIInv, CallsAreCounted, Unanswered
  <2>3. /\ metrics'.success = attempts'.answered
        /\ metrics'.errors = attempts'.failed
        /\ metrics'.error + lost'.retrievals + metrics'.success
            + Cardinality(InPhases(Unanswered)') <= started'
    BY <1>4, <1>7, <2>1, <2>2 DEF MetricsFollow, q
  <2> QED
    BY <2>3 DEF CallsAreCounted, Unanswered
<1>9. ErrorsAreBounded'
  <2>1. /\ FailedSoFar \in Int /\ FailedSoFar' \in Int
        /\ FailedSoFar' - FailedBy(w) = FailedSoFar - FailedBy(q)
    BY <1>1, SlotFailed DEF q
  <2>2. FailedBy(w) \in Int /\ FailedBy(q) \in Int
    BY <1>1, <1>3, SharesAreCosts
  <2>3. metrics.errors <= MaxAttempts * (metrics.error + metrics.success) + FailedSoFar
    BY DEF AIInv, ErrorsAreBounded
  <2>4. metrics'.errors <= MaxAttempts * (metrics'.error + metrics'.success) + FailedSoFar'
    BY <1>7, <2>1, <2>2, <2>3 DEF MetricsFollow, MaxAttempts, q
  <2> QED
    BY <2>4 DEF ErrorsAreBounded
<1> QED
  BY <1>2, <1>5, <1>6, <1>8, <1>9 DEF AIInv

LEMMA NothingPending ==
    ASSUME \A q \in Prompters : request[q].phase = "idle"
    PROVE  /\ \A kind : Pending(kind, Unbooked) = 0 /\ Pending(kind, AllDue) = 0
           /\ \A phases \in SUBSET Working :
                InPhases(phases) = {} /\ Retrieving(phases) = {}
<1>1. \A phases \in SUBSET Working : InPhases(phases) = {} /\ Retrieving(phases) = {}
  BY DEF InPhases, Retrieving, Working
<1>2. ASSUME NEW kind, NEW phases \in {Unbooked, AllDue} PROVE Pending(kind, phases) = 0
  <2>1. Due(kind, phases) = {}
    BY <1>2 DEF Due, AllDue, Unbooked
  <2> DEFINE f == [r \in Prompters |-> IF r \in Due(kind, phases) THEN Cost(r) ELSE 0]
  <2>2. Pending(kind, phases) = SumFunctionOnSet(f, Due(kind, phases))
    BY PendingIsSum
  <2> HIDE DEF f
  <2>3. SumFunctionOnSet(f, {}) = 0
    BY SumOfNone
  <2> QED
    BY <2>1, <2>2, <2>3
<1> QED
  BY <1>1, <1>2

LEMMA NoCosts == SumCosts(<< >>) = 0
<1> DEFINE none == << >>
<1>1. DOMAIN none = {}
  OBVIOUS
<1>2. SumCosts(none) = SumFunctionOnSet(none, DOMAIN none)
  BY CostsAreSum
<1> HIDE DEF none
<1>3. SumFunctionOnSet(none, {}) = 0
  BY SumOfNone
<1>4. SumCosts(none) = 0
  BY <1>1, <1>2, <1>3
<1> QED
  BY <1>4 DEF none

LEMMA AIStarts == AIInit => AIInv
<1> SUFFICES ASSUME AIInit PROVE AIInv
  OBVIOUS
<1> USE DEF AIInit, LLMInit, ResponseCacheInit
<1>1. \A q \in Prompters : request[q] = [phase |-> "idle"]
  OBVIOUS
<1>2. AITypes
  <2>1. \A q \in Prompters : Sound(request[q])
    BY <1>1 DEF Sound, RequestPhases
  <2>2. {q \in Prompters : request[q].phase # "idle"} = {}
    BY <1>1
  <2>3. IsFiniteSet({})
    BY FS_EmptySet
  <2>4. answers \in [CacheKeys -> Answers \cup {NoAnswer}]
    OBVIOUS
  <2>5. /\ metrics \in [success : Nat, error : Nat, errors : Nat]
        /\ attempts \in [answered : Nat, failed : Nat]
        /\ started \in Nat
    OBVIOUS
  <2>6. tracked \in Seq(Nat) /\ stored \in Seq(Nat)
    OBVIOUS
  <2>7. openSpans \in [rag : Int, retrieval : Int, llm : Int]
    OBVIOUS
  <2>8. /\ spent \in [notification : Nat, completion : Nat, rag : Nat]
        /\ lost \in [evicted : Nat, unstored : Nat, retrievals : Nat]
    OBVIOUS
  <2>9. DOMAIN request = Prompters
    OBVIOUS
  <2> HIDE DEF AIInit, LLMInit, ResponseCacheInit
  <2> QED
    BY <2>1, <2>2, <2>3, <2>4, <2>5, <2>6, <2>7, <2>8, <2>9 DEF AITypes
<1>3. \A q \in Prompters : request[q].phase = "idle"
  BY <1>1
<1>4. /\ {"attempt"} \in SUBSET Working /\ RagPhases \in SUBSET Working
      /\ {"retrieve"} \in SUBSET Working /\ Unanswered \in SUBSET Working
  BY DEF Working, RequestPhases, RagPhases, Unanswered
<1>5. Cardinality({}) = 0
  BY FS_EmptySet
<1>6. SpendIsAccountedFor
  <2>1. SumCosts(tracked) = 0 /\ SumCosts(stored) = 0
    BY NoCosts
  <2>2. /\ Pending("notification", Unbooked) = 0 /\ Pending("completion", Unbooked) = 0
        /\ Pending("notification", AllDue) = 0
    BY <1>3, NothingPending
  <2> QED
    BY <2>1, <2>2 DEF SpendIsAccountedFor, AllDue
<1>7. EverySpanEnds
  <2>1. /\ Cardinality(InPhases({"attempt"})) = 0 /\ Cardinality(InPhases({"retrieve"})) = 0
        /\ Cardinality(Retrieving(RagPhases)) = 0
    BY <1>3, <1>4, <1>5, NothingPending
  <2> QED
    BY <2>1, SpansCount
<1>8. CallsAreCounted
  <2>1. Cardinality(InPhases(Unanswered)) = 0
    BY <1>3, <1>4, <1>5, NothingPending
  <2> QED
    BY <2>1 DEF CallsAreCounted, Unanswered
<1>9. ErrorsAreBounded
  <2>1. InPhases({"attempt"}) = {}
    BY <1>3, <1>4, NothingPending
  <2>2. FailedSoFar = 0
    BY <2>1, SumOfNone DEF FailedSoFar
  <2> QED
    BY <2>2 DEF ErrorsAreBounded, MaxAttempts
<1> QED
  BY <1>2, <1>6, <1>7, <1>8, <1>9 DEF AIInv

\* Books that nobody touches follow a request whose cost is due as before.
LEMMA BooksRest ==
    ASSUME AITypes, NEW q, NEW w, Sound(q), Sound(w), UNCHANGED <<tracked, stored, spent>>,
           lost'.evicted = lost.evicted, lost'.unstored = lost.unstored,
           Share(w, "notification", Unbooked) = Share(q, "notification", Unbooked),
           Share(w, "completion", Unbooked) = Share(q, "completion", Unbooked),
           Share(w, "notification", AllDue) = Share(q, "notification", AllDue)
    PROVE  MemoryFollows(q, w) /\ RowsFollow(q, w)
<1>1. SumCosts(tracked) \in Int /\ SumCosts(stored) \in Int
  BY CostsInt DEF AITypes
<1>2. /\ lost.evicted \in Nat /\ lost.unstored \in Nat
      /\ spent.notification \in Nat /\ spent.completion \in Nat
  BY DEF AITypes
<1>3. Unbooked \in SUBSET Owed /\ AllDue \in SUBSET Owed
  BY DEF Unbooked, AllDue, Owed
<1>4. /\ Share(q, "notification", Unbooked) \in Int
      /\ Share(q, "completion", Unbooked) \in Int
      /\ Share(q, "notification", AllDue) \in Int
  BY <1>3, SharesAreCosts
<1>5. /\ SumCosts(tracked') = SumCosts(tracked) /\ SumCosts(stored') = SumCosts(stored)
      /\ spent' = spent
  OBVIOUS
<1>6. MemoryFollows(q, w)
  BY <1>1, <1>2, <1>4, <1>5 DEF MemoryFollows
<1>7. RowsFollow(q, w)
  BY <1>1, <1>2, <1>4, <1>5 DEF RowsFollow
<1> QED
  BY <1>6, <1>7

\* What a change of the spans does to one of them.
Change(moves, s) == IF s \in DOMAIN moves THEN moves[s] ELSE 0

LEMMA SpansMove ==
    ASSUME AITypes, NEW moves, Span(moves),
           \A s \in DOMAIN moves : moves[s] \in Int
    PROVE  /\ openSpans' \in [rag : Int, retrieval : Int, llm : Int]
           /\ openSpans'.rag = openSpans.rag + Change(moves, "rag")
           /\ openSpans'.retrieval = openSpans.retrieval + Change(moves, "retrieval")
           /\ openSpans'.llm = openSpans.llm + Change(moves, "llm")
<1>1. \A s : Change(moves, s) \in Int
  BY DEF Change
<1>2. openSpans' = [s \in DOMAIN openSpans |-> openSpans[s] + Change(moves, s)]
  BY DEF Span, Change
<1>3. openSpans \in [rag : Int, retrieval : Int, llm : Int]
  BY DEF AITypes
<1>4. DOMAIN openSpans = {"rag", "retrieval", "llm"}
  BY <1>3
<1> QED
  BY <1>1, <1>2, <1>3, <1>4

LEMMA ReceivingKeeps ==
    ASSUME AIInv, NEW r \in Prompters, NEW kind \in Kinds, NEW prompt \in Prompts,
           NEW settings \in Settings, ReceiveRequest(r, kind, prompt, settings)
    PROVE  AIInv'
<1> DEFINE q == request[r]
           w == [phase |-> IF UsesRetrieval(kind) THEN "retrieve" ELSE "lookup", kind |-> kind,
                 prompt |-> prompt, settings |-> settings, attempt |-> 0, answer |-> NoAnswer]
<1>1. AITypes /\ Sound(q) /\ q.phase = "idle"
  BY DEF AIInv, AITypes, ReceiveRequest, Stage
<1>2. request' = [request EXCEPT ![r] = w] /\ started' = started + 1
      /\ UNCHANGED <<answers, metrics, attempts, spent, tracked, stored, lost>>
  BY DEF ReceiveRequest, Update, books, responseCacheVars
<1>3. /\ w.phase = IF UsesRetrieval(kind) THEN "retrieve" ELSE "lookup"
      /\ w.kind = kind /\ Sound(w)
  <2>1. /\ w.phase = IF UsesRetrieval(kind) THEN "retrieve" ELSE "lookup"
        /\ w.kind = kind /\ w.prompt = prompt /\ w.settings = settings
    OBVIOUS
  <2>2. DOMAIN w = Fields
    BY DEF Fields
  <2> HIDE DEF w
  <2> QED
    BY <2>1, <2>2 DEF Sound, RequestPhases
<1>4. /\ openSpans \in [rag : Int, retrieval : Int, llm : Int]
      /\ openSpans' \in [rag : Int, retrieval : Int, llm : Int]
      /\ openSpans'.llm = openSpans.llm
      /\ openSpans'.rag = openSpans.rag + (IF UsesRetrieval(kind) THEN 1 ELSE 0)
      /\ openSpans'.retrieval = openSpans.retrieval + (IF UsesRetrieval(kind) THEN 1 ELSE 0)
  <2>1. openSpans \in [rag : Int, retrieval : Int, llm : Int]
    BY <1>1 DEF AITypes
  <2>2. CASE UsesRetrieval(kind)
    <3> DEFINE moves == [rag |-> 1, retrieval |-> 1]
    <3>1. Span(moves)
      BY <2>2 DEF ReceiveRequest
    <3>2. /\ \A s \in DOMAIN moves : moves[s] \in Int
          /\ Change(moves, "rag") = 1 /\ Change(moves, "retrieval") = 1
          /\ Change(moves, "llm") = 0
      BY DEF Change
    <3> HIDE DEF moves
    <3> QED
      BY <1>1, <2>1, <2>2, <3>1, <3>2, SpansMove
  <2>3. CASE ~UsesRetrieval(kind)
    BY <2>1, <2>3 DEF ReceiveRequest
  <2> QED
    BY <2>2, <2>3
<1> HIDE DEF w, q
<1>5. BookTypes'
  <2>1. started' \in Nat
    <3>1. started \in Nat /\ started' = started + 1
      BY <1>1, <1>2 DEF AITypes
    <3> QED
      BY <3>1
  <2>2. openSpans' \in [rag : Int, retrieval : Int, llm : Int]
    BY <1>4
  <2> QED
    BY <1>1, <1>2, <2>1, <2>2 DEF AITypes, BookTypes
<1>6. SpansFollow(q, w)
  <2>1. /\ One(q, {"attempt"}) = 0 /\ One(q, {"retrieve"}) = 0
        /\ OneRetrieving(q, RagPhases) = 0
    BY <1>1 DEF One, OneRetrieving, RagPhases
  <2>2. /\ One(w, {"attempt"}) = 0
        /\ One(w, {"retrieve"}) = IF UsesRetrieval(kind) THEN 1 ELSE 0
        /\ OneRetrieving(w, RagPhases) = IF UsesRetrieval(kind) THEN 1 ELSE 0
    BY <1>3 DEF One, OneRetrieving, RagPhases
  <2>3. lost'.retrievals = lost.retrievals /\ lost.retrievals \in Nat
    BY <1>1, <1>2 DEF AITypes
  <2> QED
    BY <1>4, <2>1, <2>2, <2>3 DEF SpansFollow
<1>7. MemoryFollows(q, w) /\ RowsFollow(q, w)
  <2>1. \A k, phases : phases \in {Unbooked, AllDue} =>
            Share(q, k, phases) = 0 /\ Share(w, k, phases) = 0
    BY <1>1, <1>3 DEF Share, Unbooked, AllDue
  <2> QED
    BY <1>1, <1>2, <1>3, <2>1, BooksRest
<1>8. MetricsFollow(q, w)
  <2>1. One(q, Unanswered) = 0 /\ One(w, Unanswered) = 1 /\ FailedBy(q) = 0 /\ FailedBy(w) = 0
    BY <1>1, <1>3 DEF One, Unanswered, FailedBy
  <2>2. /\ metrics.success \in Nat /\ metrics.error \in Nat /\ metrics.errors \in Nat
        /\ attempts.answered \in Nat /\ attempts.failed \in Nat
        /\ started \in Nat /\ lost.retrievals \in Nat
    BY <1>1 DEF AITypes
  <2>3. metrics' = metrics /\ attempts' = attempts /\ lost' = lost /\ started' = started + 1
    BY <1>2
  <2>4. /\ metrics'.success - metrics.success = 0 /\ metrics'.error - metrics.error = 0
        /\ metrics'.errors - metrics.errors = 0
        /\ attempts'.answered - attempts.answered = 0 /\ attempts'.failed - attempts.failed = 0
        /\ lost'.retrievals - lost.retrievals = 0
    BY <2>2, <2>3
  <2>5. started' - started = 1
    BY <2>2, <2>3
  <2> QED
    BY <2>1, <2>4, <2>5 DEF MetricsFollow, MaxAttempts
<1> QED
  BY <1>2, <1>3, <1>5, <1>6, <1>7, <1>8, StepKeeps DEF q

LEMMA RetrievingKeeps ==
    ASSUME AIInv, NEW r \in Prompters, Retrieve(r)
    PROVE  AIInv'
<1> DEFINE q == request[r]
           failed == lost' # lost
           w == [request[r] EXCEPT !.phase = IF failed THEN "failed" ELSE "lookup"]
<1>1. AITypes /\ Sound(q) /\ q.phase = "retrieve" /\ DOMAIN q = Fields
  BY DEF AIInv, AITypes, Retrieve, Stage, Sound
<1>2. /\ lost \in [evicted : Nat, unstored : Nat, retrievals : Nat]
      /\ openSpans \in [rag : Int, retrieval : Int, llm : Int]
  BY <1>1 DEF AITypes
<1>3. /\ request' = [request EXCEPT ![r] = w]
      /\ UNCHANGED <<answers, metrics, attempts, started, spent, tracked, stored>>
      /\ lost' = IF failed THEN [lost EXCEPT !.retrievals = @ + 1] ELSE lost
      /\ IF failed THEN Span([rag |-> -1]) ELSE Span([retrieval |-> -1])
  <2>1. CASE /\ Update(r, [request[r] EXCEPT !.phase = "lookup"])
             /\ Span([retrieval |-> -1]) /\ UNCHANGED lost
    BY <2>1 DEF Retrieve, Update, responseCacheVars
  <2>2. CASE /\ Update(r, [request[r] EXCEPT !.phase = "failed"])
             /\ Span([rag |-> -1])
             /\ lost' = [lost EXCEPT !.retrievals = @ + 1]
    <3>1. lost'.retrievals = lost.retrievals + 1
      BY <1>2, <2>2
    <3>2. failed
      BY <1>2, <3>1
    <3> QED
      BY <2>2, <3>2 DEF Retrieve, Update, responseCacheVars
  <2> QED
    BY <2>1, <2>2 DEF Retrieve
<1>4. /\ openSpans' \in [rag : Int, retrieval : Int, llm : Int]
      /\ openSpans'.llm = openSpans.llm
      /\ openSpans'.rag = openSpans.rag - (IF failed THEN 1 ELSE 0)
      /\ openSpans'.retrieval = openSpans.retrieval - (IF failed THEN 0 ELSE 1)
  <2>1. CASE failed
    <3> DEFINE moves == [rag |-> -1]
    <3>1. /\ \A s \in DOMAIN moves : moves[s] \in Int
          /\ Change(moves, "rag") = -1 /\ Change(moves, "retrieval") = 0
          /\ Change(moves, "llm") = 0
      BY DEF Change
    <3>2. Span(moves)
      BY <1>3, <2>1
    <3> HIDE DEF moves
    <3> QED
      BY <1>1, <1>2, <2>1, <3>1, <3>2, SpansMove
  <2>2. CASE ~failed
    <3> DEFINE moves == [retrieval |-> -1]
    <3>1. /\ \A s \in DOMAIN moves : moves[s] \in Int
          /\ Change(moves, "retrieval") = -1 /\ Change(moves, "rag") = 0
          /\ Change(moves, "llm") = 0
      BY DEF Change
    <3>2. Span(moves)
      BY <1>3, <2>2
    <3> HIDE DEF moves
    <3> QED
      BY <1>1, <1>2, <2>2, <3>1, <3>2, SpansMove
  <2> QED
    BY <2>1, <2>2
<1>5. /\ w.phase = IF failed THEN "failed" ELSE "lookup"
      /\ DOMAIN w = Fields /\ w.kind = q.kind
      /\ w.prompt = q.prompt /\ w.settings = q.settings
  BY <1>1 DEF Fields
<1>6. /\ lost' \in [evicted : Nat, unstored : Nat, retrievals : Nat]
      /\ lost'.evicted = lost.evicted /\ lost'.unstored = lost.unstored
      /\ lost'.retrievals = lost.retrievals + (IF failed THEN 1 ELSE 0)
  BY <1>2, <1>3
<1>7. BookTypes'
  BY <1>1, <1>3, <1>4, <1>6 DEF AITypes, BookTypes
<1> HIDE DEF w, q, failed
<1>8. Sound(w)
  BY <1>1, <1>5 DEF Sound, RequestPhases
<1>9. SpansFollow(q, w)
  <2>1. /\ One(q, {"attempt"}) = 0 /\ One(q, {"retrieve"}) = 1
        /\ One(w, {"attempt"}) = 0 /\ One(w, {"retrieve"}) = 0
    BY <1>1, <1>5 DEF One
  <2>2. /\ OneRetrieving(q, RagPhases) = 1
        /\ OneRetrieving(w, RagPhases) = IF failed THEN 0 ELSE 1
    BY <1>1, <1>5 DEF OneRetrieving, RagPhases, Sound
  <2>3. lost.retrievals \in Nat /\ openSpans.llm \in Int /\ openSpans.rag \in Int
        /\ openSpans.retrieval \in Int
    BY <1>2
  <2> QED
    BY <1>4, <1>6, <2>1, <2>2, <2>3 DEF SpansFollow
<1>10. MemoryFollows(q, w) /\ RowsFollow(q, w)
  <2>1. \A k, phases : phases \in {Unbooked, AllDue} =>
            Share(q, k, phases) = 0 /\ Share(w, k, phases) = 0
    BY <1>1, <1>5 DEF Share, Unbooked, AllDue
  <2> QED
    BY <1>1, <1>3, <1>6, <1>8, <2>1, BooksRest
<1>11. MetricsFollow(q, w)
  <2>1. /\ One(q, Unanswered) = 1 /\ One(w, Unanswered) = IF failed THEN 0 ELSE 1
        /\ FailedBy(q) = 0 /\ FailedBy(w) = 0
    BY <1>1, <1>5 DEF One, Unanswered, FailedBy
  <2>2. /\ metrics.success \in Nat /\ metrics.error \in Nat /\ metrics.errors \in Nat
        /\ attempts.answered \in Nat /\ attempts.failed \in Nat
        /\ started \in Nat /\ lost.retrievals \in Nat
    BY <1>1 DEF AITypes
  <2>3. metrics' = metrics /\ attempts' = attempts /\ started' = started
    BY <1>3
  <2> QED
    BY <1>6, <2>1, <2>2, <2>3 DEF MetricsFollow, MaxAttempts
<1> QED
  BY <1>3, <1>7, <1>8, <1>9, <1>10, <1>11, StepKeeps DEF q

\* What an outcome of the model service makes of a request.
Becomes(r, phase) ==
    /\ request' = [request EXCEPT ![r] = request'[r]]
    /\ Sound(request'[r]) /\ request'[r].kind = request[r].kind
    /\ request'[r].phase = phase

LEMMA LookupBecomes ==
    ASSUME AITypes, NEW r \in Prompters, Lookup(r)
    PROVE  /\ request[r].phase = "lookup" /\ answers' = answers
           /\ UNCHANGED <<metrics, attempts>>
           /\ \/ Becomes(r, "answered") /\ request'[r].answer.cost = 0
              \/ Becomes(r, "attempt") /\ request'[r].attempt = 1
<1> DEFINE q == request[r]
           key == <<q.prompt, q.settings>>
<1>1. /\ Sound(q) /\ q.phase = "lookup" /\ DOMAIN q = Fields /\ q.kind \in Kinds
      /\ q.prompt \in Prompts /\ q.settings \in Settings
      /\ UNCHANGED <<metrics, attempts>> /\ DOMAIN request = Prompters
  BY DEF AITypes, Lookup, Stage, Sound
<1>2. PICK kept \in {answers[key], NoAnswer} :
        /\ GetCached(q.prompt, q.settings, kept)
        /\ Update(r, IF kept # NoAnswer
                     THEN [q EXCEPT !.phase = "answered", !.answer = [kept EXCEPT !.cost = 0]]
                     ELSE [q EXCEPT !.phase = "attempt", !.attempt = 1])
  BY DEF Lookup
<1>3. answers' = answers
  BY <1>2 DEF GetCached
<1>4. CASE kept # NoAnswer
  <2> DEFINE free == [kept EXCEPT !.cost = 0]
             w == [q EXCEPT !.phase = "answered", !.answer = free]
  <2>1. key \in CacheKeys /\ answers[key] \in Answers \cup {NoAnswer}
    BY <1>1 DEF CacheKeys, AITypes
  <2>2. kept \in Answers
    BY <1>2, <1>4, <2>1
  <2>3. free \in Answers /\ free.cost = 0
    BY <2>2 DEF Answers
  <2> HIDE DEF free
  <2>4. /\ w.phase = "answered" /\ w.answer = free /\ DOMAIN w = Fields
        /\ w.kind = q.kind /\ w.prompt = q.prompt /\ w.settings = q.settings
    BY <1>1 DEF Fields
  <2>5. request' = [request EXCEPT ![r] = w]
    BY <1>2, <1>4 DEF Update, free
  <2> HIDE DEF w
  <2>6. request'[r] = w
    BY <1>1, <2>5
  <2>7. Sound(w)
    BY <1>1, <2>3, <2>4 DEF Sound, RequestPhases
  <2> QED
    BY <1>1, <1>3, <2>3, <2>4, <2>5, <2>6, <2>7 DEF Becomes
<1>5. CASE kept = NoAnswer
  <2> DEFINE w == [q EXCEPT !.phase = "attempt", !.attempt = 1]
  <2>1. /\ w.phase = "attempt" /\ w.attempt = 1 /\ DOMAIN w = Fields
        /\ w.kind = q.kind /\ w.prompt = q.prompt /\ w.settings = q.settings
    BY <1>1 DEF Fields
  <2>2. request' = [request EXCEPT ![r] = w]
    BY <1>2, <1>5 DEF Update
  <2> HIDE DEF w
  <2>3. request'[r] = w
    BY <1>1, <2>2
  <2>4. Sound(w)
    BY <1>1, <2>1 DEF Sound, RequestPhases, MaxAttempts
  <2> QED
    BY <1>1, <1>3, <2>1, <2>2, <2>3, <2>4 DEF Becomes
<1> QED
  BY <1>4, <1>5

LEMMA SucceedBecomes ==
    ASSUME AITypes, NEW r \in Prompters, Succeed(r)
    PROVE  /\ request[r].phase = "attempt" /\ answers' = answers
           /\ metrics' = [metrics EXCEPT !.success = @ + 1]
           /\ attempts' = [attempts EXCEPT !.answered = @ + 1]
           /\ Becomes(r, "keep") /\ request'[r].answer \in Answers
<1> DEFINE q == request[r]
<1>1. /\ Sound(q) /\ q.phase = "attempt" /\ DOMAIN q = Fields /\ q.kind \in Kinds
      /\ q.prompt \in Prompts /\ q.settings \in Settings /\ DOMAIN request = Prompters
  BY DEF AITypes, Succeed, Stage, Sound
<1>2. PICK usage \in Usages : Update(r, [q EXCEPT !.phase = "keep", !.answer = Answer(r, usage)])
  BY DEF Succeed
<1> DEFINE paid == Answer(r, usage)
           w == [q EXCEPT !.phase = "keep", !.answer = paid]
<1>3. paid \in Answers
  <2>1. usage.input \in Nat /\ usage.output \in Nat
    BY UsageAssumption
  <2>2. usage.input + usage.output \in Nat /\ CalculateCost(usage) \in Nat
    BY <2>1 DEF CalculateCost
  <2> QED
    BY <1>1, <2>2 DEF Answer, Answers
<1> HIDE DEF paid
<1>4. /\ w.phase = "keep" /\ w.answer = paid /\ DOMAIN w = Fields
      /\ w.kind = q.kind /\ w.prompt = q.prompt /\ w.settings = q.settings
  BY <1>1 DEF Fields
<1>5. request' = [request EXCEPT ![r] = w]
  BY <1>2 DEF Update, paid
<1> HIDE DEF w
<1>6. request'[r] = w
  BY <1>1, <1>5
<1>7. Sound(w)
  BY <1>1, <1>3, <1>4 DEF Sound, RequestPhases
<1> QED
  BY <1>1, <1>3, <1>4, <1>5, <1>6, <1>7 DEF Becomes, Succeed, responseCacheVars

LEMMA FailBecomes ==
    ASSUME AITypes, NEW r \in Prompters, Fail(r)
    PROVE  /\ request[r].phase = "attempt" /\ answers' = answers
           /\ attempts' = [attempts EXCEPT !.failed = @ + 1]
           /\ \/ /\ Becomes(r, "attempt") /\ request'[r].attempt = request[r].attempt + 1
                 /\ metrics' = [metrics EXCEPT !.errors = @ + 1]
              \/ /\ Becomes(r, "failed")
                 /\ metrics' = [metrics EXCEPT !.errors = @ + 1, !.error = @ + 1]
<1> DEFINE q == request[r]
<1>1. /\ Sound(q) /\ q.phase = "attempt" /\ DOMAIN q = Fields /\ q.kind \in Kinds
      /\ q.prompt \in Prompts /\ q.settings \in Settings /\ DOMAIN request = Prompters
      /\ q.attempt \in 1 .. MaxAttempts
  BY DEF AITypes, Fail, Stage, Sound
<1>2. /\ answers' = answers /\ attempts' = [attempts EXCEPT !.failed = @ + 1]
      /\ metrics \in [success : Nat, error : Nat, errors : Nat]
  BY DEF Fail, responseCacheVars, AITypes
<1>3. PICK again \in BOOLEAN :
        /\ again => q.attempt < MaxAttempts
        /\ Update(r, IF again THEN [q EXCEPT !.attempt = @ + 1] ELSE [q EXCEPT !.phase = "failed"])
        /\ metrics' = [metrics EXCEPT !.errors = @ + 1, !.error = IF again THEN @ ELSE @ + 1]
  <2>1. PICK error \in Errors :
          LET more == Retryable(HandleError(error), q.attempt) /\ q.attempt < MaxAttempts
          IN  /\ Update(r, IF more THEN [q EXCEPT !.attempt = @ + 1]
                           ELSE [q EXCEPT !.phase = "failed"])
              /\ metrics' = [metrics EXCEPT !.errors = @ + 1, !.error = IF more THEN @ ELSE @ + 1]
    BY DEF Fail
  <2> DEFINE more == Retryable(HandleError(error), q.attempt) /\ q.attempt < MaxAttempts
  <2>2. CASE more
    BY <2>1, <2>2
  <2>3. CASE ~more
    BY <2>1, <2>3
  <2> QED
    BY <2>2, <2>3
<1>4. CASE again
  <2> DEFINE w == [q EXCEPT !.attempt = @ + 1]
  <2>1. /\ w.phase = "attempt" /\ w.attempt = q.attempt + 1 /\ DOMAIN w = Fields
        /\ w.kind = q.kind /\ w.prompt = q.prompt /\ w.settings = q.settings
    BY <1>1 DEF Fields
  <2>2. request' = [request EXCEPT ![r] = w]
    BY <1>3, <1>4 DEF Update
  <2> HIDE DEF w
  <2>3. request'[r] = w
    BY <1>1, <2>2
  <2>4. Sound(w)
    BY <1>1, <1>3, <1>4, <2>1 DEF Sound, RequestPhases, MaxAttempts
  <2>5. metrics' = [metrics EXCEPT !.errors = @ + 1]
    BY <1>2, <1>3, <1>4
  <2> QED
    BY <1>1, <1>2, <2>1, <2>2, <2>3, <2>4, <2>5 DEF Becomes
<1>5. CASE ~again
  <2> DEFINE w == [q EXCEPT !.phase = "failed"]
  <2>1. /\ w.phase = "failed" /\ DOMAIN w = Fields
        /\ w.kind = q.kind /\ w.prompt = q.prompt /\ w.settings = q.settings
    BY <1>1 DEF Fields
  <2>2. request' = [request EXCEPT ![r] = w]
    BY <1>3, <1>5 DEF Update
  <2> HIDE DEF w
  <2>3. request'[r] = w
    BY <1>1, <2>2
  <2>4. Sound(w)
    BY <1>1, <2>1 DEF Sound, RequestPhases
  <2>5. metrics' = [metrics EXCEPT !.errors = @ + 1, !.error = @ + 1]
    BY <1>2, <1>3, <1>5
  <2> QED
    BY <1>1, <1>2, <2>1, <2>2, <2>3, <2>4, <2>5 DEF Becomes
<1> QED
  BY <1>3, <1>4, <1>5

LEMMA KeepBecomes ==
    ASSUME AITypes, NEW r \in Prompters, Keep(r)
    PROVE  /\ request[r].phase = "keep"
           /\ answers' \in [CacheKeys -> Answers \cup {NoAnswer}]
           /\ UNCHANGED <<metrics, attempts>>
           /\ Becomes(r, "answered") /\ request'[r].answer = request[r].answer
<1> DEFINE q == request[r]
           w == [q EXCEPT !.phase = "answered"]
<1>1. /\ Sound(q) /\ q.phase = "keep" /\ DOMAIN q = Fields /\ q.kind \in Kinds
      /\ q.prompt \in Prompts /\ q.settings \in Settings /\ DOMAIN request = Prompters
      /\ q.answer \in Answers
  BY DEF AITypes, Keep, Stage, Sound
<1>2. answers' \in [CacheKeys -> Answers \cup {NoAnswer}]
  BY <1>1 DEF Keep, SetCached, AITypes
<1>3. /\ w.phase = "answered" /\ DOMAIN w = Fields /\ w.answer = q.answer
      /\ w.kind = q.kind /\ w.prompt = q.prompt /\ w.settings = q.settings
  BY <1>1 DEF Fields
<1>4. request' = [request EXCEPT ![r] = w] /\ UNCHANGED <<metrics, attempts>>
  BY DEF Keep, Update
<1> HIDE DEF w
<1>5. request'[r] = w
  BY <1>1, <1>4
<1>6. Sound(w)
  BY <1>1, <1>3 DEF Sound, RequestPhases
<1> QED
  BY <1>1, <1>2, <1>3, <1>4, <1>5, <1>6 DEF Becomes

\* The spans of a call follow its request.
LEMMA CallSpans ==
    ASSUME AITypes, NEW r \in Prompters, Generate(r), NEW phase,
           request[r].phase \in {"lookup", "attempt", "keep"},
           phase \in {"attempt", "keep", "answered", "failed"}, Becomes(r, phase)
    PROVE  /\ openSpans' \in [rag : Int, retrieval : Int, llm : Int]
           /\ SpansFollow(request[r], request'[r])
<1> DEFINE q == request[r]
           w == request'[r]
           moves == [llm |-> (IF w.phase = "attempt" THEN 1 ELSE 0)
                                    - (IF q.phase = "attempt" THEN 1 ELSE 0),
                       rag |-> RagSpan(r, IF w.phase \in {"answered", "failed"}
                                          THEN -1 ELSE 0)]
<1>1. Span(moves)
  BY DEF Generate
<1>2. /\ DOMAIN moves = {"llm", "rag"}
      /\ moves["llm"] = One(w, {"attempt"}) - One(q, {"attempt"})
  BY DEF One
<1>3. moves["rag"] = IF UsesRetrieval(q.kind) /\ w.phase \in {"answered", "failed"}
                       THEN -1 ELSE 0
  BY DEF RagSpan
<1> HIDE DEF moves
<1>4. q.phase \in {"lookup", "attempt", "keep"} /\ w.phase = phase /\ w.kind = q.kind
  BY DEF Becomes
<1> HIDE DEF q, w
<1>5. moves["rag"] = OneRetrieving(w, RagPhases) - OneRetrieving(q, RagPhases)
  BY <1>3, <1>4 DEF OneRetrieving, RagPhases
<1>6. /\ One(w, {"retrieve"}) = 0 /\ One(q, {"retrieve"}) = 0
      /\ One(w, {"attempt"}) \in Int /\ One(q, {"attempt"}) \in Int
      /\ OneRetrieving(w, RagPhases) \in Int /\ OneRetrieving(q, RagPhases) \in Int
  BY <1>4 DEF One, OneRetrieving
<1>7. \A s \in DOMAIN moves : moves[s] \in Int
  BY <1>2, <1>5, <1>6
<1>8. /\ openSpans' \in [rag : Int, retrieval : Int, llm : Int]
      /\ openSpans'.rag = openSpans.rag + moves["rag"]
      /\ openSpans'.retrieval = openSpans.retrieval + 0
      /\ openSpans'.llm = openSpans.llm + moves["llm"]
  BY <1>1, <1>2, <1>7, SpansMove DEF Change
<1>9. /\ openSpans.rag \in Int /\ openSpans.retrieval \in Int /\ openSpans.llm \in Int
      /\ lost.retrievals \in Nat /\ lost' = lost
  BY DEF AITypes, Generate, books
<1>10. SpansFollow(q, w)
  BY <1>2, <1>5, <1>6, <1>8, <1>9 DEF SpansFollow
<1> QED
  BY <1>8, <1>10 DEF q, w

\* Without an answer from the provider nothing is spent.
LEMMA GeneratingKeeps ==
    ASSUME AIInv, NEW r \in Prompters, Generate(r)
    PROVE  AIInv'
<1> DEFINE q == request[r]
           w == request'[r]
<1>1. /\ AITypes /\ Sound(q) /\ started' = started
      /\ UNCHANGED <<tracked, stored, lost>>
  BY DEF AIInv, AITypes, Generate, books
<1>2. /\ metrics \in [success : Nat, error : Nat, errors : Nat]
      /\ attempts \in [answered : Nat, failed : Nat] /\ started \in Nat
      /\ spent \in [notification : Nat, completion : Nat, rag : Nat]
      /\ lost.retrievals \in Nat /\ lost' = lost /\ started' = started
  BY <1>1 DEF AITypes
<1>3. spent' = IF q.phase = "attempt" /\ w.phase = "keep"
               THEN [spent EXCEPT ![q.kind] = @ + w.answer.cost] ELSE spent
  BY DEF Generate, Stage
<1>4. /\ SumCosts(tracked) \in Int /\ SumCosts(stored) \in Int
      /\ SumCosts(tracked') = SumCosts(tracked) /\ SumCosts(stored') = SumCosts(stored)
  BY <1>1, CostsInt DEF AITypes
<1>5. ASSUME NEW phase \in {"attempt", "keep", "answered", "failed"}, Becomes(r, phase),
             q.phase \in {"lookup", "attempt", "keep"},
             answers' \in [CacheKeys -> Answers \cup {NoAnswer}],
             metrics' \in [success : Nat, error : Nat, errors : Nat],
             attempts' \in [answered : Nat, failed : Nat],
             spent' \in [notification : Nat, completion : Nat, rag : Nat],
             MemoryFollows(q, w), RowsFollow(q, w), MetricsFollow(q, w)
      PROVE  AIInv'
  <2>1. openSpans' \in [rag : Int, retrieval : Int, llm : Int] /\ SpansFollow(q, w)
    BY <1>1, <1>5, CallSpans
  <2>2. BookTypes'
    BY <1>1, <1>2, <1>5, <2>1 DEF BookTypes, AITypes
  <2>3. request' = [request EXCEPT ![r] = w] /\ Sound(w)
    BY <1>5 DEF Becomes
  <2> QED
    BY <1>5, <2>1, <2>2, <2>3, StepKeeps
<1>6. CASE Lookup(r)
  <2>1. /\ q.phase = "lookup" /\ answers' = answers /\ UNCHANGED <<metrics, attempts>>
        /\ \/ Becomes(r, "answered") /\ w.answer.cost = 0
           \/ Becomes(r, "attempt") /\ w.attempt = 1
    BY <1>1, <1>6, LookupBecomes
  <2>2. spent' = spent
    BY <1>3, <2>1
  <2>3. Sound(w) /\ w.phase \in {"answered", "attempt"}
    BY <2>1 DEF Becomes
  <2>4. \A k, phases : phases \in {Unbooked, AllDue} =>
            Share(q, k, phases) = 0 /\ Share(w, k, phases) = 0
    BY <2>1 DEF Share, Unbooked, AllDue, Becomes
  <2>5. MemoryFollows(q, w) /\ RowsFollow(q, w)
    BY <1>1, <2>2, <2>3, <2>4, BooksRest
  <2>6. /\ One(q, Unanswered) = 1 /\ One(w, Unanswered) \in {0, 1}
        /\ FailedBy(q) = 0 /\ FailedBy(w) = 0
    BY <2>1 DEF One, Unanswered, FailedBy, Becomes
  <2>7. metrics' = metrics /\ attempts' = attempts
    BY <2>1
  <2>8. MetricsFollow(q, w)
    BY <1>2, <2>6, <2>7 DEF MetricsFollow, MaxAttempts
  <2>9. answers' \in [CacheKeys -> Answers \cup {NoAnswer}]
    BY <1>1, <2>1 DEF AITypes
  <2> HIDE DEF q, w
  <2> QED
    BY <1>2, <1>5, <2>1, <2>2, <2>5, <2>7, <2>8, <2>9
<1>7. CASE Fail(r)
  <2>1. /\ q.phase = "attempt" /\ answers' = answers
        /\ attempts' = [attempts EXCEPT !.failed = @ + 1]
        /\ \/ /\ Becomes(r, "attempt") /\ w.attempt = q.attempt + 1
              /\ metrics' = [metrics EXCEPT !.errors = @ + 1]
           \/ /\ Becomes(r, "failed")
              /\ metrics' = [metrics EXCEPT !.errors = @ + 1, !.error = @ + 1]
    BY <1>1, <1>7, FailBecomes
  <2>2. Sound(w) /\ w.phase \in {"failed", "attempt"}
    BY <2>1 DEF Becomes
  <2>3. spent' = spent
    BY <1>3, <2>2
  <2>4. \A k, phases : phases \in {Unbooked, AllDue} =>
            Share(q, k, phases) = 0 /\ Share(w, k, phases) = 0
    BY <2>1, <2>2 DEF Share, Unbooked, AllDue
  <2>5. MemoryFollows(q, w) /\ RowsFollow(q, w)
    BY <1>1, <2>2, <2>3, <2>4, BooksRest
  <2>6. answers' \in [CacheKeys -> Answers \cup {NoAnswer}]
    BY <1>1, <2>1 DEF AITypes
  <2>7. /\ q.attempt \in 1 .. MaxAttempts
        /\ One(q, Unanswered) = 1 /\ FailedBy(q) = q.attempt - 1
    BY <1>1, <2>1 DEF Sound, One, Unanswered, FailedBy
  <2>8. /\ attempts' \in [answered : Nat, failed : Nat]
        /\ attempts'.answered = attempts.answered /\ attempts'.failed = attempts.failed + 1
    BY <1>2, <2>1
  <2>9. CASE Becomes(r, "attempt") /\ w.attempt = q.attempt + 1
                /\ metrics' = [metrics EXCEPT !.errors = @ + 1]
    <3>1. One(w, Unanswered) = 1 /\ FailedBy(w) = q.attempt
      BY <2>7, <2>9 DEF Becomes, One, Unanswered, FailedBy, MaxAttempts
    <3>2. /\ metrics' \in [success : Nat, error : Nat, errors : Nat]
          /\ metrics'.success = metrics.success /\ metrics'.error = metrics.error
          /\ metrics'.errors = metrics.errors + 1
      BY <1>2, <2>9
    <3>3. MetricsFollow(q, w)
      BY <1>2, <2>7, <2>8, <3>1, <3>2 DEF MetricsFollow, MaxAttempts
    <3> HIDE DEF q, w
    <3> QED
      BY <1>2, <1>5, <2>1, <2>3, <2>5, <2>6, <2>8, <2>9, <3>2, <3>3
  <2>10. CASE Becomes(r, "failed")
                /\ metrics' = [metrics EXCEPT !.errors = @ + 1, !.error = @ + 1]
    <3>1. One(w, Unanswered) = 0 /\ FailedBy(w) = 0
      BY <2>10 DEF Becomes, One, Unanswered, FailedBy
    <3>2. /\ metrics' \in [success : Nat, error : Nat, errors : Nat]
          /\ metrics'.success = metrics.success /\ metrics'.error = metrics.error + 1
          /\ metrics'.errors = metrics.errors + 1
      <4>1. metrics.error + 1 \in Nat /\ metrics.errors + 1 \in Nat
        BY <1>2
      <4> DEFINE m == metrics.error + 1
                 n == metrics.errors + 1
      <4>2. metrics' = [metrics EXCEPT !.errors = n, !.error = m]
        BY <2>10
      <4>3. m \in Nat /\ n \in Nat
        BY <4>1
      <4> HIDE DEF m, n
      <4>4. /\ metrics' \in [success : Nat, error : Nat, errors : Nat]
            /\ metrics'.success = metrics.success /\ metrics'.error = m /\ metrics'.errors = n
        BY <1>2, <4>2, <4>3
      <4> QED
        BY <4>4 DEF m, n
    <3>3. MetricsFollow(q, w)
      BY <1>2, <2>7, <2>8, <3>1, <3>2 DEF MetricsFollow, MaxAttempts
    <3> HIDE DEF q, w
    <3> QED
      BY <1>2, <1>5, <2>1, <2>3, <2>5, <2>6, <2>8, <2>10, <3>2, <3>3
  <2> QED
    BY <2>1, <2>9, <2>10
<1>8. CASE Keep(r)
  <2>1. /\ q.phase = "keep" /\ answers' \in [CacheKeys -> Answers \cup {NoAnswer}]
        /\ UNCHANGED <<metrics, attempts>> /\ Becomes(r, "answered") /\ w.answer = q.answer
    BY <1>1, <1>8, KeepBecomes
  <2>2. Sound(w) /\ w.phase = "answered" /\ w.kind = q.kind
    BY <2>1 DEF Becomes
  <2>3. spent' = spent
    BY <1>3, <2>1
  <2>4. \A k, phases : phases \in {Unbooked, AllDue} => Share(w, k, phases) = Share(q, k, phases)
    BY <2>1, <2>2 DEF Share, Unbooked, AllDue
  <2>5. MemoryFollows(q, w) /\ RowsFollow(q, w)
    BY <1>1, <2>2, <2>3, <2>4, BooksRest
  <2>6. One(q, Unanswered) = 0 /\ One(w, Unanswered) = 0 /\ FailedBy(q) = 0 /\ FailedBy(w) = 0
    BY <2>1, <2>2 DEF One, Unanswered, FailedBy
  <2>7. metrics' = metrics /\ attempts' = attempts
    BY <2>1
  <2>8. MetricsFollow(q, w)
    BY <1>2, <2>6, <2>7 DEF MetricsFollow, MaxAttempts
  <2> HIDE DEF q, w
  <2> QED
    BY <1>2, <1>5, <2>1, <2>3, <2>5, <2>7, <2>8
<1>9. CASE Succeed(r)
  <2>1. /\ q.phase = "attempt" /\ answers' = answers
        /\ metrics' = [metrics EXCEPT !.success = @ + 1]
        /\ attempts' = [attempts EXCEPT !.answered = @ + 1]
        /\ Becomes(r, "keep") /\ w.answer \in Answers
    BY <1>1, <1>9, SucceedBecomes
  <2>2. Sound(w) /\ w.phase = "keep" /\ w.kind = q.kind /\ q.kind \in Kinds
    BY <1>1, <2>1 DEF Becomes, Sound
  <2> DEFINE cost == w.answer.cost
  <2>3. cost \in Nat
    BY <2>1 DEF Answers
  <2>4. /\ spent' \in [notification : Nat, completion : Nat, rag : Nat]
        /\ spent'.notification
             = spent.notification + (IF q.kind = "notification" THEN cost ELSE 0)
        /\ spent'.completion
             = spent.completion + (IF q.kind = "completion" THEN cost ELSE 0)
    <3>1. spent' = [spent EXCEPT ![q.kind] = @ + cost]
      BY <1>3, <2>1, <2>2
    <3> HIDE DEF cost
    <3> QED
      BY <1>2, <2>2, <2>3, <3>1 DEF Kinds
  <2>5. \A k, phases : phases \in {Unbooked, AllDue} =>
            /\ Share(q, k, phases) = 0
            /\ Share(w, k, phases) = IF q.kind = k THEN cost ELSE 0
    BY <2>1, <2>2 DEF Share, Unbooked, AllDue
  <2>6. lost.evicted \in Nat /\ lost.unstored \in Nat
    BY <1>1 DEF AITypes
  <2>7. MemoryFollows(q, w)
    BY <1>2, <1>4, <2>3, <2>4, <2>5, <2>6 DEF MemoryFollows
  <2>8. RowsFollow(q, w)
    BY <1>2, <1>4, <2>3, <2>4, <2>5, <2>6 DEF RowsFollow
  <2>9. /\ q.attempt \in 1 .. MaxAttempts /\ FailedBy(q) = q.attempt - 1
        /\ One(q, Unanswered) = 1 /\ One(w, Unanswered) = 0 /\ FailedBy(w) = 0
    BY <1>1, <2>1, <2>2 DEF Sound, One, Unanswered, FailedBy
  <2>10. /\ metrics' \in [success : Nat, error : Nat, errors : Nat]
         /\ metrics'.success = metrics.success + 1 /\ metrics'.error = metrics.error
         /\ metrics'.errors = metrics.errors
         /\ attempts' \in [answered : Nat, failed : Nat]
         /\ attempts'.answered = attempts.answered + 1 /\ attempts'.failed = attempts.failed
    BY <1>2, <2>1
  <2>11. MetricsFollow(q, w)
    BY <1>2, <2>9, <2>10 DEF MetricsFollow, MaxAttempts
  <2>12. answers' \in [CacheKeys -> Answers \cup {NoAnswer}]
    BY <1>1, <2>1 DEF AITypes
  <2> HIDE DEF q, w, cost
  <2> QED
    BY <1>5, <2>1, <2>4, <2>7, <2>8, <2>10, <2>11, <2>12
<1> QED
  BY <1>6, <1>7, <1>8, <1>9 DEF Generate, GenerateCompletion

LEMMA TrackingKeeps ==
    ASSUME AIInv, NEW r \in Prompters, TrackRequest(r)
    PROVE  AIInv'
<1> DEFINE q == request[r]
           c == Cost(r)
           longer == Append(tracked, c)
           excess == Len(longer) > MaxMetrics
           w == IF q.kind = "notification"
                THEN [q EXCEPT !.phase = "store", !.answer = [cost |-> c]] ELSE NewRequest
<1>1. /\ AITypes /\ Sound(q) /\ q.phase \in {"answered", "failed"} /\ DOMAIN q = Fields
      /\ q.kind \in Kinds /\ q.kind # "rag" /\ q.prompt \in Prompts /\ q.settings \in Settings
  BY DEF AIInv, AITypes, TrackRequest, Finished, Sound
<1>2. c \in Nat
  BY <1>1 DEF Sound, Answers, Cost, Stage
<1>3. /\ request' = [request EXCEPT ![r] = w]
      /\ UNCHANGED <<answers, metrics, attempts, started, stored, openSpans, spent>>
      /\ tracked' = IF excess THEN Tail(longer) ELSE longer
      /\ lost' = [lost EXCEPT !.evicted = @ + IF excess THEN Head(longer) ELSE 0]
  BY DEF TrackRequest, Update, responseCacheVars
<1>4. Sound(w) /\ w.phase = (IF q.kind = "notification" THEN "store" ELSE "idle")
      /\ (q.kind = "notification" => w.answer.cost = c /\ w.kind = "notification")
  <2>1. CASE q.kind = "notification"
    <3> DEFINE price == [cost |-> c]
               v == [q EXCEPT !.phase = "store", !.answer = price]
    <3>1. price.cost = c
      OBVIOUS
    <3> HIDE DEF price, c
    <3>2. /\ v.phase = "store" /\ v.answer = price /\ DOMAIN v = Fields
          /\ v.kind = q.kind /\ v.prompt = q.prompt /\ v.settings = q.settings
      BY <1>1 DEF Fields
    <3>3. w = v
      BY <2>1 DEF price
    <3> HIDE DEF v, w
    <3> QED
      BY <1>1, <1>2, <2>1, <3>1, <3>2, <3>3 DEF Sound, RequestPhases
  <2>2. CASE q.kind # "notification"
    BY <2>2 DEF NewRequest, Sound, RequestPhases
  <2> QED
    BY <2>1, <2>2
<1>5. /\ tracked \in Seq(Nat) /\ longer \in Seq(Nat) /\ longer # << >>
      /\ Head(longer) \in Nat /\ Tail(longer) \in Seq(Nat)
  <2>1. tracked \in Seq(Nat)
    BY <1>1 DEF AITypes
  <2> HIDE DEF c
  <2>2. longer \in Seq(Nat) /\ Len(longer) = Len(tracked) + 1
    BY <1>2, <2>1
  <2>3. Len(tracked) \in Nat
    BY <2>1
  <2> HIDE DEF longer
  <2>4. longer # << >>
    BY <2>2, <2>3
  <2> QED
    BY <2>1, <2>2, <2>4
<1>6. SumCosts(longer) = SumCosts(tracked) + c
  BY <1>2, <1>5, CostsOfLonger
<1>7. SumCosts(Tail(longer)) = SumCosts(longer) - Head(longer)
  <2> HIDE DEF longer
  <2> QED
    BY <1>5, CostsOfTail
<1>8. SumCosts(tracked) \in Int
  BY <1>5, CostsInt
<1> HIDE DEF w, c, longer, excess
<1>9. lost \in [evicted : Nat, unstored : Nat, retrievals : Nat]
  BY <1>1 DEF AITypes
<1>10. /\ tracked' \in Seq(Nat)
       /\ lost' \in [evicted : Nat, unstored : Nat, retrievals : Nat]
       /\ lost'.unstored = lost.unstored /\ lost'.retrievals = lost.retrievals
       /\ (SumCosts(tracked') - SumCosts(tracked)) + (lost'.evicted - lost.evicted) = c
  <2>1. CASE excess
    <3>1. tracked' = Tail(longer) /\ lost' = [lost EXCEPT !.evicted = @ + Head(longer)]
      BY <1>3, <2>1
    <3>2. /\ lost' \in [evicted : Nat, unstored : Nat, retrievals : Nat]
          /\ lost'.unstored = lost.unstored /\ lost'.retrievals = lost.retrievals
          /\ lost'.evicted = lost.evicted + Head(longer)
      <4> DEFINE more == lost.evicted + Head(longer)
      <4>1. more \in Nat
        BY <1>5, <1>9
      <4>2. lost' = [lost EXCEPT !.evicted = more]
        BY <3>1
      <4> HIDE DEF more
      <4>3. /\ lost' \in [evicted : Nat, unstored : Nat, retrievals : Nat]
            /\ lost'.unstored = lost.unstored /\ lost'.retrievals = lost.retrievals
            /\ lost'.evicted = more
        BY <1>9, <4>1, <4>2
      <4> QED
        BY <4>3 DEF more
    <3>3. SumCosts(tracked') = SumCosts(tracked) + c - Head(longer)
      <4>1. SumCosts(tracked') = SumCosts(Tail(longer))
        BY <3>1
      <4> QED
        BY <1>2, <1>5, <1>6, <1>7, <1>8, <4>1
    <3>4. tracked' \in Seq(Nat)
      BY <1>5, <3>1
    <3>5. (SumCosts(tracked') - SumCosts(tracked)) + (lost'.evicted - lost.evicted) = c
      <4>1. lost.evicted \in Int /\ Head(longer) \in Int /\ c \in Int
        BY <1>2, <1>5, <1>9
      <4> QED
        BY <1>8, <3>2, <3>3, <4>1
    <3> QED
      BY <3>2, <3>4, <3>5
  <2>2. CASE ~excess
    <3>1. tracked' = longer /\ lost' = [lost EXCEPT !.evicted = @ + 0]
      BY <1>3, <2>2
    <3>2. /\ lost' \in [evicted : Nat, unstored : Nat, retrievals : Nat]
          /\ lost'.unstored = lost.unstored /\ lost'.retrievals = lost.retrievals
          /\ lost'.evicted = lost.evicted
      BY <1>9, <3>1
    <3>3. SumCosts(tracked') = SumCosts(tracked) + c
      BY <1>6, <3>1
    <3> QED
      BY <1>2, <1>5, <1>8, <1>9, <3>1, <3>2, <3>3
  <2> QED
    BY <2>1, <2>2
<1>11. BookTypes'
  BY <1>1, <1>3, <1>10 DEF AITypes, BookTypes
<1>12. SpansFollow(q, w)
  <2>1. /\ One(q, {"attempt"}) = 0 /\ One(w, {"attempt"}) = 0
        /\ One(q, {"retrieve"}) = 0 /\ One(w, {"retrieve"}) = 0
        /\ OneRetrieving(q, RagPhases) = 0 /\ OneRetrieving(w, RagPhases) = 0
    BY <1>1, <1>4 DEF One, OneRetrieving, RagPhases
  <2>2. /\ openSpans' = openSpans /\ openSpans.llm \in Int /\ openSpans.rag \in Int
        /\ openSpans.retrieval \in Int /\ lost.retrievals \in Nat
    BY <1>1, <1>3 DEF AITypes
  <2> QED
    BY <1>10, <2>1, <2>2 DEF SpansFollow
<1>13. MetricsFollow(q, w)
  <2>1. /\ One(q, Unanswered) = 0 /\ One(w, Unanswered) = 0
        /\ FailedBy(q) = 0 /\ FailedBy(w) = 0
    BY <1>1, <1>4 DEF One, Unanswered, FailedBy
  <2>2. /\ metrics.success \in Nat /\ metrics.error \in Nat /\ metrics.errors \in Nat
        /\ attempts.answered \in Nat /\ attempts.failed \in Nat
        /\ started \in Nat /\ lost.retrievals \in Nat
    BY <1>1 DEF AITypes
  <2>3. metrics' = metrics /\ attempts' = attempts /\ started' = started
    BY <1>3
  <2>4. /\ metrics'.success - metrics.success = 0 /\ metrics'.error - metrics.error = 0
        /\ metrics'.errors - metrics.errors = 0
        /\ attempts'.answered - attempts.answered = 0 /\ attempts'.failed - attempts.failed = 0
        /\ lost'.retrievals - lost.retrievals = 0
    BY <1>10, <2>2, <2>3
  <2>5. started' - started = 0
    BY <2>2, <2>3
  <2> QED
    BY <2>1, <2>4, <2>5 DEF MetricsFollow, MaxAttempts
\* What the answer cost: nothing is due any more in memory, and the row still is.
<1>14. q.phase = "failed" => c = 0
  BY DEF c, Cost, Stage
<1>15. q.phase = "answered" => c = q.answer.cost
  BY DEF c, Cost, Stage
<1>16. /\ Share(w, "notification", Unbooked) = 0 /\ Share(w, "completion", Unbooked) = 0
       /\ Share(w, "notification", AllDue) = IF q.kind = "notification" THEN c ELSE 0
  BY <1>4 DEF Share, Unbooked, AllDue
<1>17. /\ Share(q, "notification", Unbooked) = IF q.kind = "notification" THEN c ELSE 0
       /\ Share(q, "completion", Unbooked) = IF q.kind = "completion" THEN c ELSE 0
       /\ Share(q, "notification", AllDue) = IF q.kind = "notification" THEN c ELSE 0
  BY <1>1, <1>14, <1>15 DEF Share, Unbooked, AllDue
<1>18. q.kind \in {"notification", "completion"}
  BY <1>1 DEF Kinds
<1>19. /\ spent' = spent /\ stored' = stored
       /\ spent.notification \in Nat /\ spent.completion \in Nat
       /\ SumCosts(stored) \in Int /\ lost.unstored \in Nat
  BY <1>1, <1>3, CostsInt DEF AITypes
<1> HIDE DEF q
<1>20. MemoryFollows(q, w)
  <2> DEFINE moved == (SumCosts(tracked') - SumCosts(tracked)) + (lost'.evicted - lost.evicted)
  <2>1. moved = c
    BY <1>10
  <2> HIDE DEF moved
  <2>2. (spent'.notification + spent'.completion) - (spent.notification + spent.completion) = 0
    BY <1>19
  <2>3. 0 = moved
          + (Share(w, "notification", Unbooked) - Share(q, "notification", Unbooked))
          + (Share(w, "completion", Unbooked) - Share(q, "completion", Unbooked))
    BY <1>2, <1>16, <1>17, <1>18, <2>1
  <2> QED
    BY <2>2, <2>3 DEF MemoryFollows, moved
<1>21. RowsFollow(q, w)
  <2>1. /\ spent'.notification - spent.notification = 0
        /\ SumCosts(stored') - SumCosts(stored) = 0
        /\ lost'.unstored - lost.unstored = 0
        /\ Share(w, "notification", AllDue) - Share(q, "notification", AllDue) = 0
    BY <1>2, <1>10, <1>16, <1>17, <1>19
  <2> QED
    BY <2>1 DEF RowsFollow
<1> QED
  BY <1>3, <1>4, <1>11, <1>12, <1>13, <1>20, <1>21, StepKeeps DEF q

\* A slot that nothing is due from any more is free again.
LEMMA FreeIsSound == Sound(NewRequest) /\ NewRequest.phase = "idle"
  BY DEF NewRequest, Sound, RequestPhases

\* A request that is over and leaves the spans and the metrics alone.
LEMMA LeavingFollows ==
    ASSUME AITypes, NEW r \in Prompters, request[r].phase \in {"answered", "failed", "store"},
           UNCHANGED <<metrics, attempts, started, openSpans>>,
           lost'.retrievals = lost.retrievals
    PROVE  SpansFollow(request[r], NewRequest) /\ MetricsFollow(request[r], NewRequest)
<1> DEFINE q == request[r]
           w == NewRequest
<1>1. q.phase \in {"answered", "failed", "store"} /\ w.phase = "idle"
  BY FreeIsSound
<1> HIDE DEF q, w
<1>2. SpansFollow(q, w)
  <2>1. /\ One(q, {"attempt"}) = 0 /\ One(w, {"attempt"}) = 0
        /\ One(q, {"retrieve"}) = 0 /\ One(w, {"retrieve"}) = 0
        /\ OneRetrieving(q, RagPhases) = 0 /\ OneRetrieving(w, RagPhases) = 0
    BY <1>1 DEF One, OneRetrieving, RagPhases
  <2>2. /\ openSpans' = openSpans /\ openSpans.llm \in Int /\ openSpans.rag \in Int
        /\ openSpans.retrieval \in Int /\ lost.retrievals \in Nat
    BY DEF AITypes
  <2> QED
    BY <2>1, <2>2 DEF SpansFollow
<1>3. MetricsFollow(q, w)
  <2>1. /\ One(q, Unanswered) = 0 /\ One(w, Unanswered) = 0
        /\ FailedBy(q) = 0 /\ FailedBy(w) = 0
    BY <1>1 DEF One, Unanswered, FailedBy
  <2>2. /\ metrics.success \in Nat /\ metrics.error \in Nat /\ metrics.errors \in Nat
        /\ attempts.answered \in Nat /\ attempts.failed \in Nat
        /\ started \in Nat /\ lost.retrievals \in Nat
    BY DEF AITypes
  <2>3. metrics' = metrics /\ attempts' = attempts /\ started' = started
    OBVIOUS
  <2> QED
    BY <2>1, <2>2, <2>3 DEF MetricsFollow, MaxAttempts
<1> QED
  BY <1>2, <1>3 DEF q, w

LEMMA UntrackedKeeps ==
    ASSUME AIInv, NEW r \in Prompters, AnswerUntracked(r)
    PROVE  AIInv'
<1> DEFINE q == request[r]
           w == NewRequest
<1>1. /\ AITypes /\ Sound(q) /\ q.phase \in {"answered", "failed"} /\ q.kind = "rag"
      /\ Sound(w) /\ w.phase = "idle"
  BY FreeIsSound DEF AIInv, AITypes, AnswerUntracked, Finished
<1>2. /\ request' = [request EXCEPT ![r] = w]
      /\ UNCHANGED <<answers, metrics, attempts, started, openSpans, spent>>
      /\ UNCHANGED <<tracked, stored, lost>>
  BY DEF AnswerUntracked, Update, responseCacheVars, books
<1>3. BookTypes'
  BY <1>1, <1>2 DEF AITypes, BookTypes
<1>4. SpansFollow(q, w) /\ MetricsFollow(q, w)
  BY <1>1, <1>2, LeavingFollows
<1>5. MemoryFollows(q, w) /\ RowsFollow(q, w)
  <2>1. \A phases : phases \in {Unbooked, AllDue} =>
            /\ Share(q, "notification", phases) = 0 /\ Share(w, "notification", phases) = 0
            /\ Share(q, "completion", phases) = 0 /\ Share(w, "completion", phases) = 0
    BY <1>1 DEF Share, Unbooked, AllDue
  <2> QED
    BY <1>1, <1>2, <2>1, BooksRest
<1> QED
  BY <1>1, <1>2, <1>3, <1>4, <1>5, StepKeeps

LEMMA StoringKeeps ==
    ASSUME AIInv, NEW r \in Prompters, StoreInteraction(r)
    PROVE  AIInv'
<1> DEFINE q == request[r]
           c == q.answer.cost
           w == NewRequest
<1>1. /\ AITypes /\ Sound(q) /\ q.phase = "store" /\ q.kind = "notification" /\ c \in Nat
      /\ Sound(w) /\ w.phase = "idle"
  BY FreeIsSound DEF AIInv, AITypes, StoreInteraction, Stage, Sound
<1>2. /\ request' = [request EXCEPT ![r] = w]
      /\ UNCHANGED <<answers, metrics, attempts, started, openSpans, spent, tracked>>
      /\ \/ stored' = Append(stored, c) /\ lost' = lost
         \/ lost' = [lost EXCEPT !.unstored = @ + c] /\ stored' = stored
  BY DEF StoreInteraction, Update, responseCacheVars
<1>3. /\ lost \in [evicted : Nat, unstored : Nat, retrievals : Nat] /\ stored \in Seq(Nat)
      /\ SumCosts(stored) \in Int /\ SumCosts(tracked) \in Int
      /\ spent.notification \in Nat /\ spent.completion \in Nat
  BY <1>1, CostsInt DEF AITypes
<1> HIDE DEF c, w
<1>4. /\ lost' \in [evicted : Nat, unstored : Nat, retrievals : Nat] /\ stored' \in Seq(Nat)
      /\ lost'.evicted = lost.evicted /\ lost'.retrievals = lost.retrievals
      /\ (SumCosts(stored') - SumCosts(stored)) + (lost'.unstored - lost.unstored) = c
  <2>1. CASE stored' = Append(stored, c) /\ lost' = lost
    <3>1. SumCosts(stored') = SumCosts(stored) + c /\ stored' \in Seq(Nat)
      BY <1>1, <1>3, <2>1, CostsOfLonger
    <3> QED
      BY <1>1, <1>3, <2>1, <3>1
  <2>2. CASE lost' = [lost EXCEPT !.unstored = @ + c] /\ stored' = stored
    <3> DEFINE more == lost.unstored + c
    <3>1. more \in Nat /\ lost' = [lost EXCEPT !.unstored = more]
      BY <1>1, <1>3, <2>2
    <3> HIDE DEF more
    <3>2. /\ lost' \in [evicted : Nat, unstored : Nat, retrievals : Nat]
          /\ lost'.evicted = lost.evicted /\ lost'.retrievals = lost.retrievals
          /\ lost'.unstored = more
      BY <1>3, <3>1
    <3>3. SumCosts(stored') = SumCosts(stored)
      BY <2>2
    <3> QED
      BY <1>1, <1>3, <2>2, <3>2, <3>3 DEF more
  <2> QED
    BY <1>2, <2>1, <2>2
<1>5. BookTypes'
  BY <1>1, <1>2, <1>4 DEF AITypes, BookTypes
<1>6. SpansFollow(q, w) /\ MetricsFollow(q, w)
  BY <1>1, <1>2, <1>4, LeavingFollows DEF w
<1>7. /\ Share(q, "notification", Unbooked) = 0 /\ Share(q, "completion", Unbooked) = 0
      /\ Share(w, "notification", Unbooked) = 0 /\ Share(w, "completion", Unbooked) = 0
      /\ Share(q, "notification", AllDue) = c /\ Share(w, "notification", AllDue) = 0
  BY <1>1 DEF Share, Unbooked, AllDue, c
<1>8. spent' = spent /\ SumCosts(tracked') = SumCosts(tracked)
  BY <1>2
<1> HIDE DEF q
<1>9. MemoryFollows(q, w)
  BY <1>3, <1>4, <1>7, <1>8 DEF MemoryFollows
<1>10. RowsFollow(q, w)
  <2> DEFINE moved == (SumCosts(stored') - SumCosts(stored)) + (lost'.unstored - lost.unstored)
  <2>1. moved = c
    BY <1>4
  <2> HIDE DEF moved
  <2>2. 0 = moved + (Share(w, "notification", AllDue) - Share(q, "notification", AllDue))
    BY <1>1, <1>7, <2>1
  <2>3. spent'.notification - spent.notification = 0
    BY <1>3, <1>8
  <2> QED
    BY <2>2, <2>3 DEF RowsFollow, moved
<1> QED
  BY <1>1, <1>2, <1>5, <1>6, <1>9, <1>10, StepKeeps DEF q

\* Requests that stay as they are keep what is said of them.
LEMMA RequestsStay ==
    ASSUME AIInv, answers' \in [CacheKeys -> Answers \cup {NoAnswer}],
           UNCHANGED <<request, metrics, attempts, started, openSpans, spent>>,
           UNCHANGED <<tracked, stored, lost>>
    PROVE  AIInv'
<1>1. AITypes'
  BY DEF AIInv, AITypes
<1>2. EverySpanEnds'
  BY DEF AIInv, EverySpanEnds
<1>3. CallsAreCounted'
  BY DEF AIInv, CallsAreCounted, InPhases
<1>4. ErrorsAreBounded'
  <2>1. FailedSoFar' = FailedSoFar
    BY DEF FailedSoFar, Failed, InPhases, SumFunctionOnSet, FoldFunctionOnSet, MapThenFoldSet
  <2> QED
    BY <2>1 DEF AIInv, ErrorsAreBounded
<1>5. SpendIsAccountedFor'
  <2>1. ASSUME NEW kind, NEW phases PROVE Pending(kind, phases)' = Pending(kind, phases)
    BY DEF Pending, Cost, Stage, FoldFunctionOnSet, MapThenFoldSet
  <2>2. SumCosts(tracked)' = SumCosts(tracked) /\ SumCosts(stored)' = SumCosts(stored)
    BY DEF SumCosts, FoldSeq, FoldFunction, FoldFunctionOnSet, MapThenFoldSet
  <2> QED
    BY <2>1, <2>2 DEF AIInv, SpendIsAccountedFor
<1> QED
  BY <1>1, <1>2, <1>3, <1>4, <1>5 DEF AIInv

LEMMA MaintenanceKeeps ==
    ASSUME AIInv, CacheMaintenance, UNCHANGED <<started, openSpans, spent, books>>
    PROVE  AIInv'
<1>1. answers \in [CacheKeys -> Answers \cup {NoAnswer}]
  BY DEF AIInv, AITypes
<1>2. answers' \in [CacheKeys -> Answers \cup {NoAnswer}]
  <2>1. ASSUME NEW k \in CacheKeys, InvalidateCached(k)
        PROVE  answers' \in [CacheKeys -> Answers \cup {NoAnswer}]
    BY <1>1, <2>1 DEF InvalidateCached
  <2>2. CASE ClearAll
    BY <2>2 DEF ClearAll
  <2>3. CASE Reconnects
    BY <1>1, <2>3 DEF Reconnects
  <2> QED
    BY <2>1, <2>2, <2>3 DEF CacheMaintenance
<1> QED
  BY <1>2, RequestsStay DEF CacheMaintenance, books

\* An attempt failed at most twice before.
LEMMA FailuresAreFew ==
    ASSUME AITypes
    PROVE  /\ Cardinality(InPhases({"attempt"})) \in Nat
           /\ FailedSoFar \in Int
           /\ FailedSoFar <= MaxAttempts * Cardinality(InPhases({"attempt"}))
<1> DEFINE S == InPhases({"attempt"})
           G == {s \in SUBSET S : /\ Cardinality(s) \in Nat
                                  /\ SumFunctionOnSet(Failed, s) \in Int
                                  /\ SumFunctionOnSet(Failed, s) <= 3 * Cardinality(s)}
<1>1. IsFiniteSet(S)
  <2>1. S \subseteq {r \in Prompters : request[r].phase # "idle"}
    BY DEF InPhases
  <2> QED
    BY <2>1, FS_Subset DEF AITypes
<1>2. ASSUME NEW r \in S PROVE Failed[r] \in 0 .. 2
  <2>1. r \in Prompters /\ request[r].phase = "attempt"
    BY DEF InPhases
  <2>2. Sound(request[r])
    BY <2>1 DEF AITypes
  <2>3. request[r].attempt \in 1 .. MaxAttempts
    BY <2>1, <2>2 DEF Sound
  <2> QED
    BY <2>1, <2>3 DEF Failed, MaxAttempts
<1>3. ASSUME NEW s \in SUBSET S, \A x \in s : s \ {x} \in G PROVE s \in G
  <2>1. IsFiniteSet(s)
    BY <1>1, FS_Subset
  <2>2. \A y \in s : Failed[y] \in Int
    BY <1>2
  <2>3. CASE s = {}
    <3>1. SumFunctionOnSet(Failed, {}) = 0 /\ Cardinality({}) = 0
      BY SumOfNone, FS_EmptySet
    <3> QED
      BY <2>3, <3>1
  <2>4. CASE s # {}
    <3>1. PICK x \in s : TRUE
      BY <2>4
    <3> DEFINE t == s \ {x}
    <3>2. /\ t \in SUBSET S /\ Cardinality(t) \in Nat /\ SumFunctionOnSet(Failed, t) \in Int
          /\ SumFunctionOnSet(Failed, t) <= 3 * Cardinality(t)
      BY <1>3
    <3>3. Cardinality(s) = Cardinality(t) + 1
      <4>1. Cardinality(t) = Cardinality(s) - 1 /\ Cardinality(s) \in Nat
        BY <2>1, FS_RemoveElement, FS_CardinalityType
      <4> HIDE DEF t
      <4> QED
        BY <4>1
    <3>4. SumFunctionOnSet(Failed, s) = Failed[x] + SumFunctionOnSet(Failed, t)
      BY <2>1, <2>2, SumRemoves
    <3>5. Failed[x] \in 0 .. 2
      BY <1>2
    <3> HIDE DEF t
    <3> QED
      BY <3>2, <3>3, <3>4, <3>5
  <2> QED
    BY <2>3, <2>4
<1> HIDE DEF G
<1>4. \A s \in SUBSET S : (\A x \in s : s \ {x} \in G) => s \in G
  BY <1>3
<1> HIDE DEF S
<1>5. \A s \in SUBSET S : s \in G
  BY <1>1, <1>4, Removing
<1>6. S \in G
  BY <1>5
<1> QED
  BY <1>6 DEF G, S, FailedSoFar, MaxAttempts

\* What the provider charged is booked, or on its way, or known to be lost; the
\* spans end with their calls; and every call at the provider is counted once:
\* generate-notification, the completion endpoint and the RAG endpoints keep
\* their accounts whatever fails in between.
THEOREM RequestsAccounted == AISpec => []RequestsAreAccountedFor
<1>1. AIInit => AIInv
  BY AIStarts
<1>2. AIInv /\ [AINext]_aiVars => AIInv'
  <2> SUFFICES ASSUME AIInv, [AINext]_aiVars PROVE AIInv'
    OBVIOUS
  <2>1. ASSUME NEW r \in Prompters, RequestStep(r) PROVE AIInv'
    <3>1. ASSUME NEW kind \in DOMAIN spent, NEW p \in Prompts, NEW s \in Settings,
                 ReceiveRequest(r, kind, p, s)
          PROVE  AIInv'
      <4>1. kind \in Kinds
        BY DEF AIInv, AITypes, Kinds
      <4> QED
        BY <3>1, <4>1, ReceivingKeeps
    <3> QED
      BY <2>1, <3>1, RetrievingKeeps, GeneratingKeeps, TrackingKeeps, StoringKeeps,
         UntrackedKeeps DEF RequestStep
  <2>2. CASE CacheMaintenance /\ UNCHANGED <<started, openSpans, spent, books>>
    BY <2>2, MaintenanceKeeps
  <2>3. CASE UNCHANGED aiVars
    <3>1. answers' \in [CacheKeys -> Answers \cup {NoAnswer}]
      BY <2>3 DEF aiVars, llmVars, responseCacheVars, AIInv, AITypes
    <3> QED
      BY <2>3, <3>1, RequestsStay DEF aiVars, llmVars
  <2> QED
    BY <2>1, <2>2, <2>3 DEF AINext
<1>3. AIInv => RequestsAreAccountedFor
  <2> SUFFICES ASSUME AIInv PROVE RequestsAreAccountedFor
    OBVIOUS
  <2>1. /\ Cardinality(InPhases({"attempt"})) \in Nat /\ FailedSoFar \in Int
        /\ FailedSoFar <= MaxAttempts * Cardinality(InPhases({"attempt"}))
    BY FailuresAreFew DEF AIInv
  <2>2. metrics.success \in Nat /\ metrics.error \in Nat /\ metrics.errors \in Nat
    BY DEF AIInv, AITypes
  <2>3. metrics.errors <= MaxAttempts * (metrics.error + metrics.success) + FailedSoFar
    BY DEF AIInv, ErrorsAreBounded
  <2>4. metrics.errors <= MaxAttempts
            * (metrics.error + metrics.success + Cardinality(InPhases({"attempt"})))
    BY <2>1, <2>2, <2>3 DEF MaxAttempts
  <2>5. EveryCallIsCountedOnce
    BY <2>4 DEF EveryCallIsCountedOnce, AIInv, CallsAreCounted, InPhases, Stage
  <2> QED
    BY <2>5 DEF RequestsAreAccountedFor, AIInv
<1> QED
  BY <1>1, <1>2, <1>3, PTL DEF AISpec

-----------------------------------------------------------------------------
(* The latest metrics and their statistics.                                *)

\* The places of the members with a key in T.
Keyed(key, S, T) == {x \in S : key[x] \in T}

\* g holds the sums of f over S by the value of a key, one of K.
SumByKey(f, S, key, K, g) ==
    /\ IsFiniteSet(S) /\ \A x \in S : f[x] \in Int
    /\ IsFiniteSet(K) /\ \A x \in S : key[x] \in K
    /\ \A k \in K : g[k] = SumFunctionOnSet(f, Keyed(key, S, {k}))

\* Sums by the value of a key add up to the sum over all.
LEMMA SumsByKey ==
    ASSUME NEW f, NEW S, NEW key, NEW K, NEW g, SumByKey(f, S, key, K, g)
    PROVE  SumFunctionOnSet(g, K) = SumFunctionOnSet(f, S)
<1> USE DEF SumByKey
<1> DEFINE Sum(T) == SumFunctionOnSet(f, Keyed(key, S, T))
           G == {T \in SUBSET K : SumFunctionOnSet(g, T) = Sum(T)}
<1>1. ASSUME NEW T PROVE IsFiniteSet(Keyed(key, S, T)) /\ Sum(T) \in Int
  <2>1. Keyed(key, S, T) \in SUBSET S
    BY DEF Keyed
  <2>2. IsFiniteSet(Keyed(key, S, T))
    BY <2>1, FS_Subset
  <2>3. \A x \in Keyed(key, S, T) : f[x] \in Int
    BY <2>1
  <2> QED
    BY <2>2, <2>3, SumRemoves
<1>2. ASSUME NEW T \in SUBSET K, \A k \in T : T \ {k} \in G PROVE T \in G
  <2>1. CASE T = {}
    <3>1. Keyed(key, S, {}) = {}
      BY DEF Keyed
    <3> QED
      BY <2>1, <3>1, SumOfNone
  <2>2. ASSUME NEW k \in T PROVE SumFunctionOnSet(g, T) = Sum(T)
    <3> DEFINE rest == T \ {k}
               one == Keyed(key, S, {k})
               others == Keyed(key, S, rest)
    <3>1. rest \in G
      BY <1>2
    <3>2. IsFiniteSet(T) /\ \A m \in T : g[m] \in Int
      <4>1. IsFiniteSet(T)
        BY FS_Subset
      <4>2. ASSUME NEW m \in T PROVE g[m] \in Int
        BY <1>1
      <4> QED
        BY <4>1, <4>2
    <3>3. SumFunctionOnSet(g, T) = g[k] + SumFunctionOnSet(g, rest)
      BY <2>2, <3>2, SumRemoves
    <3>4. one \cup others = Keyed(key, S, T) /\ one \cap others = {}
      BY DEF Keyed
    <3>5. \A x \in one \cup others : f[x] \in Int
      BY DEF Keyed
    <3>6. IsFiniteSet(one) /\ IsFiniteSet(others)
      BY <1>1
    <3>7. Sum(T) = SumFunctionOnSet(f, one) + SumFunctionOnSet(f, others)
      <4> HIDE DEF one, others
      <4>1. SumFunctionOnSet(f, one \cup others) = SumFunctionOnSet(f, one) + SumFunctionOnSet(f, others)
        BY <3>4, <3>5, <3>6, SumOfBoth
      <4> QED
        BY <3>4, <4>1
    <3>8. g[k] = SumFunctionOnSet(f, one)
      OBVIOUS
    <3>9. SumFunctionOnSet(g, rest) = SumFunctionOnSet(f, others)
      BY <3>1
    <3> QED
      BY <3>3, <3>7, <3>8, <3>9
  <2> QED
    BY <2>1, <2>2
<1>3. \A T \in SUBSET K : T \in G
  <2> HIDE DEF G
  <2> QED
    BY <1>2, Removing
<1>4. SumFunctionOnSet(g, K) = Sum(K)
  BY <1>3
<1>5. Keyed(key, S, K) = S
  BY DEF Keyed
<1> QED
  BY <1>4, <1>5

\* The members whose key is not above that of i, and those whose key is below.
NotAbove(key, S, i) == {j \in S : key[j] <= key[i]}
Below(key, S, i) == {j \in S : key[j] < key[i]}

\* The entry at p per cent of an order: at least so many entries are not larger,
\* and no more are smaller.
LEMMA EntryAtShare ==
    ASSUME NEW S \in SUBSET Int, IsFiniteSet(S), S # {}, NEW key \in [S -> Int],
           NEW p \in {50, 95, 99},
           NEW i, i = InOrder(key)[(Cardinality(S) * p) \div 100 + 1]
    PROVE  /\ i \in S
           /\ 100 * Cardinality(NotAbove(key, S, i)) > p * Cardinality(S)
           /\ 100 * Cardinality(Below(key, S, i)) <= p * Cardinality(S)
<1> DEFINE n == Cardinality(S)
           c == n * p
           q == c \div 100
           low == Below(key, S, i)
           high == NotAbove(key, S, i)
           upTo == {j \in S : NotAfter(key, j, i)}
<1>1. n \in Nat /\ n # 0
  BY FS_CardinalityType, FS_EmptySet
<1>2. c \in Int /\ p * n = c /\ 0 <= c /\ c < 100 * n
  <2> HIDE DEF n
  <2>1. CASE p = 50
    BY <1>1, <2>1
  <2>2. CASE p = 95
    BY <1>1, <2>2
  <2>3. CASE p = 99
    BY <1>1, <2>3
  <2> QED
    BY <2>1, <2>2, <2>3
<1> HIDE DEF c
<1>3. q \in Int /\ 100 * q <= c /\ c < 100 * q + 100
  BY <1>2, Quotient
<1> HIDE DEF q
<1>4. q + 1 \in 1 .. n
  <2> HIDE DEF n
  <2> QED
    BY <1>1, <1>2, <1>3
<1>5. i \in S /\ Rank(key, i) = q + 1
  <2> HIDE DEF n
  <2>1. InOrder(key) \in [1 .. n -> S] /\ \A k \in 1 .. n : Rank(key, InOrder(key)[k]) = k
    BY OrderIsSorted DEF n
  <2>2. i = InOrder(key)[q + 1]
    BY DEF q, c, n
  <2> QED
    BY <1>4, <2>1, <2>2
<1>6. Rank(key, i) = Cardinality(upTo)
  BY DEF Rank, NotAfter
<1>7. i \in upTo /\ upTo \subseteq S /\ high \subseteq S
  BY <1>5 DEF NotAfter, NotAbove
<1>8. upTo \subseteq high
  <2>1. ASSUME NEW j \in S, NotAfter(key, j, i) PROVE key[j] <= key[i]
    BY <1>5, <2>1 DEF NotAfter
  <2> QED
    BY <2>1 DEF NotAbove
<1>9. low \subseteq upTo \ {i}
  <2>1. ASSUME NEW j \in S, key[j] < key[i] PROVE NotAfter(key, j, i) /\ j # i
    BY <1>5, <2>1 DEF NotAfter
  <2> SUFFICES ASSUME NEW j \in low PROVE j \in upTo /\ j # i
    OBVIOUS
  <2>2. j \in S /\ key[j] < key[i]
    BY DEF Below
  <2> QED
    BY <2>1, <2>2
<1> HIDE DEF low, high, upTo
<1>10. /\ IsFiniteSet(high) /\ IsFiniteSet(upTo) /\ IsFiniteSet(upTo \ {i})
       /\ Cardinality(upTo \ {i}) = q
  <2>1. IsFiniteSet(high) /\ IsFiniteSet(upTo)
    BY <1>7, FS_Subset
  <2>2. i \in upTo
    BY <1>7
  <2>3. IsFiniteSet(upTo \ {i}) /\ Cardinality(upTo \ {i}) = Cardinality(upTo) - 1
    <3>1. IsFiniteSet(upTo)
      BY <2>1
    <3>2. /\ IsFiniteSet(upTo \ {i})
          /\ Cardinality(upTo \ {i})
                = IF i \in upTo THEN Cardinality(upTo) - 1 ELSE Cardinality(upTo)
      BY <3>1, FS_RemoveElement
    <3> QED
      BY <2>2, <3>2
  <2> QED
    BY <1>3, <1>5, <1>6, <2>1, <2>3
<1>11. Cardinality(upTo) <= Cardinality(high) /\ Cardinality(high) \in Nat
  BY <1>8, <1>10, FS_Subset, FS_CardinalityType
<1>12. Cardinality(low) <= q /\ Cardinality(low) \in Nat
  <2>1. IsFiniteSet(low) /\ Cardinality(low) <= Cardinality(upTo \ {i})
    BY <1>9, <1>10, FS_Subset
  <2> QED
    BY <1>10, <2>1, FS_CardinalityType
<1>13. 100 * Cardinality(high) > p * n /\ 100 * Cardinality(low) <= p * n
  <2> HIDE DEF n
  <2> QED
    BY <1>2, <1>3, <1>5, <1>6, <1>11, <1>12
<1> QED
  BY <1>5, <1>13 DEF low, high

Metrics == [cost : Int, latency : Int, success : BOOLEAN,
            model : Models \cup {"unknown"}, at : Int]

\* The metrics in memory are those of the last requests, numbered one by one.
TrackingInv ==
    /\ requests \in Nat /\ metricLog \in Seq(Metrics) /\ Len(metricLog) <= requests
    /\ \A i \in 1 .. Len(metricLog) : metricLog[i].at = requests - Len(metricLog) + i

LEMMA TrackedKeeps ==
    ASSUME TrackingInv, NEW metric \in Metrics, metric.at = requests + 1, TrackMetric(metric)
    PROVE  TrackingInv'
<1> DEFINE longer == Append(metricLog, metric)
           n == Len(metricLog)
<1>1. n \in Nat /\ longer \in Seq(Metrics) /\ Len(longer) = n + 1
  BY DEF TrackingInv
<1>2. \A i \in 1 .. n + 1 : longer[i].at = requests - n + i
  <2>1. ASSUME NEW i \in 1 .. n PROVE longer[i] = metricLog[i]
    BY <2>1 DEF TrackingInv
  <2>2. longer[n + 1] = metric
    BY DEF TrackingInv
  <2>3. \A i \in 1 .. n : metricLog[i].at = requests - n + i
    BY DEF TrackingInv
  <2>4. requests \in Int
    BY DEF TrackingInv
  <2> HIDE DEF longer, n
  <2> SUFFICES ASSUME NEW i \in 1 .. n + 1 PROVE longer[i].at = requests - n + i
    OBVIOUS
  <2>5. CASE i \in 1 .. n
    BY <2>1, <2>3, <2>5
  <2>6. CASE i = n + 1
    <3>1. longer[i].at = requests + 1
      BY <2>2, <2>6
    <3> QED
      BY <1>1, <2>4, <2>6, <3>1
  <2> QED
    BY <1>1, <2>5, <2>6
<1>3. requests' = requests + 1 /\ requests \in Nat /\ n <= requests
  BY DEF TrackMetric, TrackingInv
<1>4. metricLog' = IF Len(longer) > MaxInMemory
                   THEN SubSeq(longer, Len(longer) - MaxInMemory + 1, Len(longer)) ELSE longer
  BY DEF TrackMetric
<1> HIDE DEF longer, n
<1>5. CASE n + 1 > MaxInMemory
  <2> DEFINE m == n + 1 - MaxInMemory + 1
  <2>1. metricLog' = SubSeq(longer, m, n + 1)
    BY <1>1, <1>4, <1>5, TrackingAssumption
  <2> HIDE DEF m
  <2>2. m \in 1 .. n + 1 /\ n + 1 - m + 1 = MaxInMemory /\ MaxInMemory \in Nat
    BY <1>1, <1>5, TrackingAssumption DEF m
  <2>3. /\ metricLog' \in Seq(Metrics) /\ Len(metricLog') = MaxInMemory
        /\ \A i \in 1 .. MaxInMemory : metricLog'[i] = longer[m + i - 1]
    BY <1>1, <2>1, <2>2, SubSeqProperties
  <2>4. ASSUME NEW i \in 1 .. MaxInMemory
        PROVE  metricLog'[i].at = requests' - MaxInMemory + i
    <3>1. m + i - 1 \in 1 .. n + 1
      BY <1>1, <2>2
    <3>2. metricLog'[i].at = requests - n + (m + i - 1)
      BY <1>2, <2>3, <3>1
    <3> QED
      BY <1>1, <1>3, <2>2, <3>2
  <2>5. requests' \in Nat /\ MaxInMemory <= requests'
    BY <1>1, <1>3, <1>5, <2>2
  <2> QED
    BY <2>3, <2>4, <2>5 DEF TrackingInv
<1>6. CASE ~(n + 1 > MaxInMemory)
  <2>1. metricLog' = longer
    BY <1>1, <1>4, <1>6, TrackingAssumption
  <2>2. metricLog' \in Seq(Metrics) /\ Len(metricLog') = n + 1
    BY <1>1, <2>1
  <2>3. requests' \in Nat /\ n + 1 <= requests'
    BY <1>1, <1>3
  <2>4. ASSUME NEW i \in 1 .. n + 1 PROVE metricLog'[i].at = requests' - (n + 1) + i
    BY <1>1, <1>2, <1>3, <2>1
  <2> QED
    BY <2>2, <2>3, <2>4 DEF TrackingInv
<1>7. n + 1 > MaxInMemory \/ ~(n + 1 > MaxInMemory)
  OBVIOUS
<1> QED
  BY <1>5, <1>6, <1>7

LEMMA TrackingStepKeeps == TrackingInv /\ [TrackingNext]_trackingVars => TrackingInv'
<1> SUFFICES ASSUME TrackingInv, [TrackingNext]_trackingVars PROVE TrackingInv'
  OBVIOUS
<1>1. ASSUME NEW c \in MetricCosts, NEW l \in Latencies, NEW m \in Models, NEW ok \in BOOLEAN,
             TrackMetric([cost |-> IF ok THEN c ELSE 0, latency |-> l, success |-> ok,
                          model |-> IF ok THEN m ELSE "unknown", at |-> requests + 1])
      PROVE  TrackingInv'
  <2> DEFINE metric == [cost |-> IF ok THEN c ELSE 0, latency |-> l, success |-> ok,
                        model |-> IF ok THEN m ELSE "unknown", at |-> requests + 1]
  <2>1. metric \in Metrics /\ metric.at = requests + 1
    BY TrackingAssumption DEF Metrics, TrackingInv
  <2> HIDE DEF metric
  <2> QED
    BY <1>1, <2>1, TrackedKeeps DEF metric
<1>2. CASE ClearMetrics
  BY <1>2 DEF ClearMetrics, TrackingInv
<1>3. CASE UNCHANGED trackingVars
  BY <1>3 DEF trackingVars, TrackingInv
<1> QED
  BY <1>1, <1>2, <1>3 DEF TrackingNext

\* What the statistics are computed from.
LEMMA LogIsFinite ==
    ASSUME TrackingInv
    PROVE  /\ DOMAIN metricLog = 1 .. Len(metricLog) /\ IsFiniteSet(DOMAIN metricLog)
           /\ DOMAIN metricLog \in SUBSET Int
           /\ \A i \in DOMAIN metricLog : metricLog[i] \in Metrics
<1>1. Len(metricLog) \in Nat /\ DOMAIN metricLog = 1 .. Len(metricLog)
  BY DEF TrackingInv
<1>2. IsFiniteSet(1 .. Len(metricLog))
  BY <1>1, FS_Interval
<1> QED
  BY <1>1, <1>2 DEF TrackingInv

LEMMA PercentileIsRight ==
    ASSUME TrackingInv, NEW log \in SUBSET (DOMAIN metricLog), log # {}, NEW p \in {50, 95, 99}
    PROVE  IsPercentile(Percentile(log, p), p, log)
<1> DEFINE key == [i \in log |-> metricLog[i].latency]
           n == Cardinality(log)
           i == InOrder(key)[(n * p) \div 100 + 1]
<1>1. log \in SUBSET Int /\ IsFiniteSet(log) /\ key \in [log -> Int]
  <2>1. \A j \in log : metricLog[j].latency \in Int
    BY LogIsFinite DEF Metrics
  <2> QED
    BY <2>1, LogIsFinite, FS_Subset
<1> HIDE DEF key
<1>2. /\ i \in log
      /\ 100 * Cardinality(NotAbove(key, log, i)) > p * n
      /\ 100 * Cardinality(Below(key, log, i)) <= p * n
  BY <1>1, EntryAtShare
<1>3. Percentile(log, p) = metricLog[i].latency
  BY DEF Percentile, key
<1> HIDE DEF i
<1>4. /\ NotAbove(key, log, i) = {j \in log : metricLog[j].latency <= metricLog[i].latency}
      /\ Below(key, log, i) = {j \in log : metricLog[j].latency < metricLog[i].latency}
  BY <1>2 DEF key, NotAbove, Below
<1> QED
  BY <1>2, <1>3, <1>4 DEF IsPercentile

LEMMA AllInPeriod == ASSUME TrackingInv PROVE InPeriod(1, requests) = DOMAIN metricLog
<1>1. ASSUME NEW i \in DOMAIN metricLog PROVE metricLog[i].at \in 1 .. requests
  <2>1. i \in 1 .. Len(metricLog) /\ Len(metricLog) \in Nat
    BY LogIsFinite DEF TrackingInv
  <2> QED
    BY <2>1 DEF TrackingInv
<1> QED
  BY <1>1 DEF InPeriod

LEMMA FailuresAreCounted == ASSUME TrackingInv PROVE Statistics(1, requests).failed = ErrorBreakdown
<1> DEFINE all == DOMAIN metricLog
           good == {i \in all : metricLog[i].success}
           bad == {i \in all : ~metricLog[i].success}
<1>1. IsFiniteSet(all)
  BY LogIsFinite
<1>2. good \cup bad = all /\ good \cap bad = {}
  OBVIOUS
<1>3. IsFiniteSet(good) /\ IsFiniteSet(bad)
  BY <1>1, FS_Subset
<1>4. ErrorBreakdown = Cardinality(bad)
  BY DEF ErrorBreakdown
<1>5. Cardinality(good) \in Nat /\ Cardinality(bad) \in Nat
  BY <1>3, FS_CardinalityType
<1>6. Cardinality(all) = Cardinality(good) + Cardinality(bad)
  <2> HIDE DEF good, bad, all
  <2>1. Cardinality(good \cup bad) = Cardinality(good) + Cardinality(bad) - Cardinality(good \cap bad)
    BY <1>2, <1>3, FS_Union
  <2>2. Cardinality(good \cap bad) = 0 /\ Cardinality(good \cup bad) = Cardinality(all)
    <3>1. good \cap bad = {} /\ good \cup bad = all
      BY <1>2
    <3>2. Cardinality({}) = 0
      BY FS_EmptySet
    <3> QED
      BY <3>1, <3>2, Zenon
  <2> DEFINE a == Cardinality(good)
             b == Cardinality(bad)
             both == Cardinality(good \cap bad)
             either == Cardinality(good \cup bad)
  <2>3. a \in Nat /\ b \in Nat /\ either = a + b - both /\ both = 0
    BY <1>5, <2>1, <2>2
  <2> HIDE DEF a, b, both, either
  <2>4. either = a + b
    BY <2>3
  <2> QED
    BY <2>2, <2>4 DEF a, b, either
<1>7. CASE all = {}
  <2>1. bad = {} /\ Statistics(1, requests).failed = 0
    BY <1>7, AllInPeriod DEF Statistics
  <2> QED
    BY <1>4, <2>1, FS_EmptySet
<1>8. CASE all # {}
  <2>1. Statistics(1, requests).failed = Cardinality(all) - Cardinality(good)
    BY <1>8, AllInPeriod DEF Statistics
  <2> QED
    BY <1>4, <1>5, <1>6, <2>1
<1> QED
  BY <1>7, <1>8

LEMMA ModelsAddUp ==
    ASSUME TrackingInv PROVE TotalCost(1, requests) = SumFunctionOnSet(CostByModel, ModelsSeen)
<1> DEFINE all == DOMAIN metricLog
           cost == [i \in all |-> metricLog[i].cost]
           key == [i \in all |-> metricLog[i].model]
<1>1. IsFiniteSet(all) /\ \A i \in all : cost[i] \in Int
  BY LogIsFinite DEF Metrics
<1>2. IsFiniteSet(ModelsSeen) /\ \A i \in all : key[i] \in ModelsSeen
  <2>1. key \in Surjection(all, ModelsSeen)
    BY DEF Surjection, ModelsSeen
  <2>2. \A i \in all : key[i] \in ModelsSeen
    BY DEF ModelsSeen
  <2> HIDE DEF key, all
  <2> QED
    BY <1>1, <2>1, <2>2, FS_Surjection
<1>3. TotalCost(1, requests) = SumFunctionOnSet(cost, all)
  BY AllInPeriod DEF TotalCost, SumOfCosts
<1>4. ASSUME NEW m \in ModelsSeen
      PROVE  CostByModel[m] = SumFunctionOnSet(cost, Keyed(key, all, {m}))
  <2> DEFINE of == OfModel(m)
             its == [i \in of |-> metricLog[i].cost]
  <2>1. of = Keyed(key, all, {m}) /\ of \subseteq all
    BY DEF OfModel, Keyed
  <2>2. CostByModel[m] = SumFunctionOnSet(its, of)
    BY DEF CostByModel, SumOfCosts
  <2>3. IsFiniteSet(of) /\ \A i \in of : its[i] = cost[i]
    BY <1>1, <2>1, FS_Subset
  <2> HIDE DEF its, of, cost
  <2>4. SumFunctionOnSet(its, of) = SumFunctionOnSet(cost, of)
    BY <2>3, SumSame
  <2> QED
    BY <2>1, <2>2, <2>4
<1> HIDE DEF cost, key, all
<1>5. SumFunctionOnSet(CostByModel, ModelsSeen) = SumFunctionOnSet(cost, all)
  <2> DEFINE summed == CostByModel
             found == ModelsSeen
  <2>1. \A m \in found : summed[m] = SumFunctionOnSet(cost, Keyed(key, all, {m}))
    BY <1>4
  <2>2. IsFiniteSet(found) /\ \A i \in all : key[i] \in found
    BY <1>2
  <2> HIDE DEF summed, found
  <2>3. SumByKey(cost, all, key, found, summed)
    BY <1>1, <2>1, <2>2 DEF SumByKey
  <2>4. SumFunctionOnSet(summed, found) = SumFunctionOnSet(cost, all)
    BY <2>3, SumsByKey
  <2> QED
    BY <2>4 DEF summed, found
<1> QED
  BY <1>3, <1>5

(* The statistics of CostTrackingService, for every limit on the metrics in *)
(* memory, every latency and every cost: the percentiles of any period are  *)
(* percentiles, what failed is what the errors count, the metrics are those *)
(* of the latest requests, and the models' summed add up to the total.       *)
THEOREM StatisticsSound == TrackingSpec => []StatisticsAreSound
<1>1. TrackingInit => TrackingInv
  BY DEF TrackingInit, TrackingInv
<1>2. TrackingInv => StatisticsAreSound
  <2> SUFFICES ASSUME TrackingInv PROVE StatisticsAreSound
    OBVIOUS
  <2>1. PercentilesAreRight
    <3> SUFFICES ASSUME NEW start \in 1 .. requests, NEW end \in 1 .. requests,
                        InPeriod(start, end) # {}
                 PROVE  LET log == InPeriod(start, end)
                            report == Statistics(start, end)
                        IN  /\ IsPercentile(report.p50, 50, log)
                            /\ IsPercentile(report.p95, 95, log)
                            /\ IsPercentile(report.p99, 99, log)
      BY DEF PercentilesAreRight
    <3> DEFINE log == InPeriod(start, end)
               report == Statistics(start, end)
    <3>1. log \in SUBSET (DOMAIN metricLog)
      BY DEF InPeriod
    <3>2. /\ report.p50 = Percentile(log, 50) /\ report.p95 = Percentile(log, 95)
          /\ report.p99 = Percentile(log, 99)
      BY DEF Statistics
    <3> HIDE DEF log, report
    <3>3. \A p \in {50, 95, 99} : IsPercentile(Percentile(log, p), p, log)
      BY <3>1, PercentileIsRight DEF log
    <3> QED
      BY <3>2, <3>3 DEF log, report
  <2>2. \A i \in DOMAIN metricLog : metricLog[i].at = requests - Len(metricLog) + i
    BY LogIsFinite DEF TrackingInv
  <2> QED
    BY <2>1, <2>2, FailuresAreCounted, ModelsAddUp DEF StatisticsAreSound
<1> QED
  BY <1>1, <1>2, TrackingStepKeeps, PTL DEF TrackingSpec
=============================================================================
