------------------------------ MODULE Ordering ------------------------------
(***************************************************************************)
(* Array.prototype.sort with a comparison of numbers, which is stable, and *)
(* Array.prototype.filter: both as orders of the places of an array.       *)
(***************************************************************************)
EXTENDS Integers, FiniteSets

\* How many entries do not come after the entry at place i, for a numeric key of
\* every place; equal keys keep their order.
Rank(key, i) ==
    Cardinality({j \in DOMAIN key : key[j] < key[i] \/ (key[j] = key[i] /\ j <= i)})

\* The places in ascending order of their keys.
InOrder(key) ==
    [k \in 1 .. Cardinality(DOMAIN key) |-> CHOOSE i \in DOMAIN key : Rank(key, i) = k]

\* The places of a set as a loop over the array meets them.
Ascending(set) == InOrder([i \in set |-> i])

\* The entries of an array in ascending order of a key of their places, and those
\* of some places only.
SortedBy(entries, key) ==
    LET order == InOrder(key) IN [k \in DOMAIN entries |-> entries[order[k]]]
Filtered(entries, places) ==
    LET order == Ascending(places) IN [k \in 1 .. Cardinality(places) |-> entries[order[k]]]
=============================================================================
