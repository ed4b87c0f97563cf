----------------------------- MODULE MCRetrieval -----------------------------
(* Documents, queries and scores of the instances of the retrieval.         *)
EXTENDS Retrieval

\* Documents: "a" and "b" are the same text, "c" shares a word with them.
SmallWords == [d \in {"a", "b", "c"} |-> IF d = "c" THEN {2, 3} ELSE {1, 2}]
SmallSizes == [d \in {"a", "b", "c"} |-> IF d = "c" THEN 2 ELSE 1]
Near(a, b, c) == [d \in {"a", "b", "c"} |-> CASE d = "a" -> a [] d = "b" -> b [] OTHER -> c]
SmallRelevances ==
    {[q \in {"q1", "q2"} |-> IF q = "q1" THEN near ELSE Near(6, 6, 12)] :
        near \in {Near(12, 9, 6), Near(3, 12, 12)}}
OneRelevance == {[q \in {"q1", "q2"} |-> IF q = "q1" THEN Near(12, 9, 6) ELSE Near(6, 6, 12)]}
\* Both queries have the same hash.
OneHash == [q \in {"q1", "q2"} |-> 1]
\* What a caller makes of the documents: above the scale, below it, and for the
\* best of them nothing.
OneReranking == {Near(0, 0, 0)}
SmallRerankings == {Near(0, 30, 12), Near(-30, 0, 0)}
=============================================================================
