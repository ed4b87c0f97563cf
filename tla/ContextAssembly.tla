--------------------------- MODULE ContextAssembly ---------------------------
(***************************************************************************)
(* ContextAssemblyService: from the results of a search to the templates   *)
(* in the prompt.  A result is a document and its score; scores, weights   *)
(* and similarities are fractions of Scale.                                *)
(***************************************************************************)
EXTENDS Ordering, Sequences, Functions

CONSTANTS Documents,
          WordsOf,          \* per document: its words of three letters and more
          SizeOf,           \* per document: its tokens
          Scale,            \* 1.0; the number of words of two documents divides it
          MinScore,         \* minScore: 0.5
          Duplicate,        \* similarityThreshold: 0.95
          Diversity,        \* diversityWeight: 0.3
          Overhead,         \* tokens a template costs besides its content: 10
          MaxContext        \* maxTokens: 4000

ASSUME ContextAssumption ==
    /\ Scale \in Nat \ {0} /\ {MinScore, Duplicate, Diversity} \subseteq 0 .. Scale
    /\ \A d, e \in Documents : LET n == Cardinality(WordsOf[d] \cup WordsOf[e])
                               IN  n = 0 \/ Scale % n = 0
    /\ IsFiniteSet(Documents) /\ \A d \in Documents : IsFiniteSet(WordsOf[d])
    /\ SizeOf \in [Documents -> Nat] /\ Overhead \in Nat /\ MaxContext \in Nat

\* calculateContentSimilarity: the words two texts share, of all their words.
Similarity(d, e) ==
    LET all == WordsOf[d] \cup WordsOf[e]
    IN  IF all = {} THEN 0
        ELSE (Scale * Cardinality(WordsOf[d] \cap WordsOf[e])) \div Cardinality(all)

Ids(results) == {results[i].id : i \in DOMAIN results}
FilterByRelevance(results) ==
    Filtered(results, {i \in DOMAIN results : results[i].score >= MinScore})

\* A slip: only the same template counts as a duplicate.
DeduplicateById(results) ==
    Filtered(results, {i \in DOMAIN results : \A j \in 1 .. i - 1 : results[j].id # results[i].id})

\* deduplicateResults: a result stays unless it is, or is like, one before it that
\* stayed.
Alike(r, s) == r.id = s.id \/ Similarity(r.id, s.id) >= Duplicate
Stays(kept, results, i) == ~\E j \in kept : j < i /\ Alike(results[i], results[j])
DeduplicateResults(results) ==
    Filtered(results, CHOOSE kept \in SUBSET DOMAIN results :
                          kept = {i \in DOMAIN results : Stays(kept, results, i)})

\* rankWithDiversity: the best score first, then whichever has most relevance
\* and least resemblance to the chosen ones; of equal ones the first.
ByScore(results) == SortedBy(results, [i \in DOMAIN results |-> -results[i].score])
Likeness(d, chosen) ==
    LET all == {Similarity(d, e) : e \in chosen} \cup {0}
    IN  CHOOSE s \in all : \A t \in all : t <= s
Marginal(r, chosen) == (Scale - Diversity) * r.score - Diversity * Likeness(r.id, chosen)
MostRelevant(sorted, chosen, i) ==
    LET worth == [j \in DOMAIN sorted \ chosen |->
                    Marginal(sorted[j], {sorted[k].id : k \in chosen})]
    IN  /\ i \in DOMAIN worth
        /\ \A j \in DOMAIN worth : worth[j] < worth[i] \/ (worth[j] = worth[i] /\ i <= j)
RankWithDiversity(results) ==
    LET sorted == ByScore(results)
        order == CHOOSE o \in [DOMAIN sorted -> DOMAIN sorted] :
            \A k \in DOMAIN o : MostRelevant(sorted, {o[m] : m \in 1 .. k - 1}, o[k])
    IN  [k \in DOMAIN sorted |-> sorted[order[k]]]

\* fitToContextWindow: templates are taken up to the first that does not fit.
TokensOf(results) ==
    SumFunctionOnSet([i \in DOMAIN results |-> SizeOf[results[i].id] + Overhead], DOMAIN results)
FitToContextWindow(results) ==
    LET Fits(n) == TokensOf(SubSeq(results, 1, n)) <= MaxContext
    IN  SubSeq(results, 1, CHOOSE n \in 0 .. Len(results) :
            (\A m \in 0 .. n : Fits(m)) /\ (n = Len(results) \/ ~Fits(n + 1)))

AssembleContext(results) ==
    FitToContextWindow(RankWithDiversity(DeduplicateResults(FilterByRelevance(results))))

-----------------------------------------------------------------------------
\* The context for some results: each template once, no two alike, within the
\* budget, the most relevant first; and whatever is missing is below the minimum
\* score, like a template with a score at least as high, or behind one that did
\* not fit.
ContextIsExplained(results, context) ==
    /\ TokensOf(context) <= MaxContext
    /\ Ids(context) \subseteq Ids(results)
    /\ \A i, j \in DOMAIN context : i # j => /\ context[i].id # context[j].id
                                            /\ Similarity(context[i].id, context[j].id) < Duplicate
    /\ \A i \in DOMAIN context :
            context[i].score <= context[1].score /\ context[i].score >= MinScore
    /\ \A i \in DOMAIN results : results[i].id \in Ids(context)
            \/ results[i].score < MinScore
            \/ (\E j \in 1 .. i - 1 : /\ Similarity(results[i].id, results[j].id) >= Duplicate
                                      /\ results[j].score >= results[i].score)
            \/ (\E j \in DOMAIN results :
                    /\ results[j].score >= MinScore
                    /\ \A d \in Ids(context) : Similarity(d, results[j].id) < Duplicate
                    /\ TokensOf(context) + SizeOf[results[j].id] + Overhead > MaxContext)
=============================================================================
