-------------------------- MODULE EmbeddingService --------------------------
(***************************************************************************)
(* EmbeddingService in production mode: texts are embedded in batches, the *)
(* vectors found in the cache are kept at their places, the rest is sent   *)
(* to the model in one request (three attempts) and put back where it      *)
(* belongs, then cached one by one.  One action per await; other callers   *)
(* fill the same cache in between, and an entry may expire at any time or  *)
(* Redis may be down, which reads as a miss.  generateEmbedding is the     *)
(* case of one text.  A vector is named by the text it was computed from;  *)
(* the cache is keyed by a 32-bit hash of the text, so two texts may share *)
(* an entry.                                                               *)
(***************************************************************************)
EXTENDS Ordering, Sequences, SequencesExt

CONSTANTS
  Embedders,     \* callers
  TextLists,     \* the lists of texts they ask for
  HashOfText,    \* simpleHash, as a function of the text
  EmbedBatch,    \* batchSize, 100
  EmbedAttempts, \* maxRetries, 3
  NoVector       \* nothing cached

ASSUME EmbeddingAssumption ==
  /\ EmbedBatch \in Nat \ {0} /\ EmbedAttempts \in Nat \ {0}
  /\ NoVector \notin DOMAIN HashOfText
  /\ TextLists \subseteq Seq(DOMAIN HashOfText)

VARIABLES
  vectors, \* the cache, by hash
  job      \* job[c]: what caller c is at

embeddingVars == <<vectors, job>>

NoJob ==
  [texts |-> <<>>, next |-> 1, results |-> <<>>, tries |-> 0, phase |-> "idle"]

EmbeddingInit ==
  /\ vectors = [h \in {HashOfText[t] : t \in DOMAIN HashOfText} |-> NoVector]
  /\ job = [c \in Embedders |-> NoJob]

\* `next` never leaves the batch it is in before the batch is done.
Start(c) == ((job[c].next - 1) \div EmbedBatch) * EmbedBatch + 1
End(c) ==
  IF Start(c) + EmbedBatch - 1 < Len(job[c].texts)
  THEN Start(c) + EmbedBatch - 1 ELSE Len(job[c].texts)

\* uncachedIndices: the places of the batch the cache left empty.
Uncached(c) == Ascending({i \in Start(c)..End(c) : i \notin DOMAIN job[c].results})

Vector(v, cached) == [vector |-> v, cached |-> cached]
With(results, more) ==
  [i \in DOMAIN results \cup DOMAIN more |-> IF i \in DOMAIN more THEN more[i] ELSE results[i]]

\* Without texts there is no batch.
Asking(texts) ==
  [NoJob EXCEPT !.texts = texts, !.phase = IF texts = <<>> THEN "done" ELSE "look"]
GenerateEmbeddings(c) ==
  /\ job[c].phase \in {"idle", "done", "failed"}
  /\ \E texts \in TextLists : job' = [job EXCEPT ![c] = Asking(texts)]
  /\ UNCHANGED vectors

\* One cache read of the loop; `miss` also when Redis does not answer.
AfterLook(c, v) ==
  LET i == job[c].next
  IN [job[c] EXCEPT !.results = IF v = NoVector THEN @
                               ELSE With(@, [k \in {i} |-> Vector(v, TRUE)]),
                    !.next = IF i = End(c) THEN @ ELSE i + 1,
                    !.phase = IF i = End(c) THEN "send" ELSE @]
Look(c) ==
  /\ job[c].phase = "look"
  /\ \E v \in {vectors[HashOfText[job[c].texts[job[c].next]]], NoVector} :
       job' = [job EXCEPT ![c] = AfterLook(c, v)]
  /\ UNCHANGED vectors

\* A slip: the first texts of the batch are sent, as many as were not cached.
PlacedFromTheStart(c) ==
  LET open == Uncached(c)
      embeddings == [k \in DOMAIN open |-> job[c].texts[Start(c) + k - 1]]
  IN [i \in Range(open) |->
        Vector(embeddings[CHOOSE k \in DOMAIN open : open[k] = i], FALSE)]

\* What the model answers, put at the places of the texts that were sent.
Placed(c) ==
  LET open == Uncached(c)
      embeddings == [k \in DOMAIN open |-> job[c].texts[open[k]]]
  IN [i \in Range(open) |->
        Vector(embeddings[CHOOSE k \in DOMAIN open : open[k] = i], FALSE)]

\* Nothing to send, or a request the model answers: on to caching.
Embed(c) ==
  /\ job[c].phase = "send"
  /\ job' = [job EXCEPT ![c].results = With(@, Placed(c)), ![c].next = Start(c),
                        ![c].phase = "store", ![c].tries = 0]
  /\ UNCHANGED vectors

\* retryWithBackoff: the batch fails with its third attempt, and with it the
\* whole call, whatever earlier batches returned.
EmbedFails(c) ==
  /\ job[c].phase = "send" /\ Uncached(c) # <<>>
  /\ job' = [job EXCEPT
       ![c].tries = @ + 1,
       ![c].phase = IF job[c].tries + 1 >= EmbedAttempts THEN "failed" ELSE @]
  /\ UNCHANGED vectors

\* One cache write of the loop over the texts that were sent; then the next
\* batch, or the answer.
StoreVector(c) ==
  /\ job[c].phase = "store"
  /\ LET i == job[c].next
         fresh == ~job[c].results[i].cached
     IN /\ \E written \in {fresh, FALSE} :
             vectors' = IF written
                        THEN [vectors EXCEPT ![HashOfText[job[c].texts[i]]] =
                                job[c].results[i].vector]
                        ELSE vectors
        /\ job' = [job EXCEPT
             ![c].next = IF i = Len(job[c].texts) THEN @ ELSE i + 1,
             ![c].phase = IF i < End(c) THEN @
                          ELSE IF i < Len(job[c].texts) THEN "look" ELSE "done"]

VectorExpires(h) ==
  /\ vectors[h] # NoVector
  /\ vectors' = [vectors EXCEPT ![h] = NoVector]
  /\ UNCHANGED job

EmbeddingNext ==
  \/ \E c \in Embedders :
       GenerateEmbeddings(c) \/ Look(c) \/ Embed(c) \/ EmbedFails(c) \/ StoreVector(c)
  \/ \E h \in DOMAIN vectors : VectorExpires(h)

EmbeddingSpec == EmbeddingInit /\ [][EmbeddingNext]_embeddingVars

(* The i-th answer of generateEmbeddings is for the i-th text, whichever    *)
(* part of the batch was cached and whoever filled the cache meanwhile: a   *)
(* fresh vector is the text's own, a cached one that of a text with the     *)
(* same hash.                                                               *)
AnswersStayInPlace ==
  \A c \in Embedders :
    job[c].phase = "done" =>
      \A i \in 1..Len(job[c].texts) :
        LET text == job[c].texts[i]
            answer == job[c].results[i]
        IN IF answer.cached THEN HashOfText[answer.vector] = HashOfText[text]
           ELSE answer.vector = text
=============================================================================
