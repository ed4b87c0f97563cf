----------------------- MODULE SearchComponents_proofs -----------------------
(***************************************************************************)
(* What the components of the vector database keep, for every number of    *)
(* texts, points, documents and queries.                                   *)
(***************************************************************************)
EXTENDS AIComponents_proofs, EmbeddingService, VectorIndex, Retrieval

-----------------------------------------------------------------------------
(* The embedding of texts.                                                 *)

Texts == DOMAIN HashOfText
TextAnswers == [vector : Texts, cached : BOOLEAN]

\* An answer for a text: its own vector, or one from the cache of a text with the
\* same hash.
Answered(text, answer) ==
  /\ answer \in TextAnswers
  /\ IF answer.cached THEN HashOfText[answer.vector] = HashOfText[text]
     ELSE answer.vector = text

\* An entry of the cache is a vector of a text with the hash it is under.
CacheHoldsItsHash ==
  /\ DOMAIN vectors = {HashOfText[t] : t \in Texts}
  /\ \A h \in DOMAIN vectors :
       vectors[h] # NoVector => vectors[h] \in Texts /\ HashOfText[vectors[h]] = h

\* Where the batch of the place n starts.
BatchStart(n) == ((n - 1) \div EmbedBatch) * EmbedBatch + 1
BatchEnd(texts, n) ==
  IF BatchStart(n) + EmbedBatch - 1 < Len(texts)
  THEN BatchStart(n) + EmbedBatch - 1 ELSE Len(texts)

\* The places that must have an answer: those of the earlier batches, then those of
\* the batch too, at the end all.
DueAnswers(j) ==
  CASE j.phase \in {"look", "send"} -> 1 .. BatchStart(j.next) - 1
    [] j.phase = "store" -> 1 .. BatchEnd(j.texts, j.next)
    [] j.phase = "done" -> 1 .. Len(j.texts)
    [] OTHER -> {}

JobPhases == {"idle", "look", "send", "store", "done", "failed"}

\* What is true of a caller: every answer it has is for the text at its place.
JobIsRight(j) ==
  /\ DOMAIN j = {"texts", "next", "results", "tries", "phase"}
  /\ j.texts \in Seq(Texts) /\ j.phase \in JobPhases
  /\ j.phase \in {"look", "send", "store"} => j.next \in 1 .. Len(j.texts)
  /\ j.results = [i \in DOMAIN j.results |-> j.results[i]]
  /\ DOMAIN j.results \subseteq 1 .. Len(j.texts)
  /\ \A i \in DOMAIN j.results : Answered(j.texts[i], j.results[i])
  /\ DueAnswers(j) \subseteq DOMAIN j.results

EmbeddingInv ==
  /\ CacheHoldsItsHash
  /\ job = [c \in Embedders |-> job[c]]
  /\ \A c \in Embedders : JobIsRight(job[c])

\* The batch of a place: it holds the place, and ends where the next one starts.
LEMMA BatchesFollow ==
  ASSUME NEW texts \in Seq(Texts), NEW n \in 1 .. Len(texts)
  PROVE  /\ BatchStart(n) \in 1 .. n
         /\ BatchEnd(texts, n) \in n .. Len(texts)
         /\ BatchStart(BatchStart(n)) = BatchStart(n)
         /\ n < BatchEnd(texts, n) =>
              /\ BatchStart(n + 1) = BatchStart(n)
              /\ BatchEnd(texts, n + 1) = BatchEnd(texts, n)
         /\ n = BatchEnd(texts, n) /\ n < Len(texts) => BatchStart(n + 1) = n + 1
<1> DEFINE size == EmbedBatch
           q == (n - 1) \div size
<1>1. size \in Nat \ {0} /\ n \in Int /\ Len(texts) \in Nat
  BY EmbeddingAssumption
<1>2. q \in Int /\ size * q <= n - 1 /\ n - 1 < size * q + size
  BY <1>1, Quotient
<1>3. q * size = size * q /\ size * q \in Int
  BY <1>1, <1>2
<1>4. BatchStart(n) = size * q + 1
  BY <1>3 DEF BatchStart
<1>5. q >= 0
  <2>1. size * 0 < size * q + size
    BY <1>1, <1>2, <1>3
  <2> QED
    BY <1>1, <1>2, <2>1, BelowMultiple
<1>6. size * q >= 0
  BY <1>1, <1>2, <1>5
<1>7. ASSUME NEW m \in Int, size * q + 1 <= m, m <= size * q + size
      PROVE  BatchStart(m) = size * q + 1
  <2> DEFINE r == (m - 1) \div size
  <2>1. r \in Int /\ size * r <= m - 1 /\ m - 1 < size * r + size
    BY <1>1, <1>7, Quotient
  <2>2. r * size = size * r /\ size * r \in Int
    BY <1>1, <2>1
  <2>3. size * r < size * q + size /\ size * q < size * r + size
    BY <1>1, <1>3, <1>7, <2>1, <2>2
  <2>4. r = q
    <3> HIDE DEF r, q, size
    <3>1. r <= q
      BY <1>1, <1>2, <2>1, <2>3, BelowMultiple
    <3>2. q <= r
      BY <1>1, <1>2, <2>1, <2>3, BelowMultiple
    <3> QED
      BY <1>2, <2>1, <3>1, <3>2
  <2> QED
    BY <2>2, <2>4 DEF BatchStart
<1> HIDE DEF q
<1>8. BatchEnd(texts, n) = IF size * q + size < Len(texts) THEN size * q + size ELSE Len(texts)
  BY <1>1, <1>3, <1>4 DEF BatchEnd
<1>9. BatchStart(n) \in 1 .. n /\ BatchEnd(texts, n) \in n .. Len(texts)
  BY <1>1, <1>2, <1>3, <1>4, <1>6, <1>8
<1>10. BatchStart(BatchStart(n)) = BatchStart(n)
  BY <1>1, <1>3, <1>4, <1>7
<1>11. ASSUME n < BatchEnd(texts, n)
       PROVE  /\ BatchStart(n + 1) = BatchStart(n)
              /\ BatchEnd(texts, n + 1) = BatchEnd(texts, n)
  <2>1. n + 1 <= size * q + size
    BY <1>1, <1>3, <1>8, <1>11
  <2>2. BatchStart(n + 1) = BatchStart(n)
    BY <1>1, <1>2, <1>3, <1>4, <1>7, <2>1
  <2> QED
    BY <2>2 DEF BatchEnd
<1>12. ASSUME n = BatchEnd(texts, n), n < Len(texts) PROVE BatchStart(n + 1) = n + 1
  <2>1. n = size * q + size
    BY <1>1, <1>3, <1>8, <1>12
  <2> DEFINE r == (n + 1 - 1) \div size
  <2>2. n + 1 - 1 = size * (q + 1) /\ q + 1 \in Int
    BY <1>1, <1>2, <2>1
  <2>3. r \in Int /\ size * r <= n /\ n < size * r + size
    BY <1>1, Quotient
  <2>4. r = q + 1
    <3> HIDE DEF r, size
    <3>1. size * (q + 1) < size * r + size
      BY <1>1, <2>2, <2>3
    <3>2. size * r < size * (q + 1) + size
      BY <1>1, <1>2, <2>2, <2>3
    <3>3. r <= q + 1 /\ q + 1 <= r
      BY <1>1, <2>2, <2>3, <3>1, <3>2, BelowMultiple
    <3> QED
      BY <2>2, <2>3, <3>3
  <2>5. r * size = n
    BY <1>1, <1>2, <2>1, <2>4
  <2> QED
    BY <2>5 DEF BatchStart
<1> QED
  BY <1>9, <1>10, <1>11, <1>12

\* The batch a caller is in.
LEMMA BatchOf ==
  ASSUME NEW c \in Embedders
  PROVE  Start(c) = BatchStart(job[c].next) /\ End(c) = BatchEnd(job[c].texts, job[c].next)
BY DEF Start, End, BatchStart, BatchEnd

\* The vectors the model sends are put at the places without an answer, and each is
\* that of the text at its place.
LEMMA SentArePlaced ==
  ASSUME EmbeddingInv, NEW c \in Embedders, job[c].phase = "send"
  PROVE  LET open == {i \in Start(c)..End(c) : i \notin DOMAIN job[c].results}
         IN  Placed(c) = [i \in open |-> Vector(job[c].texts[i], FALSE)]
<1> DEFINE open == {i \in Start(c)..End(c) : i \notin DOMAIN job[c].results}
           order == Ascending(open)
           n == Cardinality(open)
           texts == job[c].texts
<1>1. /\ texts \in Seq(Texts) /\ job[c].next \in 1 .. Len(texts)
  BY DEF EmbeddingInv, JobIsRight
<1>2. Start(c) \in Int /\ End(c) \in Int
  BY <1>1, BatchesFollow, BatchOf
<1>3. open \in SUBSET Int /\ IsFiniteSet(open)
  <2>1. IsFiniteSet(Start(c) .. End(c))
    BY <1>2, FS_Interval
  <2> QED
    BY <1>2, <2>1, FS_Subset
<1> HIDE DEF open
<1>4. /\ n \in Nat
      /\ order \in [1 .. n -> open]
      /\ \A i \in open : \E k \in 1 .. n : order[k] = i
  BY <1>3, AscendingOnce
<1>5. Uncached(c) = order
  BY DEF Uncached, open
<1> HIDE DEF order, n
<1>6. Range(order) = open
  BY <1>4 DEF Range
<1> DEFINE Sent(i) ==
      [k \in DOMAIN order |-> texts[order[k]]][CHOOSE k \in DOMAIN order : order[k] = i]
<1>7. Placed(c) = [i \in open |-> Vector(Sent(i), FALSE)]
  BY <1>5, <1>6 DEF Placed
<1>8. ASSUME NEW i \in open PROVE Sent(i) = texts[i]
  <2> DEFINE k == CHOOSE k \in DOMAIN order : order[k] = i
  <2>1. k \in DOMAIN order /\ order[k] = i
    BY <1>4, <1>8
  <2> QED
    BY <2>1
<1> HIDE DEF Sent
<1>9. Placed(c) = [i \in open |-> Vector(texts[i], FALSE)]
  BY <1>7, <1>8
<1> QED
  BY <1>9 DEF open

\* A step that gives one caller a right job and leaves the cache alone.
LEMMA OneJobChanges ==
  ASSUME EmbeddingInv, NEW c \in Embedders, NEW j, JobIsRight(j),
         job' = [job EXCEPT ![c] = j], UNCHANGED vectors
  PROVE  EmbeddingInv'
<1> QED
  BY DEF EmbeddingInv, CacheHoldsItsHash

LEMMA EmbeddingStarts == EmbeddingInit => EmbeddingInv
<1> SUFFICES ASSUME EmbeddingInit PROVE EmbeddingInv
  OBVIOUS
<1>1. CacheHoldsItsHash
  BY DEF EmbeddingInit, CacheHoldsItsHash, Texts
<1>2. JobIsRight(NoJob)
  BY DEF JobIsRight, NoJob, DueAnswers, JobPhases
<1> QED
  BY <1>1, <1>2 DEF EmbeddingInit, EmbeddingInv

LEMMA AskingKeeps ==
  ASSUME EmbeddingInv, NEW c \in Embedders, GenerateEmbeddings(c) PROVE EmbeddingInv'
<1>1. PICK texts \in TextLists : job' = [job EXCEPT ![c] = Asking(texts)]
  BY DEF GenerateEmbeddings
<1> DEFINE j == Asking(texts)
<1>2. texts \in Seq(Texts)
  BY EmbeddingAssumption DEF Texts
<1>3. /\ j.texts = texts /\ j.next = 1 /\ j.results = <<>>
      /\ j.phase = IF texts = <<>> THEN "done" ELSE "look"
      /\ DOMAIN j = {"texts", "next", "results", "tries", "phase"}
  BY DEF Asking, NoJob
<1> HIDE DEF j
<1>4. Len(texts) \in Nat /\ (texts # <<>> => 1 \in 1 .. Len(texts)) /\ (texts = <<>> => Len(texts) = 0)
  BY <1>2
<1>5. texts # <<>> => BatchStart(1) = 1
  <2>1. ASSUME texts # <<>> PROVE BatchStart(1) \in 1 .. 1
    BY <1>2, <1>4, <2>1, BatchesFollow
  <2> QED
    BY <2>1
<1>6. DueAnswers(j) = {}
  BY <1>3, <1>4, <1>5 DEF DueAnswers
<1>7. JobIsRight(j)
  BY <1>2, <1>3, <1>4, <1>6 DEF JobIsRight, JobPhases
<1> QED
  BY <1>1, <1>7, OneJobChanges DEF GenerateEmbeddings, j

LEMMA LookingKeeps ==
  ASSUME EmbeddingInv, NEW c \in Embedders, Look(c) PROVE EmbeddingInv'
<1> DEFINE texts == job[c].texts
           i == job[c].next
           results == job[c].results
<1>1. /\ JobIsRight(job[c]) /\ job[c].phase = "look"
      /\ texts \in Seq(Texts) /\ i \in 1 .. Len(texts) /\ texts[i] \in Texts
  BY DEF Look, EmbeddingInv, JobIsRight
<1>2. PICK v \in {vectors[HashOfText[texts[i]]], NoVector} : job' = [job EXCEPT ![c] = AfterLook(c, v)]
  BY DEF Look
<1> DEFINE longer == IF v = NoVector THEN results ELSE With(results, [k \in {i} |-> Vector(v, TRUE)])
           j == AfterLook(c, v)
<1>3. job' = [job EXCEPT ![c] = j]
  BY <1>2
<1>4. ASSUME v # NoVector PROVE Answered(texts[i], Vector(v, TRUE))
  BY <1>1, <1>4 DEF EmbeddingInv, CacheHoldsItsHash, Answered, TextAnswers, Vector, Texts
<1>5. /\ longer = [k \in DOMAIN longer |-> longer[k]]
      /\ DOMAIN results \subseteq DOMAIN longer
      /\ DOMAIN longer \subseteq 1 .. Len(texts)
      /\ \A k \in DOMAIN longer : Answered(texts[k], longer[k])
  <2>1. CASE v = NoVector
    BY <1>1, <2>1 DEF JobIsRight
  <2>2. CASE v # NoVector
    <3> DEFINE new == Vector(v, TRUE)
    <3>1. longer = [k \in {i} \cup DOMAIN results |-> IF k \in {i} THEN new ELSE results[k]]
      BY <2>2 DEF With
    <3>2. Answered(texts[i], new)
      BY <1>4, <2>2
    <3> HIDE DEF new, longer
    <3> QED
      BY <1>1, <3>1, <3>2 DEF JobIsRight
  <2> QED
    BY <2>1, <2>2
<1> HIDE DEF longer
<1>6. /\ DOMAIN j = {"texts", "next", "results", "tries", "phase"}
      /\ j.texts = texts /\ j.results = longer
      /\ j.next = IF i = End(c) THEN i ELSE i + 1
      /\ j.phase = IF i = End(c) THEN "send" ELSE "look"
  BY <1>1 DEF JobIsRight, AfterLook, longer
<1> HIDE DEF j
<1>7. j.next \in 1 .. Len(texts) /\ BatchStart(j.next) = BatchStart(i)
  <2>1. End(c) = BatchEnd(texts, i)
    BY BatchOf
  <2>2. End(c) \in i .. Len(texts) /\ (i < End(c) => BatchStart(i + 1) = BatchStart(i))
    BY <1>1, <2>1, BatchesFollow
  <2> QED
    BY <1>1, <1>6, <2>2
<1>8. DueAnswers(j) = 1 .. BatchStart(i) - 1 /\ DueAnswers(job[c]) = 1 .. BatchStart(i) - 1
  BY <1>1, <1>6, <1>7 DEF DueAnswers
<1>9. JobIsRight(j)
  BY <1>1, <1>5, <1>6, <1>7, <1>8 DEF JobIsRight, JobPhases
<1> QED
  BY <1>3, <1>9, OneJobChanges DEF Look

LEMMA EmbeddingKeeps ==
  ASSUME EmbeddingInv, NEW c \in Embedders, Embed(c) PROVE EmbeddingInv'
<1> DEFINE texts == job[c].texts
           n == job[c].next
           results == job[c].results
           open == {i \in Start(c)..End(c) : i \notin DOMAIN results}
           all == With(results, [i \in open |-> Vector(texts[i], FALSE)])
           j == [job[c] EXCEPT !.results = all, !.next = Start(c), !.phase = "store", !.tries = 0]
<1>1. /\ JobIsRight(job[c]) /\ job[c].phase = "send"
      /\ texts \in Seq(Texts) /\ n \in 1 .. Len(texts)
  BY DEF Embed, EmbeddingInv, JobIsRight
<1>2. job' = [job EXCEPT ![c] = j]
  <2>1. With(results, Placed(c)) = all
    BY <1>1, SentArePlaced
  <2> QED
    BY <1>1, <2>1 DEF Embed, EmbeddingInv
<1>3. /\ Start(c) \in 1 .. n /\ End(c) \in n .. Len(texts) /\ Len(texts) \in Nat
      /\ BatchStart(Start(c)) = Start(c) /\ BatchEnd(texts, Start(c)) = End(c)
  BY <1>1, BatchesFollow, BatchOf DEF BatchEnd
<1>4. /\ all = [k \in DOMAIN all |-> all[k]]
      /\ DOMAIN all = open \cup DOMAIN results
      /\ \A k \in DOMAIN all : Answered(texts[k], all[k])
  <2>1. ASSUME NEW k \in open PROVE Answered(texts[k], Vector(texts[k], FALSE))
    <3>1. texts[k] \in Texts
      BY <1>1, <1>3
    <3> QED
      BY <3>1 DEF Answered, TextAnswers, Vector
  <2> DEFINE fresh == [k \in open |-> Vector(texts[k], FALSE)]
  <2>2. all = [k \in open \cup DOMAIN results |-> IF k \in open THEN fresh[k] ELSE results[k]]
    BY DEF With
  <2>3. \A k \in open : Answered(texts[k], fresh[k])
    BY <2>1
  <2> HIDE DEF open, fresh, all
  <2> QED
    BY <1>1, <2>2, <2>3 DEF JobIsRight
<1>5. DOMAIN all \subseteq 1 .. Len(texts) /\ Start(c) .. End(c) \subseteq DOMAIN all
  <2> HIDE DEF all
  <2>1. open \subseteq 1 .. Len(texts)
    BY <1>3
  <2>2. Start(c) .. End(c) \subseteq open \cup DOMAIN results
    OBVIOUS
  <2> QED
    BY <1>1, <1>4, <2>1, <2>2 DEF JobIsRight
<1> HIDE DEF all
<1>6. /\ DOMAIN j = {"texts", "next", "results", "tries", "phase"}
      /\ j.texts = texts /\ j.results = all /\ j.next = Start(c) /\ j.phase = "store"
  BY <1>1 DEF JobIsRight
<1> HIDE DEF j
<1>7. DueAnswers(job[c]) = 1 .. Start(c) - 1 /\ DueAnswers(j) = 1 .. End(c)
  BY <1>1, <1>3, <1>6, BatchOf DEF DueAnswers
<1>8. DueAnswers(j) \subseteq DOMAIN all
  BY <1>1, <1>3, <1>4, <1>5, <1>7 DEF JobIsRight
<1>9. JobIsRight(j)
  BY <1>1, <1>3, <1>4, <1>5, <1>6, <1>8 DEF JobIsRight, JobPhases
<1> QED
  BY <1>2, <1>9, OneJobChanges DEF Embed

LEMMA EmbeddingFails ==
  ASSUME EmbeddingInv, NEW c \in Embedders, EmbedFails(c) PROVE EmbeddingInv'
<1> DEFINE failed == job[c].tries + 1 >= EmbedAttempts
           j == [job[c] EXCEPT !.tries = @ + 1, !.phase = IF failed THEN "failed" ELSE @]
<1>1. JobIsRight(job[c]) /\ job[c].phase = "send"
  BY DEF EmbedFails, EmbeddingInv
<1>2. job' = [job EXCEPT ![c] = j]
  BY DEF EmbedFails, EmbeddingInv
<1> HIDE DEF failed
<1>3. /\ DOMAIN j = {"texts", "next", "results", "tries", "phase"}
      /\ j.texts = job[c].texts /\ j.results = job[c].results /\ j.next = job[c].next
      /\ j.phase = IF failed THEN "failed" ELSE "send"
  BY <1>1 DEF JobIsRight
<1> HIDE DEF j
<1>4. DueAnswers(j) \subseteq DueAnswers(job[c])
  BY <1>1, <1>3 DEF DueAnswers
<1>5. JobIsRight(j)
  BY <1>1, <1>3, <1>4 DEF JobIsRight, JobPhases
<1> QED
  BY <1>2, <1>5, OneJobChanges DEF EmbedFails

LEMMA StoreVectorKeeps ==
  ASSUME EmbeddingInv, NEW c \in Embedders, StoreVector(c) PROVE EmbeddingInv'
<1> DEFINE texts == job[c].texts
           i == job[c].next
           last == IF i < End(c) THEN "store" ELSE IF i < Len(texts) THEN "look" ELSE "done"
           j == [job[c] EXCEPT !.next = IF i = Len(texts) THEN @ ELSE i + 1, !.phase = last]
<1>1. /\ JobIsRight(job[c]) /\ job[c].phase = "store"
      /\ texts \in Seq(Texts) /\ i \in 1 .. Len(texts) /\ texts[i] \in Texts
  <2>1. JobIsRight(job[c]) /\ job[c].phase = "store"
    BY DEF StoreVector, EmbeddingInv
  <2>2. texts \in Seq(Texts) /\ i \in 1 .. Len(texts)
    BY <2>1 DEF JobIsRight
  <2>3. texts[i] \in Texts
    BY <2>2
  <2> QED
    BY <2>1, <2>2, <2>3
<1>2. /\ Start(c) = BatchStart(i) /\ End(c) = BatchEnd(texts, i)
      /\ End(c) \in i .. Len(texts) /\ Len(texts) \in Nat
  <2>1. Start(c) = BatchStart(i) /\ End(c) = BatchEnd(texts, i)
    BY BatchOf
  <2> QED
    BY <1>1, <2>1, BatchesFollow
<1>3. job' = [job EXCEPT ![c] = j]
  BY <1>1 DEF StoreVector, EmbeddingInv
<1> HIDE DEF last
<1>4. /\ DOMAIN j = {"texts", "next", "results", "tries", "phase"}
      /\ j.texts = texts /\ j.results = job[c].results
      /\ j.next = IF i = Len(texts) THEN i ELSE i + 1
      /\ j.phase = last
  BY <1>1 DEF JobIsRight
<1> HIDE DEF j
<1>5. DueAnswers(job[c]) = 1 .. End(c)
  BY <1>1, <1>2 DEF DueAnswers
<1>6. last \in JobPhases /\ j.next \in 1 .. Len(texts)
  BY <1>1, <1>2, <1>4 DEF last, JobPhases
<1>7. DueAnswers(j) \subseteq 1 .. End(c)
  <2>1. CASE i < End(c)
    <3>1. j.next = i + 1 /\ j.phase = "store"
      BY <1>1, <1>2, <1>4, <2>1 DEF last
    <3>2. BatchEnd(texts, i + 1) = End(c)
      BY <1>1, <1>2, <2>1, BatchesFollow
    <3> QED
      BY <1>4, <3>1, <3>2 DEF DueAnswers
  <2>2. CASE i = End(c) /\ i < Len(texts)
    <3>1. j.next = i + 1 /\ j.phase = "look"
      BY <1>1, <1>2, <1>4, <2>2 DEF last
    <3>2. BatchStart(i + 1) = i + 1
      BY <1>1, <1>2, <2>2, BatchesFollow
    <3> QED
      BY <1>1, <1>2, <1>4, <2>2, <3>1, <3>2 DEF DueAnswers
  <2>3. CASE i = End(c) /\ i = Len(texts)
    <3>1. j.phase = "done"
      BY <1>1, <1>2, <1>4, <2>3 DEF last
    <3> QED
      BY <1>4, <2>3, <3>1 DEF DueAnswers
  <2> QED
    BY <1>1, <1>2, <2>1, <2>2, <2>3
<1>8. JobIsRight(j)
  BY <1>1, <1>4, <1>5, <1>6, <1>7 DEF JobIsRight
<1>9. CacheHoldsItsHash'
  <2>1. i \in DOMAIN job[c].results
    BY <1>1, <1>2, <1>5 DEF JobIsRight
  <2>2. Answered(texts[i], job[c].results[i])
    BY <1>1, <2>1 DEF JobIsRight
  <2>3. CASE vectors' = vectors
    BY <2>3 DEF EmbeddingInv, CacheHoldsItsHash
  <2>4. CASE /\ ~job[c].results[i].cached
             /\ vectors' = [vectors EXCEPT ![HashOfText[texts[i]]] = job[c].results[i].vector]
    <3>1. job[c].results[i].vector = texts[i]
      BY <2>2, <2>4 DEF Answered
    <3> QED
      BY <1>1, <2>4, <3>1 DEF EmbeddingInv, CacheHoldsItsHash
  <2> QED
    BY <2>3, <2>4 DEF StoreVector
<1>10. \A d \in Embedders : JobIsRight(job'[d])
  BY <1>3, <1>8 DEF EmbeddingInv
<1>11. job' = [d \in Embedders |-> job'[d]]
  BY <1>3 DEF EmbeddingInv
<1> QED
  BY <1>9, <1>10, <1>11 DEF EmbeddingInv

(* The i-th answer of generateEmbeddings is for the i-th text, for every    *)
(* number of callers, texts and batches: its own vector, or one the cache   *)
(* had under the hash of the text.                                          *)
THEOREM AnswersInPlace == EmbeddingSpec => []AnswersStayInPlace
<1>1. EmbeddingInv /\ [EmbeddingNext]_embeddingVars => EmbeddingInv'
  <2> SUFFICES ASSUME EmbeddingInv, [EmbeddingNext]_embeddingVars PROVE EmbeddingInv'
    OBVIOUS
  <2>1. ASSUME NEW h \in DOMAIN vectors, VectorExpires(h) PROVE EmbeddingInv'
    <3>1. CacheHoldsItsHash'
      BY <2>1 DEF VectorExpires, EmbeddingInv, CacheHoldsItsHash
    <3>2. job' = job
      BY <2>1 DEF VectorExpires
    <3> QED
      BY <3>1, <3>2 DEF EmbeddingInv
  <2>2. CASE UNCHANGED embeddingVars
    BY <2>2 DEF embeddingVars, EmbeddingInv, CacheHoldsItsHash
  <2> QED
    BY <2>1, <2>2, AskingKeeps, LookingKeeps, EmbeddingKeeps, EmbeddingFails, StoreVectorKeeps
       DEF EmbeddingNext
<1>2. EmbeddingInv => AnswersStayInPlace
  <2> SUFFICES ASSUME EmbeddingInv, NEW c \in Embedders, job[c].phase = "done",
                      NEW i \in 1 .. Len(job[c].texts)
               PROVE  Answered(job[c].texts[i], job[c].results[i])
    BY DEF AnswersStayInPlace, Answered
  <2>1. JobIsRight(job[c]) /\ DueAnswers(job[c]) = 1 .. Len(job[c].texts)
    BY DEF EmbeddingInv, DueAnswers
  <2> QED
    BY <2>1 DEF JobIsRight
<1> QED
  BY <1>1, <1>2, EmbeddingStarts, PTL DEF EmbeddingSpec

-----------------------------------------------------------------------------
(* The vector index.                                                       *)

Holding(c, id) == task[c].op \in {"vector", "write"} /\ task[c].id = id
TaskStates ==
  [op : {"none", "create"}]
    \cup [op : {"upload"}, id : TemplateIds, old : BOOLEAN]
    \cup [op : {"vector", "write"}, id : TemplateIds,
          status : PointStatuses, old : BOOLEAN]

IndexTypes ==
  /\ points \in [TemplateIds -> [status : PointStatuses, old : BOOLEAN]
                                  \cup {NoPoint}]
  /\ task \in [Curators -> TaskStates]
  /\ uploaded \subseteq TemplateIds /\ removed \subseteq TemplateIds

\* What a change of status holds is in the collection, or was taken from it while
\* it was held.
HeldAreKnown ==
  \A c \in Curators, id \in TemplateIds : Holding(c, id) =>
    /\ Present(id) \/ id \in removed
    /\ id \in removed => id \in revived

IndexInv == IndexTypes /\ HeldAreKnown /\ IndexIsExplained

LEMMA NoPointIsNoPoint ==
  ASSUME NEW status \in PointStatuses, NEW old \in BOOLEAN
  PROVE  /\ Point(status, old) # NoPoint
         /\ Point(status, old) \in [status : PointStatuses, old : BOOLEAN]
  BY IndexAssumption DEF Point

LEMMA IndexStarts == IndexInit => IndexInv
  BY DEF IndexInit, IndexInv, IndexTypes, HeldAreKnown, IndexIsExplained,
         Holding, NoTask, TaskStates, Present

\* A step that only puts one caller to rest, or several.
LEMMA FinishKeeps ==
  ASSUME IndexInv, UNCHANGED <<points, uploaded, removed, revived>>,
         task' \in [Curators -> TaskStates],
         \A c \in Curators : task'[c] = task[c] \/ task'[c].op \in {"none", "create"}
  PROVE  IndexInv'
<1>1. IndexTypes'
  BY DEF IndexInv, IndexTypes
<1>2. HeldAreKnown'
  BY DEF IndexInv, HeldAreKnown, Holding, Present
<1>3. IndexIsExplained'
  BY DEF IndexInv, IndexIsExplained, Present
<1> QED
  BY <1>1, <1>2, <1>3 DEF IndexInv

LEMMA UploadTemplateKeeps ==
  ASSUME NEW c \in Curators, IndexInv, UploadTemplate(c)
  PROVE  IndexInv'
<1>1. PICK id \in TemplateIds, old \in BOOLEAN :
        /\ task' = [task EXCEPT ![c] = [op |-> "upload", id |-> id, old |-> old]]
        /\ UNCHANGED <<points, uploaded, removed, revived>>
  BY DEF UploadTemplate, Do
<1>2. IndexTypes'
  BY <1>1 DEF IndexInv, IndexTypes, TaskStates
<1>3. HeldAreKnown'
  BY <1>1 DEF IndexInv, IndexTypes, HeldAreKnown, Holding, Present
<1>4. IndexIsExplained'
  BY <1>1 DEF IndexInv, IndexIsExplained, Present
<1> QED
  BY <1>2, <1>3, <1>4 DEF IndexInv

LEMMA UpsertTemplateKeeps ==
  ASSUME NEW c \in Curators, IndexInv, UpsertTemplate(c)
  PROVE  IndexInv'
<1>1. PICK id \in TemplateIds, old \in BOOLEAN :
        task[c] = [op |-> "upload", id |-> id, old |-> old]
  BY DEF IndexInv, IndexTypes, UpsertTemplate, TaskStates
<1>2. PICK point \in [status : PointStatuses, old : BOOLEAN] :
        point # NoPoint /\ points' = [points EXCEPT ![id] = point]
  <2>1. points' = [points EXCEPT ![id] = Point("active", old)]
    BY <1>1 DEF UpsertTemplate
  <2> QED
    BY <2>1, NoPointIsNoPoint DEF PointStatuses
<1>3. /\ uploaded' \in {uploaded, uploaded \cup {id}}
      /\ task' = [task EXCEPT ![c] = NoTask]
      /\ removed' = removed \ {id} /\ revived' = revived \ {id}
  BY <1>1 DEF UpsertTemplate, Finish
<1>4. IndexTypes'
  BY <1>2, <1>3 DEF IndexInv, IndexTypes, TaskStates, NoTask
<1>5. HeldAreKnown'
  BY <1>2, <1>3 DEF IndexInv, IndexTypes, HeldAreKnown, Holding, Present, NoTask
<1>6. IndexIsExplained'
  BY <1>2, <1>3 DEF IndexInv, IndexTypes, IndexIsExplained, Present
<1> QED
  BY <1>4, <1>5, <1>6 DEF IndexInv

\* Points leave: those a change of status holds are noted.
LEMMA RemovalKeeps ==
  ASSUME IndexInv, NEW ids \in SUBSET TemplateIds, Without(ids),
         UNCHANGED uploaded, task' \in [Curators -> TaskStates],
         \A c \in Curators : task'[c] = task[c] \/ task'[c].op \in {"none", "create"}
  PROVE  IndexInv'
<1>1. /\ points' = [id \in TemplateIds |-> IF id \in ids THEN NoPoint ELSE points[id]]
      /\ removed' = removed \cup {id \in ids : Present(id)}
      /\ revived' = revived \cup {id \in ids : Present(id) /\ id \in Held}
  BY DEF Without
<1>2. \A c \in Curators, id \in TemplateIds : Holding(c, id) => id \in Held
  BY DEF Holding, Held
<1>3. IndexTypes'
  BY <1>1 DEF IndexInv, IndexTypes
<1>4. HeldAreKnown'
  <2> SUFFICES ASSUME NEW c \in Curators, NEW id \in TemplateIds, Holding(c, id)'
               PROVE  /\ Present(id)' \/ id \in removed'
                      /\ id \in removed' => id \in revived'
    BY DEF HeldAreKnown
  <2>1. Holding(c, id)
    BY DEF Holding
  <2>2. /\ Present(id) \/ id \in removed
        /\ id \in removed => id \in revived
    BY <2>1 DEF IndexInv, HeldAreKnown
  <2> QED
    BY <1>1, <1>2, <2>1, <2>2 DEF Present
<1>5. IndexIsExplained'
  BY <1>1 DEF IndexInv, IndexTypes, IndexIsExplained, Present
<1> QED
  BY <1>3, <1>4, <1>5 DEF IndexInv

LEMMA UpdateVectorStatusKeeps ==
  ASSUME NEW c \in Curators, IndexInv, UpdateVectorStatus(c)
  PROVE  IndexInv'
<1>1. PICK id \in TemplateIds, status \in PointStatuses :
        /\ Present(id)
        /\ task' = [task EXCEPT ![c] = [op |-> "vector", id |-> id, status |-> status,
                                        old |-> points[id].old]]
        /\ UNCHANGED <<points, uploaded, removed, revived>>
  BY DEF UpdateVectorStatus, Do
<1>2. points[id].old \in BOOLEAN
  BY <1>1 DEF IndexInv, IndexTypes, Present
<1>3. IndexTypes'
  BY <1>1, <1>2 DEF IndexInv, IndexTypes, TaskStates
<1>4. HeldAreKnown'
  BY <1>1 DEF IndexInv, IndexTypes, HeldAreKnown, IndexIsExplained, Holding, Present
<1>5. IndexIsExplained'
  BY <1>1 DEF IndexInv, IndexIsExplained, Present
<1> QED
  BY <1>3, <1>4, <1>5 DEF IndexInv

LEMMA HeldTask ==
  ASSUME NEW c \in Curators, IndexInv, task[c].op \in {"vector", "write"}
  PROVE  task[c] \in [op : {"vector", "write"}, id : TemplateIds,
                      status : PointStatuses, old : BOOLEAN]
  BY DEF IndexInv, IndexTypes, TaskStates

LEMMA ReadVectorKeeps ==
  ASSUME NEW c \in Curators, IndexInv, ReadVector(c)
  PROVE  IndexInv'
<1>1. PICK id \in TemplateIds : Holding(c, id) /\ id = task[c].id
  BY HeldTask DEF ReadVector, Holding
<1>2. PICK t \in [op : {"write"}, id : TemplateIds,
                  status : PointStatuses, old : BOOLEAN] :
        t.id = id /\ task' = [task EXCEPT ![c] = t]
  <2>1. task[c] \in [op : {"vector", "write"}, id : TemplateIds,
                     status : PointStatuses, old : BOOLEAN]
    BY HeldTask DEF ReadVector
  <2>2. [task[c] EXCEPT !.op = "write"] \in
          [op : {"write"}, id : TemplateIds,
           status : PointStatuses, old : BOOLEAN]
    BY <2>1
  <2>3. [task[c] EXCEPT !.op = "write"].id = id
    BY <1>1, <2>1
  <2> QED
    BY <2>2, <2>3 DEF ReadVector, Do
<1>3. UNCHANGED <<points, uploaded, removed, revived>>
  BY DEF ReadVector
<1>4. IndexTypes'
  BY <1>2, <1>3 DEF IndexInv, IndexTypes, TaskStates
<1>5. HeldAreKnown'
  BY <1>1, <1>2, <1>3 DEF IndexInv, IndexTypes, HeldAreKnown, Holding, Present
<1>6. IndexIsExplained'
  BY <1>3 DEF IndexInv, IndexIsExplained, Present
<1> QED
  BY <1>4, <1>5, <1>6 DEF IndexInv

LEMMA WriteStatusKeeps ==
  ASSUME NEW c \in Curators, IndexInv, WriteStatus(c)
  PROVE  IndexInv'
<1>1. PICK id \in TemplateIds : Holding(c, id) /\ id = task[c].id
  BY HeldTask DEF WriteStatus, Holding
<1>2. PICK point \in [status : PointStatuses, old : BOOLEAN] :
        point # NoPoint /\ points' = [points EXCEPT ![id] = point]
  BY <1>1, HeldTask, NoPointIsNoPoint DEF WriteStatus
<1>3. task' = [task EXCEPT ![c] = NoTask] /\ UNCHANGED <<uploaded, removed, revived>>
  BY DEF WriteStatus, Finish
<1>4. /\ Present(id) \/ id \in removed
      /\ id \in removed => id \in revived
  BY <1>1 DEF IndexInv, HeldAreKnown
<1>5. IndexTypes'
  BY <1>2, <1>3 DEF IndexInv, IndexTypes, TaskStates, NoTask
<1>6. HeldAreKnown'
  BY <1>2, <1>3 DEF IndexInv, IndexTypes, HeldAreKnown, Holding, Present, NoTask
<1>7. IndexIsExplained'
  BY <1>2, <1>3, <1>4 DEF IndexInv, IndexTypes, IndexIsExplained, Present
<1> QED
  BY <1>5, <1>6, <1>7 DEF IndexInv

LEMMA IndexStepKeeps == IndexInv /\ [IndexNext]_indexVars => IndexInv'
<1> SUFFICES ASSUME IndexInv, [IndexNext]_indexVars PROVE IndexInv'
  OBVIOUS
<1>1. task \in [Curators -> TaskStates] /\ NoTask \in TaskStates
      /\ [op |-> "create"] \in TaskStates
  BY DEF IndexInv, IndexTypes, NoTask, TaskStates
<1>2. ASSUME NEW c \in Curators, CallFails(c) \/ EnsureCollection(c) PROVE IndexInv'
  <2>1. task' = [task EXCEPT ![c] = NoTask] /\ UNCHANGED <<points, uploaded, removed, revived>>
    BY <1>2 DEF CallFails, EnsureCollection, Finish
  <2> QED
    BY <1>1, <2>1, FinishKeeps DEF NoTask
<1>3. ASSUME NEW c \in Curators, DeleteTemplate(c) PROVE IndexInv'
  BY <1>1, <1>3, RemovalKeeps DEF DeleteTemplate
<1>4. ASSUME NEW c \in Curators, ClearCollection(c) PROVE IndexInv'
  <2>1. task' = [task EXCEPT ![c] = [op |-> "create"]] /\ Without(TemplateIds)
        /\ UNCHANGED uploaded
    BY <1>4 DEF ClearCollection, Do
  <2> QED
    BY <1>1, <2>1, RemovalKeeps
<1>5. CASE CleanupOldVectors
  <2> DEFINE ids == {id \in TemplateIds : Present(id) /\ points[id].old}
  <2>1. Without(ids) /\ UNCHANGED <<task, uploaded>> /\ ids \in SUBSET TemplateIds
    BY <1>5 DEF CleanupOldVectors
  <2> QED
    BY <1>1, <2>1, RemovalKeeps
<1>6. CASE CleanupArchivedVectors
  <2> DEFINE ids == {id \in TemplateIds : Present(id) /\ points[id].status # "active"}
  <2>1. Without(ids) /\ UNCHANGED <<task, uploaded>> /\ ids \in SUBSET TemplateIds
    BY <1>6 DEF CleanupArchivedVectors
  <2> QED
    BY <1>1, <2>1, RemovalKeeps
<1>7. CASE OnModuleInit
  BY <1>1, <1>7, FinishKeeps DEF OnModuleInit, NoTask
<1>8. CASE UNCHANGED indexVars
  BY <1>1, <1>8, FinishKeeps DEF indexVars
<1> QED
  BY <1>2, <1>3, <1>4, <1>5, <1>6, <1>7, <1>8, UploadTemplateKeeps, UpsertTemplateKeeps,
     UpdateVectorStatusKeeps, ReadVectorKeeps, WriteStatusKeeps DEF IndexNext

\* An acknowledged upload stays until something removes it, and what was removed
\* comes back only by an upload or a change of status that held it.
THEOREM IndexExplained == IndexSpec => []IndexIsExplained
<1>1. IndexInv => IndexIsExplained
  BY DEF IndexInv
<1> QED
  BY <1>1, IndexStarts, IndexStepKeeps, PTL DEF IndexSpec

-----------------------------------------------------------------------------
(* The results of a search.                                                *)

Results == [id : Documents, score : Int]

\* Results of which none is for the same document, and those with a score from 0
\* to 1, and with the best first.
Distinct(results) ==
    /\ results \in Seq(Results)
    /\ \A i, j \in DOMAIN results : i # j => results[i].id # results[j].id
Rated(results) ==
    Distinct(results) /\ \A i \in DOMAIN results : results[i].score \in 0 .. Scale
BestFirst(results) ==
    \A i, j \in DOMAIN results : i < j => results[i].score >= results[j].score
RankedResults(results) == Rated(results) /\ BestFirst(results)
SortedResults(results) == Distinct(results) /\ BestFirst(results)

LEMMA PlacesOf ==
    ASSUME NEW T, NEW s \in Seq(T)
    PROVE  /\ Len(s) \in Nat /\ DOMAIN s = 1 .. Len(s)
           /\ DOMAIN s \in SUBSET Int /\ IsFiniteSet(DOMAIN s) /\ Cardinality(DOMAIN s) = Len(s)
           /\ \A i \in DOMAIN s : s[i] \in T
<1>1. Len(s) \in Nat /\ DOMAIN s = 1 .. Len(s)
  OBVIOUS
<1>2. \A i \in DOMAIN s : s[i] \in T
  BY <1>1
<1>3. IsFiniteSet(1 .. Len(s)) /\ Cardinality(1 .. Len(s)) = Len(s)
  <2> DEFINE n == Len(s)
  <2>1. n \in Nat
    BY <1>1
  <2> HIDE DEF n
  <2>2. IsFiniteSet(1 .. n) /\ Cardinality(1 .. n) = IF 1 > n THEN 0 ELSE n - 1 + 1
    BY <2>1, FS_Interval
  <2>3. Cardinality(1 .. n) = n
    BY <2>1, <2>2
  <2> QED
    BY <2>2, <2>3 DEF n
<1> QED
  BY <1>1, <1>2, <1>3

\* Picking entries by their places.
LEMMA PickedEntries ==
    ASSUME NEW T, NEW s \in Seq(T), NEW n \in Nat, NEW order \in [1 .. n -> DOMAIN s],
           NEW picked, picked = [k \in 1 .. n |-> s[order[k]]]
    PROVE  picked \in Seq(T) /\ Len(picked) = n /\ DOMAIN picked = 1 .. n
<1>1. picked \in [1 .. n -> T]
  BY PlacesOf
<1> QED
  BY <1>1

\* An array sorted by a key has the same entries, and none before one with a
\* smaller key.
IsSorting(T, s, key, sorted, order) ==
    /\ s \in Seq(T) /\ key \in [DOMAIN s -> Int]
    /\ sorted = SortedBy(s, key) /\ order = InOrder(key)
LEMMA SortingPermutes ==
    ASSUME NEW T, NEW s, NEW key, NEW sorted, NEW order, IsSorting(T, s, key, sorted, order)
    PROVE  /\ sorted \in Seq(T) /\ DOMAIN sorted = DOMAIN s /\ Len(sorted) = Len(s)
           /\ order \in [DOMAIN s -> DOMAIN s]
           /\ \A i \in DOMAIN s : sorted[i] = s[order[i]] /\ \E k \in DOMAIN s : order[k] = i
           /\ \A k, l \in DOMAIN s : k < l =>
                order[k] # order[l] /\ key[order[k]] <= key[order[l]]
<1> USE DEF IsSorting
<1> DEFINE n == Len(s)
<1>1. n \in Nat /\ DOMAIN s = 1 .. n /\ DOMAIN s \in SUBSET Int /\ IsFiniteSet(DOMAIN s)
      /\ Cardinality(DOMAIN s) = n
  BY PlacesOf
<1>2. /\ order \in [1 .. n -> DOMAIN s]
      /\ \A i \in DOMAIN s : \E k \in 1 .. n : order[k] = i
      /\ \A k, l \in 1 .. n : k < l => order[k] # order[l] /\ NotAfter(key, order[k], order[l])
  <2> DEFINE S == DOMAIN s
  <2>1. S \in SUBSET Int /\ IsFiniteSet(S) /\ key \in [S -> Int] /\ Cardinality(S) = n
    BY <1>1
  <2> HIDE DEF S, n
  <2>2. LET m == Cardinality(S)
        IN  /\ InOrder(key) \in [1 .. m -> S]
            /\ \A i \in S : \E k \in 1 .. m : InOrder(key)[k] = i
            /\ \A k, l \in 1 .. m : k < l =>
                 /\ InOrder(key)[k] # InOrder(key)[l]
                 /\ NotAfter(key, InOrder(key)[k], InOrder(key)[l])
    BY <2>1, OrderIsSorted
  <2> QED
    BY <2>1, <2>2 DEF S
<1>3. sorted = [k \in 1 .. n |-> s[order[k]]]
  BY <1>1 DEF SortedBy
<1> HIDE DEF n
<1>4. sorted \in Seq(T) /\ Len(sorted) = n /\ DOMAIN sorted = 1 .. n
  BY <1>1, <1>2, <1>3, PickedEntries
<1>5. ASSUME NEW k \in 1 .. n, NEW l \in 1 .. n, k < l PROVE key[order[k]] <= key[order[l]]
  <2>1. order[k] \in DOMAIN s /\ order[l] \in DOMAIN s /\ NotAfter(key, order[k], order[l])
    BY <1>2, <1>5
  <2>2. key[order[k]] \in Int /\ key[order[l]] \in Int
    BY <2>1
  <2> QED
    BY <2>1, <2>2 DEF NotAfter
<1>6. \A i \in 1 .. n : sorted[i] = s[order[i]]
  BY <1>3
<1>7. Len(sorted) = Len(s) /\ DOMAIN sorted = DOMAIN s
  BY <1>1, <1>4 DEF n
<1>8. DOMAIN s = 1 .. n
  BY <1>1
<1>9. order \in [DOMAIN s -> DOMAIN s] /\ \A i \in DOMAIN s : \E k \in DOMAIN s : order[k] = i
  BY <1>2, <1>8
<1>10. \A k, l \in DOMAIN s : k < l => order[k] # order[l]
  BY <1>2, <1>8
<1>11. \A k, l \in DOMAIN s : k < l => key[order[k]] <= key[order[l]]
  BY <1>5, <1>8
<1>12. \A i \in DOMAIN s : sorted[i] = s[order[i]]
  BY <1>6, <1>8
<1> QED
  BY <1>4, <1>7, <1>9, <1>10, <1>11, <1>12

\* A filtered array has the entries at the places, in their order.
IsFiltering(T, s, places, kept, order) ==
    /\ s \in Seq(T) /\ places \in SUBSET (DOMAIN s)
    /\ kept = Filtered(s, places) /\ order = Ascending(places)
LEMMA FilteringKeeps ==
    ASSUME NEW T, NEW s, NEW places, NEW kept, NEW order, IsFiltering(T, s, places, kept, order)
    PROVE  /\ kept \in Seq(T) /\ Len(kept) <= Len(s)
           /\ order \in [DOMAIN kept -> places]
           /\ \A k \in DOMAIN kept : kept[k] = s[order[k]]
           /\ \A i \in places : \E k \in DOMAIN kept : order[k] = i
           /\ \A k, l \in DOMAIN kept : k < l => order[k] < order[l]
<1> USE DEF IsFiltering
<1> DEFINE n == Cardinality(places)
<1>1. DOMAIN s \in SUBSET Int /\ IsFiniteSet(DOMAIN s) /\ Cardinality(DOMAIN s) = Len(s)
  BY PlacesOf
<1>2. places \in SUBSET Int /\ IsFiniteSet(places) /\ n <= Len(s)
  BY <1>1, FS_Subset
<1>3. /\ n \in Nat /\ order \in [1 .. n -> places]
      /\ \A i \in places : \E k \in 1 .. n : order[k] = i
      /\ \A k, l \in 1 .. n : k < l => order[k] < order[l]
  BY <1>2, AscendingOnce
<1>4. kept = [k \in 1 .. n |-> s[order[k]]]
  BY DEF Filtered
<1> HIDE DEF n
<1>5. order \in [1 .. n -> DOMAIN s]
  BY <1>3
<1>6. kept \in Seq(T) /\ Len(kept) = n /\ DOMAIN kept = 1 .. n
  BY <1>3, <1>4, <1>5, PickedEntries
<1>7. \A k \in 1 .. n : kept[k] = s[order[k]]
  BY <1>4
<1> QED
  BY <1>2, <1>3, <1>6, <1>7 DEF n

LEMMA ByScoreRanks ==
    ASSUME NEW results, Distinct(results)
    PROVE  LET sorted == ByScore(results)
           IN  /\ Distinct(sorted) /\ BestFirst(sorted) /\ DOMAIN sorted = DOMAIN results
               /\ Rated(results) => RankedResults(sorted)
               /\ \A i \in DOMAIN results : \E k \in DOMAIN results : sorted[k] = results[i]
               /\ \A k \in DOMAIN results : \E i \in DOMAIN results : sorted[k] = results[i]
<1> DEFINE key == [i \in DOMAIN results |-> -results[i].score]
           sorted == ByScore(results)
           order == InOrder(key)
<1>1. /\ results \in Seq(Results)
      /\ \A i \in DOMAIN results : results[i].id \in Documents /\ results[i].score \in Int
  <2>1. results \in Seq(Results)
    BY DEF Distinct
  <2>2. \A i \in DOMAIN results : results[i] \in Results
    BY <2>1, PlacesOf
  <2> QED
    BY <2>1, <2>2 DEF Results
<1>2. key \in [DOMAIN results -> Int]
  BY <1>1
<1>3. sorted = SortedBy(results, key)
  BY DEF ByScore
<1>4. \A i \in DOMAIN results : key[i] = -results[i].score
  OBVIOUS
<1> HIDE DEF key, sorted, order
<1>5. /\ sorted \in Seq(Results) /\ DOMAIN sorted = DOMAIN results
      /\ order \in [DOMAIN results -> DOMAIN results]
      /\ \A i \in DOMAIN results :
            sorted[i] = results[order[i]] /\ \E k \in DOMAIN results : order[k] = i
      /\ \A k, l \in DOMAIN results : k < l =>
            order[k] # order[l] /\ key[order[k]] <= key[order[l]]
  <2>1. results \in Seq(Results)
    BY <1>1
  <2>2. order = InOrder(key)
    BY DEF order
  <2>3. IsSorting(Results, results, key, sorted, order)
    BY <1>2, <1>3, <2>1, <2>2 DEF IsSorting
  <2> QED
    BY <2>3, SortingPermutes
<1>6. DOMAIN results \subseteq Int
  BY <1>1, PlacesOf
<1>7. \A k, l \in DOMAIN results : k # l => order[k] # order[l]
  <2> SUFFICES ASSUME NEW k \in DOMAIN results, NEW l \in DOMAIN results, k # l
               PROVE  order[k] # order[l]
    OBVIOUS
  <2>1. k < l \/ l < k
    BY <1>6
  <2> QED
    BY <1>5, <2>1
<1>8. Distinct(sorted)
  <2> SUFFICES ASSUME NEW k \in DOMAIN results, NEW l \in DOMAIN results, k # l
               PROVE  sorted[k].id # sorted[l].id
    BY <1>5 DEF Distinct
  <2>1. order[k] \in DOMAIN results /\ order[l] \in DOMAIN results /\ order[k] # order[l]
    BY <1>5, <1>7
  <2>2. results[order[k]].id # results[order[l]].id
    BY <2>1 DEF Distinct
  <2> QED
    BY <1>5, <2>2
<1>9. BestFirst(sorted)
  <2> SUFFICES ASSUME NEW k \in DOMAIN results, NEW l \in DOMAIN results, k < l
               PROVE  sorted[k].score >= sorted[l].score
    BY <1>5 DEF BestFirst
  <2>1. order[k] \in DOMAIN results /\ order[l] \in DOMAIN results /\ key[order[k]] <= key[order[l]]
    BY <1>5
  <2> DEFINE a == results[order[k]].score
             b == results[order[l]].score
  <2>2. key[order[k]] = -a /\ key[order[l]] = -b /\ a \in Int /\ b \in Int
    BY <1>1, <1>4, <2>1
  <2> HIDE DEF a, b
  <2>3. a >= b
    BY <2>1, <2>2
  <2> QED
    BY <1>5, <2>3 DEF a, b
<1>10. Rated(results) => Rated(sorted)
  BY <1>5, <1>8 DEF Rated
<1> QED
  BY <1>5, <1>8, <1>9, <1>10 DEF RankedResults, sorted

LEMMA FirstIsPart ==
    ASSUME NEW results, Distinct(results), NEW n \in Nat
    PROVE  LET first == First(results, n)
           IN  /\ Distinct(first) /\ DOMAIN first \subseteq DOMAIN results
               /\ \A i \in DOMAIN first : first[i] = results[i]
<1> DEFINE first == First(results, n)
           m == IF n < Len(results) THEN n ELSE Len(results)
<1>1. results \in Seq(Results) /\ Len(results) \in Nat /\ DOMAIN results = 1 .. Len(results)
  BY PlacesOf DEF Distinct
<1>2. m \in Nat /\ m <= Len(results)
  BY <1>1
<1>3. first = SubSeq(results, 1, m)
  BY DEF First
<1> HIDE DEF first, m
<1>4. \A i \in 1 .. m : results[i] \in Results
  BY <1>1, <1>2
<1>5. first \in Seq(Results) /\ Len(first) = m /\ \A i \in 1 .. m : first[i] = results[i]
  BY <1>2, <1>3, <1>4, SubSeqProperties
<1>6. DOMAIN first = 1 .. m
  BY <1>5
<1> QED
  BY <1>1, <1>2, <1>5, <1>6 DEF Distinct, first

LEMMA FirstAreRanked ==
    ASSUME NEW results, NEW n \in Nat
    PROVE  /\ RankedResults(results) => RankedResults(First(results, n))
           /\ SortedResults(results) => SortedResults(First(results, n))
  BY FirstIsPart DEF RankedResults, SortedResults, Rated, BestFirst

\* The entries at some places, in their order.
LEMMA FilteredIsPart ==
    ASSUME NEW results, Distinct(results), NEW places \in SUBSET (DOMAIN results)
    PROVE  LET kept == Filtered(results, places)
               order == Ascending(places)
           IN  /\ Distinct(kept)
               /\ RankedResults(results) => RankedResults(kept)
               /\ SortedResults(results) => SortedResults(kept)
               /\ order \in [DOMAIN kept -> places]
               /\ \A k \in DOMAIN kept : kept[k] = results[order[k]]
               /\ \A i \in places : \E k \in DOMAIN kept : order[k] = i
               /\ \A k, l \in DOMAIN kept : k < l => order[k] < order[l]
<1> DEFINE kept == Filtered(results, places)
           order == Ascending(places)
<1>1. results \in Seq(Results) /\ DOMAIN results \subseteq Int
  BY PlacesOf DEF Distinct
<1>2. IsFiltering(Results, results, places, kept, order)
  BY <1>1 DEF IsFiltering
<1> HIDE DEF kept, order
<1>3. /\ kept \in Seq(Results) /\ order \in [DOMAIN kept -> places]
      /\ \A k \in DOMAIN kept : kept[k] = results[order[k]]
      /\ \A i \in places : \E k \in DOMAIN kept : order[k] = i
      /\ \A k, l \in DOMAIN kept : k < l => order[k] < order[l]
  BY <1>2, FilteringKeeps
<1>4. DOMAIN kept \subseteq Int
  BY <1>3, PlacesOf
<1>5. ASSUME NEW k \in DOMAIN kept, NEW l \in DOMAIN kept, k # l PROVE order[k] # order[l]
  <2>1. order[k] \in Int /\ order[l] \in Int
    BY <1>1, <1>3
  <2>2. k < l \/ l < k
    BY <1>4, <1>5
  <2>3. order[k] < order[l] \/ order[l] < order[k]
    BY <1>3, <2>2
  <2> QED
    BY <2>1, <2>3
<1>6. Distinct(kept)
  <2> SUFFICES ASSUME NEW k \in DOMAIN kept, NEW l \in DOMAIN kept, k # l
               PROVE  kept[k].id # kept[l].id
    BY <1>3 DEF Distinct
  <2>1. order[k] \in DOMAIN results /\ order[l] \in DOMAIN results /\ order[k] # order[l]
    BY <1>3, <1>5
  <2>2. results[order[k]].id # results[order[l]].id
    BY <2>1 DEF Distinct
  <2> QED
    BY <1>3, <2>2
<1>7. ASSUME BestFirst(results) PROVE BestFirst(kept)
  <2> SUFFICES ASSUME NEW k \in DOMAIN kept, NEW l \in DOMAIN kept, k < l
               PROVE  kept[k].score >= kept[l].score
    BY DEF BestFirst
  <2>1. order[k] \in DOMAIN results /\ order[l] \in DOMAIN results /\ order[k] < order[l]
    BY <1>3
  <2>2. results[order[k]].score >= results[order[l]].score
    BY <1>7, <2>1 DEF BestFirst
  <2> QED
    BY <1>3, <2>2
<1>8. ASSUME Rated(results) PROVE Rated(kept)
  BY <1>3, <1>6, <1>8 DEF Rated
<1>9. /\ RankedResults(results) => RankedResults(kept)
      /\ SortedResults(results) => SortedResults(kept)
  BY <1>6, <1>7, <1>8 DEF RankedResults, SortedResults
<1> QED
  BY <1>3, <1>6, <1>9 DEF kept, order

\* Results of which none is for the same document are finitely many, and make a
\* sequence.
LEMMA EachResultOnce ==
    ASSUME NEW S \in SUBSET Results, \A r, s \in S : r.id = s.id => r = s
    PROVE  /\ Distinct(SetToSeq(S)) /\ \A i \in DOMAIN SetToSeq(S) : SetToSeq(S)[i] \in S
           /\ \A r \in S : \E i \in DOMAIN SetToSeq(S) : SetToSeq(S)[i] = r
<1> DEFINE f == [r \in S |-> r.id]
           n == Cardinality(S)
           seq == SetToSeq(S)
<1>1. IsFiniteSet(S)
  <2>1. f \in [S -> Documents] /\ \A r, s \in S : f[r] = f[s] => r = s
    BY DEF Results
  <2> HIDE DEF f
  <2>2. f \in Injection(S, Documents)
    BY <2>1 DEF Injection, IsInjective
  <2> QED
    BY <2>2, ContextAssumption, FS_Injection
<1>2. n \in Nat /\ ExistsBijection(1 .. n, S)
  BY <1>1, FS_CardinalityType
<1>3. PICK g : g \in [1 .. n -> S] /\ IsInjective(g)
  BY <1>2 DEF ExistsBijection, Bijection, Injection
<1>4. seq = CHOOSE h \in [1 .. n -> S] : IsInjective(h)
  BY DEF SetToSeq
<1> HIDE DEF seq, n
<1>5. seq \in [1 .. n -> S] /\ IsInjective(seq)
  BY <1>3, <1>4
<1>6. seq \in Seq(Results) /\ DOMAIN seq = 1 .. n
  BY <1>2, <1>5
<1>7. Distinct(seq)
  <2> SUFFICES ASSUME NEW i \in 1 .. n, NEW j \in 1 .. n, i # j PROVE seq[i].id # seq[j].id
    BY <1>6 DEF Distinct
  <2>1. seq[i] # seq[j] /\ seq[i] \in S /\ seq[j] \in S
    BY <1>5 DEF IsInjective
  <2> QED
    BY <2>1
<1>8. seq \in Surjection(1 .. n, S)
  <2>1. seq \in Injection(1 .. n, S)
    BY <1>5 DEF Injection
  <2>2. Cardinality(1 .. n) = Cardinality(S)
    <3>1. Cardinality(1 .. n) = IF 1 > n THEN 0 ELSE n - 1 + 1
      BY <1>2, FS_Interval
    <3> QED
      BY <1>2, <3>1 DEF n
  <2> QED
    BY <1>1, <2>1, <2>2, FS_Injection
<1> QED
  BY <1>5, <1>6, <1>7, <1>8 DEF seq, Surjection

\* QdrantService answers each document once, the nearest first.
LEMMA NearestFirst ==
    ASSUME NEW q, index \subseteq Documents, relevance[q] \in [Documents -> Int], NEW k \in Nat,
           NEW t
    PROVE  Distinct(QdrantSearch(q, k, t)) /\ BestFirst(QdrantSearch(q, k, t))
<1> DEFINE near == {d \in index : relevance[q][d] >= t}
           rows == {[id |-> d, score |-> relevance[q][d]] : d \in near}
           sorted == ByScore(SetToSeq(rows))
<1>1. rows \in SUBSET Results /\ \A r, s \in rows : r.id = s.id => r = s
  BY DEF Results
<1>2. QdrantSearch(q, k, t) = First(sorted, k)
  BY DEF QdrantSearch
<1> HIDE DEF rows
<1>3. Distinct(SetToSeq(rows))
  BY <1>1, EachResultOnce
<1>4. Distinct(sorted) /\ BestFirst(sorted)
  BY <1>3, ByScoreRanks
<1> HIDE DEF sorted
<1>5. Distinct(First(sorted, k)) /\ BestFirst(First(sorted, k))
  BY <1>4, FirstIsPart DEF BestFirst
<1> QED
  BY <1>2, <1>5

\* x stretched from 0 .. range over 0 .. n.
LEMMA Stretching ==
    ASSUME NEW x \in Nat, NEW y \in Nat, NEW range \in Nat \ {0}, NEW n \in Nat,
           x <= y, y <= range
    PROVE  /\ (x * n) \div range <= (y * n) \div range
           /\ (x * n) \div range \in 0 .. n
<1> DEFINE a == x * n
           b == y * n
           c == range * n
<1>1. a \in Nat /\ b \in Nat /\ c \in Nat
  OBVIOUS
<1>2. a <= b
  <2>1. (y - x) * n >= 0 /\ (y - x) * n = b - a
    OBVIOUS
  <2> QED
    BY <1>1, <2>1
<1>3. b <= c
  <2>1. (range - y) * n >= 0 /\ (range - y) * n = c - b
    OBVIOUS
  <2> QED
    BY <1>1, <2>1
<1> HIDE DEF a, b
<1> DEFINE p == a \div range
           r == b \div range
<1>4. /\ p \in Int /\ range * p <= a /\ a < range * p + range
      /\ r \in Int /\ range * r <= b /\ b < range * r + range
  BY <1>1, Quotient
<1> HIDE DEF p, r
<1>5. p <= r
  <2> DEFINE u == range * p
             v == range * r
  <2>1. u \in Int /\ v \in Int
    BY <1>4
  <2>2. u < v + range
    <3> HIDE DEF u, v
    <3> QED
      BY <1>1, <1>2, <1>4, <2>1 DEF u, v
  <2> QED
    BY <1>4, <2>2, BelowMultiple
<1>6. p <= n
  <2>1. range * p < range * n + range
    <3> DEFINE u == range * p
    <3>1. u \in Int /\ u <= a
      BY <1>4
    <3> HIDE DEF u, c
    <3>2. u < c + range
      BY <1>1, <1>2, <1>3, <3>1
    <3> QED
      BY <3>2 DEF u, c
  <2> QED
    BY <1>4, <2>1, BelowMultiple
<1>7. 0 <= p
  <2>1. range * 0 < range * p + range
    <3> DEFINE u == range * p
    <3>1. u \in Int /\ a < u + range /\ range * 0 = 0
      BY <1>4
    <3> HIDE DEF u
    <3>2. 0 < u + range
      BY <1>1, <3>1
    <3> QED
      BY <3>1, <3>2 DEF u
  <2> QED
    BY <1>4, <2>1, BelowMultiple
<1> QED
  BY <1>4, <1>5, <1>6, <1>7 DEF p, r, a, b

\* Other scores for the same documents.
LEMMA Rescored ==
    ASSUME NEW results, Distinct(results), NEW score \in [DOMAIN results -> Int],
           NEW rescored,
           rescored = [i \in DOMAIN results |-> [results[i] EXCEPT !.score = score[i]]]
    PROVE  /\ Distinct(rescored) /\ DOMAIN rescored = DOMAIN results
           /\ \A i \in DOMAIN results : rescored[i].score = score[i]
<1>1. results \in Seq(Results) /\ DOMAIN results = 1 .. Len(results) /\ Len(results) \in Nat
  BY PlacesOf DEF Distinct
<1>2. \A i \in DOMAIN results : results[i] \in Results
  BY <1>1, PlacesOf
<1>3. ASSUME NEW i \in DOMAIN results
      PROVE  /\ rescored[i] \in Results
             /\ rescored[i].id = results[i].id /\ rescored[i].score = score[i]
  <2>1. results[i] \in Results /\ score[i] \in Int
    BY <1>2
  <2>2. rescored[i] = [results[i] EXCEPT !.score = score[i]]
    OBVIOUS
  <2> QED
    BY <2>1, <2>2 DEF Results
<1>4. rescored \in Seq(Results) /\ DOMAIN rescored = DOMAIN results
  <2> DEFINE n == Len(results)
  <2>1. n \in Nat /\ DOMAIN results = 1 .. n
    BY <1>1
  <2> HIDE DEF n
  <2>2. DOMAIN rescored = 1 .. n /\ rescored = [i \in 1 .. n |-> rescored[i]]
    BY <2>1
  <2>3. rescored \in [1 .. n -> Results]
    BY <1>3, <2>1, <2>2
  <2> QED
    BY <2>1, <2>2, <2>3
<1>5. \A i, j \in DOMAIN results : i # j => results[i].id # results[j].id
  BY DEF Distinct
<1>6. \A i, j \in DOMAIN rescored : i # j => rescored[i].id # rescored[j].id
  BY <1>3, <1>4, <1>5
<1> QED
  BY <1>3, <1>4, <1>6 DEF Distinct

\* The stretched scores are in the order of the scores, from 0 to 1.
LEMMA NormalizedAreRanked ==
    ASSUME NEW results, Distinct(results), BestFirst(results)
    PROVE  RankedResults(NormalizeScores(results))
<1> DEFINE scores == {results[i].score : i \in DOMAIN results}
           low == CHOOSE s \in scores : \A t \in scores : s <= t
           high == CHOOSE s \in scores : \A t \in scores : t <= s
           range == high - low
           stretched == [i \in DOMAIN results |->
               IF range = 0 THEN Scale ELSE ((results[i].score - low) * Scale) \div range]
           normal == NormalizeScores(results)
<1>1. results \in Seq(Results) /\ DOMAIN results = 1 .. Len(results) /\ Len(results) \in Nat
  BY PlacesOf DEF Distinct
<1>2. \A i \in DOMAIN results : results[i] \in Results /\ results[i].score \in Int
  <2>1. \A i \in DOMAIN results : results[i] \in Results
    BY <1>1, PlacesOf
  <2> QED
    BY <2>1 DEF Results
<1>3. normal = [i \in DOMAIN results |-> [results[i] EXCEPT !.score = stretched[i]]]
  BY DEF NormalizeScores
<1>4. Scale \in Nat
  BY ContextAssumption
<1>5. ASSUME NEW i \in DOMAIN results
      PROVE  /\ low \in Int /\ high \in Int
             /\ low <= results[i].score /\ results[i].score <= high
  <2> DEFINE n == Len(results)
  <2>1. n \in DOMAIN results /\ 1 \in DOMAIN results
    BY <1>1
  <2>2. ASSUME NEW j \in DOMAIN results
        PROVE  results[n].score <= results[j].score /\ results[j].score <= results[1].score
    <3>1. (j < n \/ j = n) /\ (1 < j \/ j = 1)
      BY <1>1
    <3>2. results[n].score \in Int /\ results[j].score \in Int /\ results[1].score \in Int
      BY <1>2, <2>1
    <3> QED
      BY <2>1, <3>1, <3>2 DEF BestFirst
  <2>3. \A t \in scores : results[n].score <= t /\ t <= results[1].score
    BY <2>2
  <2>4. results[n].score \in scores /\ results[1].score \in scores /\ results[i].score \in scores
    BY <2>1
  <2>5. scores \subseteq Int
    BY <1>2
  <2> HIDE DEF scores, n
  <2>6. low \in scores /\ \A t \in scores : low <= t
    BY <2>3, <2>4
  <2>7. high \in scores /\ \A t \in scores : t <= high
    BY <2>3, <2>4
  <2> QED
    BY <2>4, <2>5, <2>6, <2>7
<1> HIDE DEF low, high
<1>6. ASSUME NEW i \in DOMAIN results, NEW j \in DOMAIN results,
             results[i].score <= results[j].score
      PROVE  stretched[i] \in 0 .. Scale /\ stretched[i] <= stretched[j]
  <2>1. CASE range = 0
    BY <1>4, <2>1
  <2>2. CASE range # 0
    <3> DEFINE x == results[i].score - low
               y == results[j].score - low
    <3>1. x \in Nat /\ y \in Nat /\ range \in Nat \ {0} /\ x <= y /\ y <= range
      BY <1>2, <1>5, <1>6, <2>2
    <3>2. stretched[i] = (x * Scale) \div range /\ stretched[j] = (y * Scale) \div range
      BY <2>2
    <3> HIDE DEF x, y, range, stretched
    <3> QED
      BY <1>4, <3>1, <3>2, Stretching
  <2> QED
    BY <2>1, <2>2
<1> HIDE DEF stretched
<1>7. ASSUME NEW i \in DOMAIN results PROVE stretched[i] \in 0 .. Scale
  BY <1>2, <1>6
<1>8. stretched \in [DOMAIN results -> Int]
  BY <1>4, <1>7 DEF stretched
<1> HIDE DEF normal
<1>9. /\ Distinct(normal) /\ DOMAIN normal = DOMAIN results
      /\ \A i \in DOMAIN results : normal[i].score = stretched[i]
  <2>1. normal = [i \in DOMAIN results |-> [results[i] EXCEPT !.score = stretched[i]]]
    BY <1>3
  <2>2. Distinct(results)
    BY <1>3
  <2> QED
    BY <1>8, <2>1, <2>2, Rescored
<1>10. Rated(normal)
  BY <1>7, <1>9 DEF Rated
<1>11. BestFirst(normal)
  <2> SUFFICES ASSUME NEW i \in DOMAIN results, NEW j \in DOMAIN results, i < j
               PROVE  normal[i].score >= normal[j].score
    BY <1>9 DEF BestFirst
  <2>1. results[j].score <= results[i].score
    BY <1>2 DEF BestFirst
  <2>2. stretched[j] <= stretched[i] /\ stretched[i] \in Int /\ stretched[j] \in Int
    BY <1>6, <1>8, <2>1
  <2> QED
    BY <1>9, <2>2
<1> QED
  BY <1>10, <1>11 DEF RankedResults, normal

LEMMA ScoresOf ==
    ASSUME NEW results, Rated(results)
    PROVE  /\ results \in Seq(Results) /\ DOMAIN results \subseteq Int
           /\ \A i \in DOMAIN results : results[i].score \in Nat /\ results[i].score <= Scale
<1>1. Scale \in Nat
  BY ContextAssumption
<1> QED
  BY <1>1, PlacesOf DEF Rated, Distinct

\* hybridSearch raises a score to 1 at most.
LEMMA HybridIsRanked == ASSUME NEW results, Rated(results) PROVE RankedResults(Hybrid(results))
<1> DEFINE Raised(x) == IF x * Boost < Scale * Scale THEN (x * Boost) \div Scale ELSE Scale
           score == [i \in DOMAIN results |->
                       IF results[i].id \notin Keyworded THEN results[i].score
                       ELSE Raised(results[i].score)]
           boosted == [i \in DOMAIN results |-> [results[i] EXCEPT !.score = score[i]]]
<1>1. Scale \in Nat \ {0} /\ Boost \in Nat
  BY ContextAssumption, RetrievalAssumption
<1>2. ASSUME NEW x \in Nat PROVE Raised(x) \in 0 .. Scale
  <2> DEFINE a == x * Boost
             b == Scale * Scale
             p == a \div Scale
             c == Scale * p
  <2>1. a \in Nat /\ b \in Nat
    BY <1>1
  <2>2. CASE a < b
    <3> HIDE DEF a, b
    <3>1. p \in Int /\ c <= a /\ a < c + Scale
      BY <1>1, <2>1, Quotient
    <3> HIDE DEF p
    <3>2. c \in Int
      BY <1>1, <3>1
    <3> HIDE DEF c
    <3>3. c < b + Scale /\ 0 < c + Scale
      BY <1>1, <2>1, <2>2, <3>1, <3>2
    <3>4. p <= Scale
      BY <1>1, <3>1, <3>3, BelowMultiple DEF b, c
    <3>5. Scale * 0 < Scale * p + Scale
      <4>1. Scale * 0 = 0
        BY <1>1
      <4> QED
        BY <3>3, <4>1 DEF c
    <3>6. 0 <= p
      BY <1>1, <3>1, <3>5, BelowMultiple
    <3> QED
      BY <1>1, <2>2, <3>1, <3>4, <3>6 DEF a, b, p
  <2>3. CASE ~(a < b)
    BY <1>1, <2>3
  <2> QED
    BY <2>2, <2>3
<1>3. \A i \in DOMAIN results : results[i].score \in Nat /\ results[i].score <= Scale
  BY ScoresOf
<1> HIDE DEF Raised
<1>4. \A i \in DOMAIN results : score[i] \in 0 .. Scale
  BY <1>1, <1>2, <1>3
<1>5. score \in [DOMAIN results -> Int]
  BY <1>1, <1>4
<1>6. Hybrid(results) = ByScore(boosted)
  <2>1. ASSUME NEW i \in DOMAIN results
        PROVE  [results[i] EXCEPT !.score =
                  IF results[i].id \notin Keyworded THEN @
                  ELSE IF @ * Boost < Scale * Scale THEN (@ * Boost) \div Scale ELSE Scale]
               = [results[i] EXCEPT !.score = score[i]]
    BY DEF Raised
  <2>2. boosted = [i \in DOMAIN results |-> [results[i] EXCEPT !.score =
                  IF results[i].id \notin Keyworded THEN @
                  ELSE IF @ * Boost < Scale * Scale THEN (@ * Boost) \div Scale ELSE Scale]]
    BY <2>1
  <2> QED
    BY <2>2 DEF Hybrid
<1> HIDE DEF score, boosted
<1>7. /\ Distinct(boosted) /\ DOMAIN boosted = DOMAIN results
      /\ \A i \in DOMAIN results : boosted[i].score = score[i]
  BY <1>5, Rescored DEF boosted, Rated
<1>8. Rated(boosted)
  BY <1>4, <1>7 DEF Rated
<1> QED
  BY <1>6, <1>7, <1>8, ByScoreRanks

\* searchWithReranking mixes a score from 0 to 1 and any number.
LEMMA RerankedIsSorted ==
    ASSUME NEW results, Rated(results), NEW custom \in Rerankings
    PROVE  SortedResults(Reranked(results, custom))
<1> DEFINE score == [i \in DOMAIN results |->
               (6 * results[i].score + 4 * custom[results[i].id]) \div 10]
           mixed == [i \in DOMAIN results |-> [results[i] EXCEPT !.score = score[i]]]
<1>1. custom \in [Documents -> Int] /\ TopK \in Nat
  BY RetrievalAssumption
<1>2. ASSUME NEW i \in DOMAIN results
      PROVE  results[i].score \in Nat /\ results[i].id \in Documents
  <2>1. results[i] \in Results
    BY PlacesOf DEF Rated, Distinct
  <2> QED
    BY <2>1, ScoresOf DEF Results
<1>3. \A i \in DOMAIN results : custom[results[i].id] \in Int
  BY <1>1, <1>2
<1>4. score \in [DOMAIN results -> Int]
  BY <1>2, <1>3
<1>5. Reranked(results, custom) = First(ByScore(mixed), TopK)
  <2>1. mixed = [i \in DOMAIN results |-> [results[i] EXCEPT !.score =
            (6 * @ + 4 * custom[results[i].id]) \div 10]]
    OBVIOUS
  <2> QED
    BY <2>1 DEF Reranked
<1> HIDE DEF score, mixed
<1>6. Distinct(mixed)
  BY <1>4, Rescored DEF mixed, Rated
<1>7. SortedResults(ByScore(mixed))
  BY <1>6, ByScoreRanks DEF SortedResults
<1> QED
  BY <1>1, <1>5, <1>7, FirstAreRanked

\* The largest of some numbers.
LEMMA LargestNumber ==
    ASSUME NEW S \in SUBSET Int, IsFiniteSet(S), S # {}
    PROVE  \E m \in S : \A t \in S : t <= m
<1> DEFINE key == [x \in S |-> -x]
           order == InOrder(key)
           n == Cardinality(S)
<1>1. n \in Nat /\ n # 0
  BY FS_CardinalityType, FS_EmptySet
<1>2. key \in [S -> Int] /\ \A x \in S : key[x] = -x
  OBVIOUS
<1> HIDE DEF key
<1>3. /\ order \in [1 .. n -> S] /\ \A i \in S : \E k \in 1 .. n : order[k] = i
      /\ \A k, l \in 1 .. n : k < l => NotAfter(key, order[k], order[l])
  BY <1>2, OrderIsSorted
<1> HIDE DEF order, n
<1>4. 1 \in 1 .. n /\ order[1] \in S
  BY <1>1, <1>3
<1>5. ASSUME NEW t \in S PROVE t <= order[1]
  <2>1. PICK k \in 1 .. n : order[k] = t
    BY <1>3
  <2>2. CASE k = 1
    BY <1>4, <2>1, <2>2
  <2>3. CASE k # 1
    <3>1. 1 < k
      BY <2>3
    <3> DEFINE first == order[1]
    <3>2. NotAfter(key, first, t)
      BY <1>3, <1>4, <2>1, <3>1
    <3>3. key[first] = -first /\ key[t] = -t /\ first \in Int /\ t \in Int
      BY <1>2, <1>4
    <3> HIDE DEF first
    <3>4. t <= first
      BY <3>2, <3>3 DEF NotAfter
    <3> QED
      BY <3>4 DEF first
  <2> QED
    BY <2>2, <2>3
<1> QED
  BY <1>4, <1>5

\* multiQuerySearch keeps one result of each document, the best one.
LEMMA MergedIsRanked ==
    ASSUME NEW results, \A q \in DOMAIN results : RankedResults(results[q])
    PROVE  /\ RankedResults(Merged(results))
           /\ \A q \in DOMAIN results : \A r \in ToSet(results[q]) :
                \E i \in DOMAIN Merged(results) :
                    /\ Merged(results)[i].id = r.id /\ Merged(results)[i].score >= r.score
                    /\ \E p \in DOMAIN results : Merged(results)[i] \in ToSet(results[p])
<1> DEFINE all == UNION {ToSet(results[q]) : q \in DOMAIN results}
           best == {r \in all : \A s \in all : s.id = r.id => s.score <= r.score}
           merged == SetToSeq(best)
<1>1. ASSUME NEW r \in all PROVE r \in Results /\ r.score \in 0 .. Scale
  <2>1. PICK q \in DOMAIN results : r \in ToSet(results[q])
    OBVIOUS
  <2>2. PICK i \in DOMAIN results[q] : r = results[q][i]
    BY <2>1 DEF ToSet
  <2>3. Rated(results[q]) /\ results[q] \in Seq(Results)
    BY DEF RankedResults, Rated, Distinct
  <2>4. results[q][i] \in Results
    BY <2>3, PlacesOf
  <2> QED
    BY <2>2, <2>3, <2>4 DEF Rated
<1>2. best \subseteq all
  OBVIOUS
<1>3. ASSUME NEW r \in best, NEW s \in best, r.id = s.id PROVE r = s
  <2>1. r.score <= s.score /\ s.score <= r.score
    BY <1>3
  <2>2. r \in Results /\ s \in Results
    BY <1>1, <1>2
  <2>3. r.score = s.score
    BY <2>1, <2>2 DEF Results
  <2> QED
    BY <1>3, <2>2, <2>3 DEF Results
<1>4. best \in SUBSET Results
  BY <1>1, <1>2
<1>5. Merged(results) = ByScore(merged)
  BY DEF Merged
<1>6. ASSUME NEW r \in all PROVE \E m \in best : m.id = r.id /\ m.score >= r.score
  <2> DEFINE scores == {s.score : s \in {t \in all : t.id = r.id}}
  <2>1. scores \in SUBSET (0 .. Scale) /\ r.score \in scores
    BY <1>1
  <2>2. scores \in SUBSET Int /\ IsFiniteSet(scores) /\ scores # {}
    <3>1. Scale \in Int /\ 0 \in Int
      BY ContextAssumption
    <3>2. IsFiniteSet(0 .. Scale)
      BY <3>1, FS_Interval
    <3> HIDE DEF scores
    <3>3. IsFiniteSet(scores)
      BY <2>1, <3>2, FS_Subset
    <3>4. scores \in SUBSET Int /\ scores # {}
      BY <2>1
    <3> QED
      BY <3>3, <3>4
  <2>3. PICK top \in scores : \A t \in scores : t <= top
    <3> HIDE DEF scores
    <3> QED
      BY <2>2, LargestNumber
  <2>4. PICK m \in all : m.id = r.id /\ m.score = top
    BY <2>3
  <2>5. \A s \in all : s.id = m.id => s.score <= m.score
    BY <2>3, <2>4
  <2>6. r.score <= m.score
    BY <2>4, <2>5
  <2>7. r.score \in Int /\ m.score \in Int
    BY <1>1 DEF Results
  <2> QED
    BY <2>4, <2>5, <2>6, <2>7
<1>7. ASSUME NEW r \in all PROVE \E p \in DOMAIN results : r \in ToSet(results[p])
  OBVIOUS
<1>8. ASSUME NEW q \in DOMAIN results, NEW r \in ToSet(results[q]) PROVE r \in all
  OBVIOUS
<1> HIDE DEF best, all
<1>9. /\ Distinct(merged) /\ \A i \in DOMAIN merged : merged[i] \in best
      /\ \A r \in best : \E i \in DOMAIN merged : merged[i] = r
  BY <1>3, <1>4, EachResultOnce
<1> HIDE DEF merged
<1>10. Rated(merged)
  BY <1>1, <1>2, <1>9 DEF Rated
<1>11. /\ RankedResults(ByScore(merged)) /\ DOMAIN ByScore(merged) = DOMAIN merged
       /\ \A i \in DOMAIN merged : \E k \in DOMAIN merged : ByScore(merged)[k] = merged[i]
  BY <1>9, <1>10, ByScoreRanks
<1>12. ASSUME NEW q \in DOMAIN results, NEW r \in ToSet(results[q])
       PROVE  \E i \in DOMAIN Merged(results) :
                    /\ Merged(results)[i].id = r.id /\ Merged(results)[i].score >= r.score
                    /\ \E p \in DOMAIN results : Merged(results)[i] \in ToSet(results[p])
  <2>1. PICK m \in best : m.id = r.id /\ m.score >= r.score
    BY <1>6, <1>8
  <2>2. PICK i \in DOMAIN merged : merged[i] = m
    BY <1>9
  <2>3. PICK k \in DOMAIN merged : ByScore(merged)[k] = m
    BY <1>11, <2>2
  <2>4. \E p \in DOMAIN results : m \in ToSet(results[p])
    BY <1>2, <1>7
  <2> QED
    BY <1>5, <1>11, <2>1, <2>3, <2>4
<1> QED
  BY <1>5, <1>11, <1>12

LEMMA SimilarIsRanked ==
    ASSUME NEW results, RankedResults(results), NEW original
    PROVE  RankedResults(Similar(results, original))
<1> DEFINE places == {i \in DOMAIN results : results[i].id # original}
<1>1. Distinct(results) /\ places \in SUBSET (DOMAIN results)
  BY DEF RankedResults, Rated
<1>2. Similar(results, original) = First(Filtered(results, places), TopK)
  BY DEF Similar
<1> HIDE DEF places
<1>3. RankedResults(Filtered(results, places))
  BY <1>1, FilteredIsPart
<1> QED
  BY <1>2, <1>3, RetrievalAssumption, FirstAreRanked

\* What a search has: nothing yet, or a ranked answer.
Answerable(results) == results = NoResults \/ RankedResults(results)
SearchIsRight(s) ==
    /\ {"topK", "threshold", "asked", "results"} \subseteq DOMAIN s
    /\ s.topK \in {TopK, TopK + 1, 3 * TopK} /\ s.threshold \in Thresholds
    /\ DOMAIN s.asked = DOMAIN s.results /\ DOMAIN s.results # {}
    /\ \A q \in DOMAIN s.results :
            q \in Queries /\ Answerable(s.asked[q]) /\ Answerable(s.results[q])

\* AnswersAreRanked, of any results and the search they answer.
HasTheBest(f, a) ==
    \A q \in DOMAIN a.results : \A r \in ToSet(a.results[q]) :
        \E i \in DOMAIN f : /\ f[i].id = r.id /\ f[i].score >= r.score
                            /\ \E p \in DOMAIN a.results : f[i] \in ToSet(a.results[p])
RankedAnswer(f, a) ==
    /\ \A i, j \in DOMAIN f : i < j => f[i].score >= f[j].score /\ f[i].id # f[j].id
    /\ a.kind # "reranked" => \A i \in DOMAIN f : f[i].score \in 0 .. Scale
    /\ a.kind = "multi" => HasTheBest(f, a)

\* The cache, the searches under way and the answer have ranked results.
RetrievalInv ==
    /\ relevance \in [Queries -> [Documents -> Int]] /\ index \subseteq Documents
    /\ DOMAIN searchCache = CacheKeysOf /\ \A key \in CacheKeysOf : Answerable(searchCache[key])
    /\ search = NoSearch \/ SearchIsRight(search)
    /\ SortedResults(found) /\ RankedAnswer(found, answered)

LEMMA FreshIsRanked ==
    ASSUME RetrievalInv, NEW q \in Queries, NEW k \in Nat, NEW t
    PROVE  RankedResults(Fresh(q, k, t))
  BY NearestFirst, NormalizedAreRanked DEF RetrievalInv, Fresh

\* Sorted results are an answer when their scores are, or may be others, and none
\* is missing.
LEMMA AnswerIsRanked ==
    ASSUME NEW f, NEW a, SortedResults(f), a.kind # "reranked" => Rated(f),
           a.kind = "multi" => HasTheBest(f, a)
    PROVE  RankedAnswer(f, a)
<1>1. DOMAIN f \subseteq Int
  BY PlacesOf DEF SortedResults, Distinct
<1>2. ASSUME NEW i \in DOMAIN f, NEW j \in DOMAIN f, i < j
      PROVE  f[i].score >= f[j].score /\ f[i].id # f[j].id
  <2>1. i # j
    BY <1>1, <1>2
  <2> QED
    BY <1>2, <2>1 DEF SortedResults, Distinct, BestFirst
<1> QED
  BY <1>2 DEF RankedAnswer, Rated

\* Nothing is an answer to no search.
LEMMA NothingIsRanked == SortedResults(<< >>) /\ RankedAnswer(<< >>, NoSearch)
  BY DEF SortedResults, Distinct, BestFirst, NoSearch, RankedAnswer

LEMMA RetrievalStarts == RetrievalInit => RetrievalInv
<1> SUFFICES ASSUME RetrievalInit PROVE RetrievalInv
  OBVIOUS
<1>1. SortedResults(found) /\ RankedAnswer(found, answered)
  BY NothingIsRanked DEF RetrievalInit
<1> QED
  BY <1>1, RetrievalAssumption DEF RetrievalInit, RetrievalInv, Answerable

\* An answer arrives for one of the queries.
LEMMA AnswerArrives ==
    ASSUME search # NoSearch, SearchIsRight(search), NEW q \in DOMAIN search.results,
           NEW answer, RankedResults(answer),
           \/ search' = [search EXCEPT !.results[q] = answer]
           \/ search' = [search EXCEPT !.asked[q] = answer]
    PROVE  SearchIsRight(search')
<1>1. ASSUME search' = [search EXCEPT !.results[q] = answer] PROVE SearchIsRight(search')
  <2>1. /\ DOMAIN search' = DOMAIN search /\ search'.topK = search.topK
        /\ search'.threshold = search.threshold
        /\ search'.asked = search.asked
        /\ search'.results = [search.results EXCEPT ![q] = answer]
    BY <1>1 DEF SearchIsRight
  <2>2. DOMAIN search'.results = DOMAIN search.results
    BY <2>1
  <2>3. ASSUME NEW p \in DOMAIN search.results PROVE Answerable(search'.results[p])
    <3>1. search'.results[p] = IF p = q THEN answer ELSE search.results[p]
      BY <2>1
    <3> QED
      BY <3>1 DEF SearchIsRight, Answerable
  <2> QED
    BY <2>1, <2>2, <2>3 DEF SearchIsRight
<1>2. ASSUME search' = [search EXCEPT !.asked[q] = answer] PROVE SearchIsRight(search')
  <2>1. /\ DOMAIN search' = DOMAIN search /\ search'.topK = search.topK
        /\ search'.threshold = search.threshold
        /\ search'.results = search.results
        /\ search'.asked = [search.asked EXCEPT ![q] = answer]
    BY <1>2 DEF SearchIsRight
  <2>2. DOMAIN search'.asked = DOMAIN search.asked
    BY <2>1
  <2>3. ASSUME NEW p \in DOMAIN search.results PROVE Answerable(search'.asked[p])
    <3>1. search'.asked[p] = IF p = q THEN answer ELSE search.asked[p]
      BY <2>1 DEF SearchIsRight
    <3> QED
      BY <3>1 DEF SearchIsRight, Answerable
  <2> QED
    BY <2>1, <2>2, <2>3 DEF SearchIsRight
<1> QED
  BY <1>1, <1>2

LEMMA KeepingKeeps ==
    ASSUME RetrievalInv, NEW q \in Queries, KeepSearch(q) PROVE RetrievalInv'
<1> DEFINE results == search.asked[q]
           key == SearchCacheKey(q, search.topK, search.threshold)
<1>1. /\ search # NoSearch /\ SearchIsRight(search) /\ q \in DOMAIN search.results
      /\ results # NoResults
  BY DEF KeepSearch, Searching, RetrievalInv
<1>2. RankedResults(results)
  BY <1>1 DEF SearchIsRight, Answerable
<1>3. /\ search' = [search EXCEPT !.results[q] = results]
      /\ UNCHANGED <<relevance, index, found, answered>>
  BY DEF KeepSearch
<1>4. SearchIsRight(search')
  BY <1>1, <1>2, <1>3, AnswerArrives
<1>5. RankedResults(First(results, MaxCached))
  BY <1>2, RetrievalAssumption, FirstAreRanked
<1>6. \/ searchCache' = [searchCache EXCEPT ![key] = First(results, MaxCached)]
      \/ UNCHANGED searchCache
  BY DEF KeepSearch
<1> HIDE DEF results, key
<1>7. /\ DOMAIN searchCache' = CacheKeysOf
      /\ \A k \in CacheKeysOf : Answerable(searchCache'[k])
  <2>1. CASE UNCHANGED searchCache
    BY <2>1 DEF RetrievalInv
  <2>2. CASE searchCache' = [searchCache EXCEPT ![key] = First(results, MaxCached)]
    <3>1. DOMAIN searchCache' = CacheKeysOf
      BY <2>2 DEF RetrievalInv
    <3>2. ASSUME NEW k \in CacheKeysOf PROVE Answerable(searchCache'[k])
      <4>1. searchCache'[k] = IF k = key THEN First(results, MaxCached) ELSE searchCache[k]
        BY <2>2 DEF RetrievalInv
      <4> QED
        BY <1>5, <4>1 DEF RetrievalInv, Answerable
    <3> QED
      BY <3>1, <3>2
  <2> QED
    BY <1>6, <2>1, <2>2
<1> QED
  BY <1>3, <1>4, <1>7 DEF RetrievalInv, CacheKeysOf

LEMMA AnsweringKeeps == ASSUME RetrievalInv, AnswerSearch PROVE RetrievalInv'
<1> DEFINE asked == DOMAIN search.results
           only == search.results[CHOOSE q \in asked : TRUE]
<1>1. SearchIsRight(search) /\ \A q \in asked : RankedResults(search.results[q])
  BY DEF AnswerSearch, RetrievalInv, SearchIsRight, Answerable
<1>2. RankedResults(only)
  <2>1. asked # {}
    BY <1>1 DEF SearchIsRight
  <2> HIDE DEF asked
  <2>2. (CHOOSE q \in asked : TRUE) \in asked
    BY <2>1
  <2> QED
    BY <1>1, <2>2
<1>3. \/ search.kind \notin {"reranked", "multi"} /\ found' = only
      \/ search.kind \notin {"reranked", "multi"} /\ found' = Hybrid(only)
      \/ search.kind \notin {"reranked", "multi"} /\ found' = Similar(only, search.original)
      \/ search.kind = "reranked" /\ \E custom \in Rerankings : found' = Reranked(only, custom)
      \/ search.kind = "multi" /\ found' = Merged(search.results)
  BY DEF AnswerSearch
<1> HIDE DEF only
<1>4. search' = NoSearch /\ answered' = search /\ UNCHANGED <<relevance, index, searchCache>>
  BY DEF AnswerSearch
<1>5. CASE search.kind \notin {"reranked", "multi"}
  <2>1. RankedResults(found')
    BY <1>2, <1>3, <1>5, HybridIsRanked, SimilarIsRanked DEF RankedResults
  <2>2. SortedResults(found') /\ Rated(found')
    BY <2>1 DEF RankedResults, SortedResults, Rated
  <2> QED
    BY <1>4, <1>5, <2>2, AnswerIsRanked DEF RetrievalInv, CacheKeysOf
<1>6. CASE search.kind = "reranked"
  <2>1. SortedResults(found')
    BY <1>2, <1>3, <1>6, RerankedIsSorted DEF RankedResults
  <2> QED
    BY <1>4, <1>6, <2>1, AnswerIsRanked DEF RetrievalInv, CacheKeysOf
<1>7. CASE search.kind = "multi"
  <2>1. RankedResults(found') /\ HasTheBest(found', answered')
    <3>1. found' = Merged(search.results) /\ answered' = search
      BY <1>3, <1>4, <1>7
    <3>2. RankedResults(Merged(search.results)) /\ HasTheBest(Merged(search.results), search)
      BY <1>1, MergedIsRanked DEF HasTheBest
    <3> QED
      BY <3>1, <3>2
  <2>2. SortedResults(found') /\ Rated(found')
    BY <2>1 DEF RankedResults, SortedResults, Rated
  <2> QED
    BY <1>4, <1>7, <2>1, <2>2, AnswerIsRanked DEF RetrievalInv, CacheKeysOf
<1> QED
  BY <1>5, <1>6, <1>7

LEMMA RetrievalStepKeeps == RetrievalInv /\ [RetrievalNext]_retrievalVars => RetrievalInv'
<1> SUFFICES ASSUME RetrievalInv, [RetrievalNext]_retrievalVars PROVE RetrievalInv'
  OBVIOUS
<1>1. ASSUME NEW kind, NEW queries \in (SUBSET Queries) \ {{}}, NEW d, StartSearch(kind, queries, d)
      PROVE  RetrievalInv'
  <2>1. /\ DOMAIN search' = {"kind", "original", "topK", "threshold", "asked", "results"}
        /\ search'.topK \in {TopK, TopK + 1, 3 * TopK} /\ search'.threshold \in Thresholds
        /\ search'.asked = [q \in queries |-> NoResults]
        /\ search'.results = [q \in queries |-> NoResults]
    BY <1>1 DEF StartSearch, Asks
  <2>2. SearchIsRight(search')
    <3>1. queries \subseteq Queries /\ queries # {}
      OBVIOUS
    <3>2. DOMAIN search'.asked = queries /\ DOMAIN search'.results = queries
      BY <2>1
    <3>3. \A q \in queries : search'.asked[q] = NoResults /\ search'.results[q] = NoResults
      BY <2>1
    <3>4. {"topK", "threshold", "asked", "results"} \subseteq DOMAIN search'
      BY <2>1
    <3> QED
      BY <2>1, <3>1, <3>2, <3>3, <3>4 DEF SearchIsRight, Answerable
  <2>3. found' = << >> /\ answered' = NoSearch /\ UNCHANGED <<relevance, index, searchCache>>
    BY <1>1 DEF StartSearch
  <2> QED
    BY <2>2, <2>3, NothingIsRanked DEF RetrievalInv, CacheKeysOf
<1>2. ASSUME NEW q \in Queries, SearchCached(q) PROVE RetrievalInv'
  <2> DEFINE key == SearchCacheKey(q, search.topK, search.threshold)
  <2>1. search # NoSearch /\ SearchIsRight(search) /\ q \in DOMAIN search.results
    BY <1>2 DEF SearchCached, Searching, RetrievalInv
  <2>2. /\ searchCache[key] # NoResults
        /\ search' = [search EXCEPT !.results[q] = searchCache[key]]
    BY <1>2 DEF SearchCached
  <2>3. UNCHANGED <<relevance, index, searchCache, found, answered>>
    BY <1>2 DEF SearchCached
  <2>4. RankedResults(searchCache[key])
    <3>1. key \in CacheKeysOf
      BY <2>1 DEF SearchCacheKey, CacheKeysOf, SearchIsRight
    <3> QED
      BY <2>2, <3>1 DEF RetrievalInv, Answerable
  <2>5. SearchIsRight(search')
    BY <2>1, <2>2, <2>4, AnswerArrives
  <2> QED
    BY <2>3, <2>5 DEF RetrievalInv, CacheKeysOf
<1>3. ASSUME NEW q \in Queries, SearchIndex(q) PROVE RetrievalInv'
  <2>1. search # NoSearch /\ SearchIsRight(search) /\ q \in DOMAIN search.results
    BY <1>3 DEF SearchIndex, Searching, RetrievalInv
  <2>2. /\ search' = [search EXCEPT !.asked[q] = Fresh(q, search.topK, search.threshold)]
        /\ UNCHANGED <<relevance, index, searchCache, found, answered>>
    BY <1>3 DEF SearchIndex
  <2>3. RankedResults(Fresh(q, search.topK, search.threshold))
    <3>1. search.topK \in Nat
      BY <2>1, RetrievalAssumption DEF SearchIsRight
    <3> QED
      BY <3>1, FreshIsRanked
  <2>4. SearchIsRight(search')
    BY <2>1, <2>2, <2>3, AnswerArrives
  <2> QED
    BY <2>2, <2>4 DEF RetrievalInv, CacheKeysOf
<1>4. ASSUME NEW q \in Queries, KeepSearch(q) PROVE RetrievalInv'
  BY <1>4, KeepingKeeps
<1>5. CASE AnswerSearch
  BY <1>5, AnsweringKeeps
<1>6. CASE SearchFails
  BY <1>6 DEF SearchFails, RetrievalInv, CacheKeysOf
<1>7. ASSUME NEW d \in Documents, ChangeIndex(d) PROVE RetrievalInv'
  BY <1>7 DEF ChangeIndex, RetrievalInv, CacheKeysOf
<1>8. ASSUME NEW key \in CacheKeysOf, ExpireSearch(key) PROVE RetrievalInv'
  BY <1>8 DEF ExpireSearch, RetrievalInv, CacheKeysOf, Answerable
<1>9. CASE UNCHANGED retrievalVars
  BY <1>9 DEF retrievalVars, RetrievalInv, CacheKeysOf
<1> QED
  BY <1>1, <1>2, <1>3, <1>4, <1>5, <1>6, <1>7, <1>8, <1>9 DEF RetrievalNext

-----------------------------------------------------------------------------
(* The context made of the results.                                        *)

LEMMA SimilarityIsANumber ==
    ASSUME NEW d \in Documents, NEW e \in Documents
    PROVE  Similarity(d, e) \in Int /\ Similarity(d, e) = Similarity(e, d)
<1> DEFINE all == WordsOf[d] \cup WordsOf[e]
           both == WordsOf[d] \cap WordsOf[e]
<1>1. IsFiniteSet(all) /\ IsFiniteSet(both)
  <2>1. IsFiniteSet(WordsOf[d]) /\ IsFiniteSet(WordsOf[e])
    BY ContextAssumption
  <2> QED
    BY <2>1, FS_Union, FS_Intersection
<1>2. all = WordsOf[e] \cup WordsOf[d] /\ both = WordsOf[e] \cap WordsOf[d]
  OBVIOUS
<1>3. /\ Similarity(d, e) = IF all = {} THEN 0 ELSE (Scale * Cardinality(both)) \div Cardinality(all)
      /\ Similarity(e, d) = IF all = {} THEN 0 ELSE (Scale * Cardinality(both)) \div Cardinality(all)
  BY <1>2 DEF Similarity
<1> HIDE DEF all, both
<1>4. CASE all = {}
  BY <1>3, <1>4
<1>5. CASE all # {}
  <2>1. Cardinality(both) \in Nat /\ Cardinality(all) \in Nat /\ Cardinality(all) # 0
    BY <1>1, <1>5, FS_CardinalityType, FS_EmptySet
  <2> DEFINE n == Scale * Cardinality(both)
             m == Cardinality(all)
  <2>2. n \in Nat /\ m \in Nat \ {0}
    BY <2>1, ContextAssumption
  <2> HIDE DEF n, m
  <2>3. n \div m \in Int
    BY <2>2, Quotient
  <2> QED
    BY <1>3, <1>5, <2>3 DEF n, m
<1> QED
  BY <1>4, <1>5

LEMMA EntriesOf ==
    ASSUME NEW results, Distinct(results)
    PROVE  /\ results \in Seq(Results) /\ Len(results) \in Nat /\ DOMAIN results = 1 .. Len(results)
           /\ DOMAIN results \subseteq Int
           /\ \A i \in DOMAIN results : results[i].id \in Documents /\ results[i].score \in Int
<1>1. \A i \in DOMAIN results : results[i] \in Results
  BY PlacesOf DEF Distinct
<1> QED
  BY <1>1, PlacesOf DEF Distinct, Results

\* Some results stay, each for the reasons the code has: for every list there is
\* exactly such a choice, made from the first to the last.
LEMMA StayingExists ==
    ASSUME NEW results, Len(results) \in Nat, DOMAIN results = 1 .. Len(results)
    PROVE  \E kept \in SUBSET (DOMAIN results) :
                kept = {i \in DOMAIN results : Stays(kept, results, i)}
<1> DEFINE Choice(kept, n) == /\ kept \in SUBSET (1 .. n)
                              /\ \A i \in 1 .. n : i \in kept <=> Stays(kept, results, i)
           G == {n \in Nat : \E kept : Choice(kept, n)}
<1>1. 0 \in G
  <2>1. Choice({}, 0)
    OBVIOUS
  <2> HIDE DEF Choice
  <2> QED
    BY <2>1
<1>2. ASSUME NEW n \in Nat, n \in G PROVE n + 1 \in G
  <2>1. PICK kept : Choice(kept, n)
    BY <1>2
  <2> DEFINE more == IF Stays(kept, results, n + 1) THEN kept \cup {n + 1} ELSE kept
  <2>2. more \in SUBSET (1 .. n + 1) /\ kept \subseteq more /\ more \subseteq kept \cup {n + 1}
    BY <2>1
  <2>3. ASSUME NEW i \in 1 .. n + 1 PROVE Stays(more, results, i) <=> Stays(kept, results, i)
    <3>1. ~(n + 1 < i)
      OBVIOUS
    <3> HIDE DEF more
    <3> QED
      BY <2>2, <3>1 DEF Stays
  <2>4. ASSUME NEW i \in 1 .. n + 1 PROVE i \in more <=> Stays(kept, results, i)
    <3>1. CASE i = n + 1
      <4>1. i \notin kept
        BY <2>1, <3>1
      <4> QED
        BY <3>1, <4>1
    <3>2. CASE i # n + 1
      <4>1. i \in 1 .. n
        BY <3>2
      <4>2. i \in more <=> i \in kept
        BY <3>2
      <4> QED
        BY <2>1, <4>1, <4>2
    <3> QED
      BY <3>1, <3>2
  <2> HIDE DEF more
  <2>5. Choice(more, n + 1)
    BY <2>2, <2>3, <2>4
  <2> HIDE DEF Choice
  <2> QED
    BY <2>5
<1>3. Nat \subseteq G
  <2> HIDE DEF G
  <2> QED
    BY <1>1, <1>2, Counting
<1>4. PICK kept : Choice(kept, Len(results))
  BY <1>3
<1>5. kept = {i \in DOMAIN results : Stays(kept, results, i)}
  BY <1>4
<1> QED
  BY <1>4, <1>5

\* Of the results none is like another that stayed, and whatever did not stay is
\* like one before it.
LEMMA NoneAlike ==
    ASSUME NEW results, SortedResults(results)
    PROVE  LET unique == DeduplicateResults(results)
           IN  /\ SortedResults(unique)
               /\ \A k \in DOMAIN unique : \E i \in DOMAIN results : unique[k] = results[i]
               /\ \A k, l \in DOMAIN unique : k # l =>
                    Similarity(unique[k].id, unique[l].id) < Duplicate
               /\ \A i \in DOMAIN results :
                    \/ \E k \in DOMAIN unique : unique[k] = results[i]
                    \/ \E j \in DOMAIN results :
                            j < i /\ Similarity(results[i].id, results[j].id) >= Duplicate
<1> DEFINE Fits(kept) == kept = {i \in DOMAIN results : Stays(kept, results, i)}
           kept == CHOOSE kept \in SUBSET DOMAIN results : Fits(kept)
           order == Ascending(kept)
           unique == DeduplicateResults(results)
<1>1. Distinct(results)
  BY DEF SortedResults
<1>2. kept \in SUBSET (DOMAIN results) /\ \A i \in DOMAIN results : i \in kept <=> Stays(kept, results, i)
  <2>1. \E chosen \in SUBSET (DOMAIN results) : Fits(chosen)
    BY <1>1, EntriesOf, StayingExists
  <2>2. kept \in SUBSET (DOMAIN results) /\ Fits(kept)
    BY <2>1
  <2> QED
    BY <2>2
<1>3. unique = Filtered(results, kept)
  BY DEF DeduplicateResults
<1> HIDE DEF unique, kept, order
<1>4. /\ SortedResults(unique) /\ order \in [DOMAIN unique -> kept]
      /\ \A k \in DOMAIN unique : unique[k] = results[order[k]]
      /\ \A i \in kept : \E k \in DOMAIN unique : order[k] = i
      /\ \A k, l \in DOMAIN unique : k < l => order[k] < order[l]
  BY <1>1, <1>2, <1>3, FilteredIsPart DEF order
<1>5. ASSUME NEW k \in DOMAIN unique, NEW l \in DOMAIN unique, k < l
      PROVE  ~(Similarity(unique[l].id, unique[k].id) >= Duplicate)
  <2>1. order[k] \in kept /\ order[l] \in kept /\ order[k] < order[l]
    BY <1>4, <1>5
  <2>2. Stays(kept, results, order[l])
    BY <1>2, <2>1
  <2>3. ~(Similarity(results[order[l]].id, results[order[k]].id) >= Duplicate)
    BY <2>1, <2>2 DEF Stays, Alike
  <2> QED
    BY <1>4, <2>3
<1>6. /\ DOMAIN unique \subseteq Int
      /\ \A k \in DOMAIN unique : unique[k].id \in Documents
  BY <1>4, EntriesOf DEF SortedResults
<1>7. ASSUME NEW k \in DOMAIN unique, NEW l \in DOMAIN unique, k # l
      PROVE  Similarity(unique[k].id, unique[l].id) < Duplicate
  <2>1. k < l \/ l < k
    BY <1>6, <1>7
  <2>2. /\ Similarity(unique[k].id, unique[l].id) \in Int
        /\ Similarity(unique[k].id, unique[l].id) = Similarity(unique[l].id, unique[k].id)
    BY <1>6, SimilarityIsANumber
  <2> QED
    BY <1>5, <2>1, <2>2, ContextAssumption
<1>8. ASSUME NEW i \in DOMAIN results, i \notin kept
      PROVE  \E j \in DOMAIN results : j < i /\ Similarity(results[i].id, results[j].id) >= Duplicate
  <2>1. PICK j \in kept : j < i /\ Alike(results[i], results[j])
    BY <1>2, <1>8 DEF Stays
  <2>2. j \in DOMAIN results /\ j # i
    BY <1>1, <1>2, <2>1, EntriesOf
  <2>3. results[i].id # results[j].id
    BY <1>1, <2>2 DEF Distinct
  <2> QED
    BY <2>1, <2>2, <2>3 DEF Alike
<1> QED
  BY <1>2, <1>4, <1>7, <1>8 DEF unique

\* What a result is worth after some chosen ones is a number, and before there are
\* any its score only.
LEMMA MarginalIsANumber ==
    ASSUME NEW r \in Results, NEW chosen \in SUBSET Documents
    PROVE  /\ Marginal(r, chosen) \in Int
           /\ chosen = {} => Marginal(r, chosen) = (Scale - Diversity) * r.score
<1> DEFINE d == r.id
           all == {Similarity(d, e) : e \in chosen} \cup {0}
           f == [e \in chosen |-> Similarity(d, e)]
           of == {Similarity(d, e) : e \in chosen}
           likeness == Likeness(d, chosen)
<1>1. d \in Documents /\ r.score \in Int
  BY DEF Results
<1>2. IsFiniteSet(all)
  <2>1. IsFiniteSet(chosen)
    BY ContextAssumption, FS_Subset
  <2>2. f \in Surjection(chosen, of)
    BY DEF Surjection
  <2> HIDE DEF f
  <2>3. IsFiniteSet(of)
    BY <2>1, <2>2, FS_Surjection
  <2> HIDE DEF of
  <2>4. IsFiniteSet(of \cup {0})
    BY <2>3, FS_AddElement
  <2> QED
    BY <2>4 DEF of
<1>3. all \in SUBSET Int /\ all # {}
  BY <1>1, SimilarityIsANumber
<1>4. likeness = CHOOSE s \in all : \A t \in all : t <= s
  BY DEF Likeness
<1> HIDE DEF likeness, d
<1>5. likeness \in Int /\ likeness \in all
  <2> HIDE DEF all
  <2>1. \E s \in all : \A t \in all : t <= s
    BY <1>2, <1>3, LargestNumber
  <2> QED
    BY <1>3, <1>4, <2>1
<1>6. chosen = {} => likeness = 0
  BY <1>5
<1>7. Marginal(r, chosen) = (Scale - Diversity) * r.score - Diversity * likeness
  BY DEF Marginal, likeness, d
<1> DEFINE a == (Scale - Diversity) * r.score
           b == Diversity * likeness
<1>8. a \in Int /\ b \in Int /\ (likeness = 0 => b = 0)
  BY <1>1, <1>5, ContextAssumption
<1> HIDE DEF a, b
<1>9. a - b \in Int /\ (b = 0 => a - b = a)
  BY <1>8
<1> QED
  BY <1>6, <1>7, <1>8, <1>9 DEF a, b

\* While some result is left, one of them is next.
LEMMA SomeIsNext ==
    ASSUME NEW sorted, Distinct(sorted), NEW chosen \in SUBSET (DOMAIN sorted),
           chosen # DOMAIN sorted
    PROVE  \E i \in DOMAIN sorted \ chosen : MostRelevant(sorted, chosen, i)
<1> DEFINE left == DOMAIN sorted \ chosen
           ids == {sorted[k].id : k \in chosen}
           worth == [j \in left |-> Marginal(sorted[j], ids)]
           key == [j \in left |-> -worth[j]]
           order == InOrder(key)
           n == Cardinality(left)
<1>1. /\ \A j \in DOMAIN sorted : sorted[j] \in Results
      /\ DOMAIN sorted \in SUBSET Int /\ IsFiniteSet(DOMAIN sorted)
  BY PlacesOf DEF Distinct
<1>2. ids \in SUBSET Documents
  BY <1>1 DEF Results
<1>3. left \in SUBSET Int /\ IsFiniteSet(left) /\ left # {} /\ left \subseteq DOMAIN sorted
  BY <1>1, FS_Subset
<1> HIDE DEF left, ids
<1>4. \A j \in left : worth[j] \in Int
  BY <1>1, <1>2, <1>3, MarginalIsANumber
<1>5. \A i : MostRelevant(sorted, chosen, i) <=>
          /\ i \in left
          /\ \A j \in left : worth[j] < worth[i] \/ (worth[j] = worth[i] /\ i <= j)
  BY DEF MostRelevant, left, ids
<1> HIDE DEF worth
<1>6. key \in [left -> Int] /\ \A j \in left : key[j] = -worth[j]
  BY <1>4
<1> HIDE DEF key
<1>7. n \in Nat /\ n # 0
  BY <1>3, FS_CardinalityType, FS_EmptySet
<1>8. /\ order \in [1 .. n -> left] /\ \A j \in left : \E k \in 1 .. n : order[k] = j
      /\ \A k, l \in 1 .. n : k < l => NotAfter(key, order[k], order[l])
  BY <1>3, <1>6, OrderIsSorted
<1> HIDE DEF order, n
<1> DEFINE i == order[1]
<1>9. 1 \in 1 .. n /\ i \in left
  BY <1>7, <1>8
<1>10. ASSUME NEW j \in left PROVE worth[j] < worth[i] \/ (worth[j] = worth[i] /\ i <= j)
  <2>1. PICK k \in 1 .. n : order[k] = j
    BY <1>8
  <2>2. CASE k = 1
    <3>1. i = j /\ i \in Int
      BY <1>3, <1>9, <2>1, <2>2
    <3> HIDE DEF i
    <3> QED
      BY <3>1
  <2>3. CASE k # 1
    <3>1. 1 < k
      BY <2>3
    <3>2. NotAfter(key, i, j)
      BY <1>8, <1>9, <2>1, <3>1
    <3>3. key[i] = -worth[i] /\ key[j] = -worth[j] /\ worth[i] \in Int /\ worth[j] \in Int
      BY <1>4, <1>6, <1>9
    <3> HIDE DEF i
    <3> QED
      BY <3>2, <3>3 DEF NotAfter
  <2> QED
    BY <2>2, <2>3
<1> QED
  BY <1>5, <1>9, <1>10 DEF left

\* An order of the results in which each is next after those before it.
IsRanking(sorted, o, n) ==
    /\ o \in [1 .. n -> DOMAIN sorted]
    /\ \A k \in 1 .. n : MostRelevant(sorted, {o[m] : m \in 1 .. k - 1}, o[k])

LEMMA RankingsAreOrders ==
    ASSUME NEW sorted, NEW n \in Nat, NEW o, IsRanking(sorted, o, n)
    PROVE  \A k, l \in 1 .. n : k # l => o[k] # o[l]
<1>1. ASSUME NEW k \in 1 .. n, NEW l \in 1 .. n, k < l PROVE o[k] # o[l]
  <2>1. MostRelevant(sorted, {o[m] : m \in 1 .. l - 1}, o[l])
    BY DEF IsRanking
  <2>2. o[l] \notin {o[m] : m \in 1 .. l - 1}
    BY <2>1 DEF MostRelevant
  <2>3. k \in 1 .. l - 1
    BY <1>1
  <2> QED
    BY <2>2, <2>3
<1> SUFFICES ASSUME NEW k \in 1 .. n, NEW l \in 1 .. n, k # l PROVE o[k] # o[l]
  OBVIOUS
<1>2. k < l \/ l < k
  OBVIOUS
<1> QED
  BY <1>1, <1>2

\* A ranking can be continued until every result is in it.
LEMMA RankingGoesOn ==
    ASSUME NEW sorted, Distinct(sorted), NEW n \in Nat, n < Len(sorted),
           NEW o, IsRanking(sorted, o, n)
    PROVE  \E p : IsRanking(sorted, p, n + 1)
<1> DEFINE chosen == {o[m] : m \in 1 .. n}
           all == DOMAIN sorted
<1>1. Cardinality(all) = Len(sorted) /\ IsFiniteSet(all) /\ Len(sorted) \in Nat
  BY PlacesOf DEF Distinct
<1>2. o \in [1 .. n -> all] /\ chosen \in SUBSET all
  BY DEF IsRanking
<1>3. chosen # all
  <2>1. o \in Surjection(1 .. n, chosen)
    BY <1>2 DEF Surjection
  <2>2. IsFiniteSet(1 .. n) /\ Cardinality(1 .. n) = n
    <3>1. IsFiniteSet(1 .. n) /\ Cardinality(1 .. n) = IF 1 > n THEN 0 ELSE n - 1 + 1
      BY FS_Interval
    <3> QED
      BY <3>1
  <2> HIDE DEF chosen
  <2>3. Cardinality(chosen) <= n
    BY <2>1, <2>2, FS_Surjection
  <2> QED
    BY <1>1, <2>3
<1> HIDE DEF chosen
<1>4. PICK i \in all \ chosen : MostRelevant(sorted, chosen, i)
  BY <1>2, <1>3, SomeIsNext
<1> DEFINE p == [k \in 1 .. n + 1 |-> IF k = n + 1 THEN i ELSE o[k]]
<1>5. /\ p \in [1 .. n + 1 -> all] /\ p[n + 1] = i
      /\ \A k \in 1 .. n : p[k] = o[k]
  BY <1>2
<1> HIDE DEF p
<1>6. ASSUME NEW k \in 1 .. n + 1 PROVE {p[m] : m \in 1 .. k - 1} = {o[m] : m \in 1 .. k - 1}
  <2>1. \A m \in 1 .. k - 1 : m \in 1 .. n
    BY <1>6
  <2> QED
    BY <1>5, <2>1
<1>7. ASSUME NEW k \in 1 .. n + 1 PROVE MostRelevant(sorted, {p[m] : m \in 1 .. k - 1}, p[k])
  <2>1. CASE k = n + 1
    <3>1. {o[m] : m \in 1 .. k - 1} = chosen
      BY <2>1 DEF chosen
    <3> QED
      BY <1>4, <1>5, <1>6, <2>1, <3>1
  <2>2. CASE k # n + 1
    <3>1. k \in 1 .. n
      BY <2>2
    <3>2. MostRelevant(sorted, {o[m] : m \in 1 .. k - 1}, o[k]) /\ p[k] = o[k]
      BY <1>5, <3>1 DEF IsRanking
    <3>3. {p[m] : m \in 1 .. k - 1} = {o[m] : m \in 1 .. k - 1}
      BY <1>6
    <3> QED
      BY <3>2, <3>3
  <2> QED
    BY <2>1, <2>2
<1>8. IsRanking(sorted, p, n + 1)
  BY <1>5, <1>7 DEF IsRanking
<1> QED
  BY <1>8

LEMMA RankingExists ==
    ASSUME NEW sorted, Distinct(sorted) PROVE \E o : IsRanking(sorted, o, Len(sorted))
<1> DEFINE G == {n \in Nat : n <= Len(sorted) => \E o : IsRanking(sorted, o, n)}
<1>1. Len(sorted) \in Nat
  BY EntriesOf
<1>2. 0 \in G
  <2>1. IsRanking(sorted, << >>, 0)
    BY DEF IsRanking
  <2> QED
    BY <2>1
<1>3. ASSUME NEW n \in Nat, n \in G PROVE n + 1 \in G
  <2> SUFFICES ASSUME n + 1 <= Len(sorted) PROVE \E o : IsRanking(sorted, o, n + 1)
    OBVIOUS
  <2>1. n < Len(sorted) /\ n <= Len(sorted)
    BY <1>1
  <2>2. PICK o : IsRanking(sorted, o, n)
    BY <1>3, <2>1
  <2> QED
    BY <2>1, <2>2, RankingGoesOn
<1>4. Nat \subseteq G
  <2> HIDE DEF G
  <2> QED
    BY <1>2, <1>3, Counting
<1> QED
  BY <1>1, <1>4

\* The first of a ranking has the best score.
LEMMA BestIsFirst ==
    ASSUME NEW sorted, Distinct(sorted), BestFirst(sorted), NEW i \in DOMAIN sorted,
           MostRelevant(sorted, {}, i)
    PROVE  \A j \in DOMAIN sorted : sorted[j].score <= sorted[i].score
<1> DEFINE none == {sorted[k].id : k \in {}}
           w == Scale - Diversity
           worth == [j \in DOMAIN sorted \ {} |-> Marginal(sorted[j], none)]
<1>1. none = {} /\ w \in Nat
  BY ContextAssumption
<1>2. /\ \A j \in DOMAIN sorted : sorted[j] \in Results /\ sorted[j].score \in Int
      /\ DOMAIN sorted = 1 .. Len(sorted) /\ Len(sorted) \in Nat
  BY EntriesOf, PlacesOf DEF Distinct
<1>3. ASSUME NEW j \in DOMAIN sorted PROVE worth[j] = w * sorted[j].score
  <2>1. worth[j] = Marginal(sorted[j], none)
    OBVIOUS
  <2>2. Marginal(sorted[j], {}) = w * sorted[j].score
    BY <1>2, MarginalIsANumber
  <2> QED
    BY <1>1, <2>1, <2>2
<1>4. \A j \in DOMAIN sorted : worth[j] < worth[i] \/ (worth[j] = worth[i] /\ i <= j)
  BY DEF MostRelevant
<1> HIDE DEF worth, none, w
<1>5. i = 1
  <2> SUFFICES ASSUME i # 1 PROVE FALSE
    OBVIOUS
  <2>1. 1 \in DOMAIN sorted /\ 1 < i
    BY <1>2
  <2>2. worth[1] < worth[i]
    BY <1>2, <1>4, <2>1
  <2> DEFINE a == sorted[1].score
             b == sorted[i].score
  <2>3. a \in Int /\ b \in Int /\ b <= a
    BY <1>2, <2>1 DEF BestFirst
  <2>4. w * a < w * b
    BY <1>3, <2>1, <2>2
  <2> HIDE DEF a, b
  <2>5. w * (a - b) >= 0 /\ w * (a - b) = w * a - w * b /\ w * a \in Int /\ w * b \in Int
    BY <1>1, <2>3
  <2> QED
    BY <2>4, <2>5
<1>6. ASSUME NEW j \in DOMAIN sorted PROVE sorted[j].score <= sorted[i].score
  <2>1. j = 1 \/ 1 < j
    BY <1>2
  <2>2. sorted[j].score \in Int
    BY <1>2
  <2> QED
    BY <1>5, <2>1, <2>2 DEF BestFirst
<1> QED
  BY <1>6

\* Ranking with diversity keeps every result, and puts the best first.
LEMMA RankedByDiversity ==
    ASSUME NEW results, Distinct(results)
    PROVE  LET ranked == RankWithDiversity(results)
           IN  /\ Distinct(ranked)
               /\ \A k \in DOMAIN ranked : \E i \in DOMAIN results : ranked[k] = results[i]
               /\ \A i \in DOMAIN results : \E k \in DOMAIN ranked : ranked[k] = results[i]
               /\ \A k \in DOMAIN ranked : ranked[k].score <= ranked[1].score
<1> DEFINE sorted == ByScore(results)
           Fits(o) == \A k \in DOMAIN o : MostRelevant(sorted, {o[m] : m \in 1 .. k - 1}, o[k])
           order == CHOOSE o \in [DOMAIN sorted -> DOMAIN sorted] : Fits(o)
           ranked == RankWithDiversity(results)
           n == Len(sorted)
<1>1. /\ Distinct(sorted) /\ BestFirst(sorted) /\ DOMAIN sorted = DOMAIN results
      /\ \A i \in DOMAIN results : \E k \in DOMAIN results : sorted[k] = results[i]
      /\ \A k \in DOMAIN results : \E i \in DOMAIN results : sorted[k] = results[i]
  BY ByScoreRanks
<1>2. ranked = [k \in DOMAIN sorted |-> sorted[order[k]]]
  BY DEF RankWithDiversity
<1> HIDE DEF sorted
<1>3. n \in Nat /\ DOMAIN sorted = 1 .. n /\ sorted \in Seq(Results)
  BY <1>1, EntriesOf
<1>4. IsRanking(sorted, order, n) /\ order \in [1 .. n -> 1 .. n]
  <2>1. PICK o : IsRanking(sorted, o, n)
    BY <1>1, RankingExists
  <2>2. o \in [DOMAIN sorted -> DOMAIN sorted] /\ Fits(o)
    BY <1>3, <2>1 DEF IsRanking
  <2>3. order \in [DOMAIN sorted -> DOMAIN sorted] /\ Fits(order)
    BY <2>2
  <2> HIDE DEF order
  <2> QED
    BY <1>3, <2>3 DEF IsRanking
<1> HIDE DEF order, ranked, n
<1>5. \A k, l \in 1 .. n : k # l => order[k] # order[l]
  BY <1>3, <1>4, RankingsAreOrders
<1>6. \A i \in 1 .. n : \E k \in 1 .. n : order[k] = i
  <2>1. IsFiniteSet(1 .. n)
    BY <1>3, FS_Interval
  <2>2. order \in Injection(1 .. n, 1 .. n)
    BY <1>4, <1>5 DEF Injection, IsInjective
  <2>3. order \in Surjection(1 .. n, 1 .. n)
    BY <2>1, <2>2, FS_Injection
  <2> QED
    BY <2>3 DEF Surjection
<1>7. ranked \in Seq(Results) /\ DOMAIN ranked = 1 .. n
  BY <1>2, <1>3, <1>4, PickedEntries
<1>8. \A k \in 1 .. n : order[k] \in 1 .. n /\ ranked[k] = sorted[order[k]]
  BY <1>2, <1>3, <1>4
<1>9. Distinct(ranked)
  <2> SUFFICES ASSUME NEW k \in 1 .. n, NEW l \in 1 .. n, k # l PROVE ranked[k].id # ranked[l].id
    BY <1>7 DEF Distinct
  <2>1. sorted[order[k]].id # sorted[order[l]].id
    <3>1. order[k] \in DOMAIN sorted /\ order[l] \in DOMAIN sorted
      BY <1>3, <1>8
    <3>2. order[k] # order[l]
      BY <1>5
    <3> QED
      BY <1>1, <3>1, <3>2 DEF Distinct
  <2> QED
    BY <1>8, <2>1
<1>10. ASSUME NEW k \in 1 .. n PROVE ranked[k].score <= ranked[1].score
  <2>1. 1 \in 1 .. n
    BY <1>3, <1>10
  <2>2. MostRelevant(sorted, {order[m] : m \in 1 .. 1 - 1}, order[1])
    BY <1>4, <2>1 DEF IsRanking
  <2>3. {order[m] : m \in 1 .. 1 - 1} = {}
    OBVIOUS
  <2>4. MostRelevant(sorted, {}, order[1])
    BY <2>2, <2>3
  <2>5. \A j \in DOMAIN sorted : sorted[j].score <= sorted[order[1]].score
    BY <1>1, <1>3, <1>8, <2>1, <2>4, BestIsFirst
  <2> QED
    BY <1>3, <1>8, <2>1, <2>5
<1>11. ASSUME NEW i \in DOMAIN results PROVE \E k \in 1 .. n : ranked[k] = results[i]
  <2>1. PICK j \in 1 .. n : sorted[j] = results[i]
    BY <1>1, <1>3
  <2>2. PICK k \in 1 .. n : order[k] = j
    BY <1>6
  <2> QED
    BY <1>8, <2>1, <2>2
<1>12. ASSUME NEW k \in 1 .. n PROVE \E i \in DOMAIN results : ranked[k] = results[i]
  <2>1. order[k] \in DOMAIN results /\ ranked[k] = sorted[order[k]]
    BY <1>1, <1>3, <1>8
  <2> QED
    BY <1>1, <2>1
<1> QED
  BY <1>7, <1>9, <1>10, <1>11, <1>12 DEF ranked

CostOfResult(r) == SizeOf[r.id] + Overhead

\* The tokens of no result, and of one more result.
LEMMA TokensGrow ==
    ASSUME NEW results, Distinct(results)
    PROVE  /\ TokensOf(SubSeq(results, 1, 0)) = 0
           /\ \A n \in 1 .. Len(results) :
                /\ TokensOf(SubSeq(results, 1, n)) \in Int
                /\ TokensOf(SubSeq(results, 1, n))
                        = TokensOf(SubSeq(results, 1, n - 1)) + CostOfResult(results[n])
<1>1. /\ results \in Seq(Results) /\ Len(results) \in Nat /\ DOMAIN results = 1 .. Len(results)
      /\ \A i \in DOMAIN results : results[i] \in Results /\ results[i].id \in Documents
  BY EntriesOf, PlacesOf DEF Distinct
<1> DEFINE cost == [i \in DOMAIN results |-> CostOfResult(results[i])]
<1>2. \A i \in DOMAIN results : cost[i] \in Int
  <2>1. \A i \in DOMAIN results : SizeOf[results[i].id] \in Nat
    BY <1>1, ContextAssumption
  <2> QED
    BY <2>1, ContextAssumption DEF CostOfResult
<1>3. ASSUME NEW n \in Nat, n <= Len(results)
      PROVE  TokensOf(SubSeq(results, 1, n)) = SumFunctionOnSet(cost, 1 .. n)
  <2> DEFINE part == SubSeq(results, 1, n)
             f == [i \in DOMAIN part |-> SizeOf[part[i].id] + Overhead]
  <2>1. \A i \in 1 .. n : results[i] \in Results
    BY <1>1, <1>3
  <2>2. DOMAIN part = 1 .. n /\ \A i \in 1 .. n : part[i] = results[i]
    <3>1. /\ part \in Seq(Results) /\ Len(part) = n
          /\ \A i \in 1 .. n : part[i] = results[i]
      BY <2>1, SubSeqProperties
    <3> QED
      BY <3>1
  <2>3. TokensOf(part) = SumFunctionOnSet(f, 1 .. n)
    BY <2>2 DEF TokensOf
  <2> HIDE DEF part
  <2>4. \A i \in 1 .. n : f[i] = cost[i]
    BY <1>1, <1>3, <2>2 DEF CostOfResult
  <2> HIDE DEF f, cost
  <2>5. IsFiniteSet(1 .. n)
    BY FS_Interval
  <2>6. SumFunctionOnSet(f, 1 .. n) = SumFunctionOnSet(cost, 1 .. n)
    BY <2>4, <2>5, SumSame
  <2> QED
    BY <2>3, <2>6 DEF part
<1> HIDE DEF cost
<1>4. TokensOf(SubSeq(results, 1, 0)) = 0
  <2>1. 1 .. 0 = {}
    OBVIOUS
  <2> QED
    BY <1>1, <1>3, <2>1, SumOfNone
<1>5. ASSUME NEW n \in 1 .. Len(results)
      PROVE  /\ TokensOf(SubSeq(results, 1, n)) \in Int
             /\ TokensOf(SubSeq(results, 1, n))
                    = TokensOf(SubSeq(results, 1, n - 1)) + CostOfResult(results[n])
  <2>1. n \in Nat /\ n - 1 \in Nat /\ n <= Len(results) /\ n - 1 <= Len(results) /\ n \in 1 .. n
    BY <1>1
  <2>2. IsFiniteSet(1 .. n) /\ (1 .. n) \ {n} = 1 .. n - 1 /\ \A i \in 1 .. n : cost[i] \in Int
    <3>1. IsFiniteSet(1 .. n)
      BY <2>1, FS_Interval
    <3>2. (1 .. n) \ {n} = 1 .. n - 1
      BY <2>1
    <3>3. \A i \in 1 .. n : i \in DOMAIN results
      BY <1>1, <2>1
    <3> QED
      BY <1>2, <3>1, <3>2, <3>3
  <2>3. /\ SumFunctionOnSet(cost, 1 .. n) \in Int
        /\ SumFunctionOnSet(cost, 1 .. n) = cost[n] + SumFunctionOnSet(cost, (1 .. n) \ {n})
    <3> DEFINE S == 1 .. n
    <3>1. IsFiniteSet(S) /\ n \in S /\ \A i \in S : cost[i] \in Int
      BY <2>1, <2>2
    <3> HIDE DEF S
    <3>2. /\ SumFunctionOnSet(cost, S) \in Int
          /\ \A x \in S : SumFunctionOnSet(cost, S) = cost[x] + SumFunctionOnSet(cost, S \ {x})
      BY <3>1, SumRemoves, ZenonT(60)
    <3> QED
      BY <3>1, <3>2 DEF S
  <2>4. SumFunctionOnSet(cost, 1 .. n - 1) \in Int
    <3>1. 1 .. n - 1 \in SUBSET (1 .. n)
      BY <2>1
    <3>2. IsFiniteSet(1 .. n - 1)
      BY <2>2, <3>1, FS_Subset
    <3>3. \A i \in 1 .. n - 1 : cost[i] \in Int
      BY <2>2, <3>1
    <3> QED
      BY <3>2, <3>3, SumRemoves
  <2>5. cost[n] = CostOfResult(results[n]) /\ cost[n] \in Int
    BY <1>1, <1>2, <2>1 DEF cost
  <2>6. /\ TokensOf(SubSeq(results, 1, n)) = SumFunctionOnSet(cost, 1 .. n)
        /\ TokensOf(SubSeq(results, 1, n - 1)) = SumFunctionOnSet(cost, 1 .. n - 1)
    BY <1>3, <2>1
  <2>7. SumFunctionOnSet(cost, 1 .. n) = cost[n] + SumFunctionOnSet(cost, 1 .. n - 1)
    BY <2>2, <2>3
  <2> DEFINE t == SumFunctionOnSet(cost, 1 .. n)
             u == SumFunctionOnSet(cost, 1 .. n - 1)
             c == cost[n]
  <2>8. t \in Int /\ u \in Int /\ c \in Int /\ t = c + u
    BY <2>3, <2>4, <2>5, <2>7
  <2> HIDE DEF t, u, c
  <2>9. t = u + c
    BY <2>8
  <2> QED
    BY <2>3, <2>5, <2>6, <2>9 DEF t, u, c
<1> QED
  BY <1>4, <1>5

\* The context is the longest beginning that fits.
LEMMA LongestThatFits ==
    ASSUME NEW results, Distinct(results)
    PROVE  \E n \in 0 .. Len(results) :
                /\ FitToContextWindow(results) = SubSeq(results, 1, n)
                /\ TokensOf(SubSeq(results, 1, n)) <= MaxContext
                /\ n = Len(results) \/ ~(TokensOf(SubSeq(results, 1, n + 1)) <= MaxContext)
<1> DEFINE Fits(n) == TokensOf(SubSeq(results, 1, n)) <= MaxContext
           Ends(n) == (\A m \in 0 .. n : Fits(m)) /\ (n = Len(results) \/ ~Fits(n + 1))
           G == {n \in Nat : n <= Len(results) =>
                    \/ \A m \in 0 .. n : Fits(m)
                    \/ \E m \in 0 .. Len(results) : Ends(m)}
<1>1. Len(results) \in Nat
  BY EntriesOf
<1>2. 0 \in G
  <2>1. Fits(0)
    BY TokensGrow, ContextAssumption
  <2>2. \A m \in 0 .. 0 : m = 0
    OBVIOUS
  <2> HIDE DEF Fits
  <2> QED
    BY <2>1, <2>2
<1> HIDE DEF Fits
<1>3. ASSUME NEW n \in Nat, n \in G PROVE n + 1 \in G
  <2> SUFFICES ASSUME n + 1 <= Len(results), \A m \in 0 .. Len(results) : ~Ends(m)
               PROVE  \A m \in 0 .. n + 1 : Fits(m)
    OBVIOUS
  <2>1. n <= Len(results) /\ n # Len(results) /\ n \in 0 .. Len(results)
    BY <1>1
  <2>2. \A m \in 0 .. n : Fits(m)
    BY <1>3, <2>1
  <2>3. Fits(n + 1)
    BY <2>1, <2>2
  <2>4. \A m \in 0 .. n + 1 : m \in 0 .. n \/ m = n + 1
    OBVIOUS
  <2> QED
    BY <2>2, <2>3, <2>4
<1>4. Nat \subseteq G
  <2> HIDE DEF G
  <2> QED
    BY <1>2, <1>3, Counting
<1>5. \E n \in 0 .. Len(results) : Ends(n)
  <2>1. CASE \A m \in 0 .. Len(results) : Fits(m)
    BY <1>1, <2>1
  <2>2. CASE ~ \A m \in 0 .. Len(results) : Fits(m)
    BY <1>1, <1>4, <2>2
  <2> QED
    BY <2>1, <2>2
<1> DEFINE n == CHOOSE n \in 0 .. Len(results) : Ends(n)
<1>6. n \in 0 .. Len(results) /\ Ends(n)
  BY <1>5
<1>7. FitToContextWindow(results) = SubSeq(results, 1, n)
  BY DEF FitToContextWindow, Fits
<1> HIDE DEF n
<1>8. n \in 0 .. n
  BY <1>1, <1>6
<1> QED
  BY <1>6, <1>7, <1>8 DEF Fits

\* What the context is: a beginning of the ranked results that no other one fits
\* behind.
LEMMA ContextIsABeginning ==
    ASSUME NEW ranked, Distinct(ranked), NEW context, context = FitToContextWindow(ranked)
    PROVE  /\ Distinct(context) /\ DOMAIN context \subseteq DOMAIN ranked
           /\ \A k \in DOMAIN context : context[k] = ranked[k]
           /\ TokensOf(context) <= MaxContext
           /\ \A k \in DOMAIN ranked \ DOMAIN context : \E l \in DOMAIN ranked \ DOMAIN context :
                TokensOf(context) + SizeOf[ranked[l].id] + Overhead > MaxContext
<1>1. PICK n \in 0 .. Len(ranked) :
        /\ context = SubSeq(ranked, 1, n)
        /\ TokensOf(SubSeq(ranked, 1, n)) <= MaxContext
        /\ n = Len(ranked) \/ ~(TokensOf(SubSeq(ranked, 1, n + 1)) <= MaxContext)
  BY LongestThatFits
<1>2. /\ ranked \in Seq(Results) /\ Len(ranked) \in Nat /\ DOMAIN ranked = 1 .. Len(ranked)
      /\ \A i \in DOMAIN ranked : ranked[i] \in Results /\ ranked[i].id \in Documents
  BY EntriesOf, PlacesOf DEF Distinct
<1>3. context \in Seq(Results) /\ DOMAIN context = 1 .. n /\ \A k \in 1 .. n : context[k] = ranked[k]
  <2>1. n \in Int /\ \A i \in 1 .. n : ranked[i] \in Results
    BY <1>2
  <2>2. context \in Seq(Results) /\ Len(context) = n /\ \A k \in 1 .. n : context[k] = ranked[k]
    BY <1>1, <2>1, SubSeqProperties
  <2> QED
    BY <2>2
<1>4. DOMAIN context \subseteq DOMAIN ranked
  BY <1>2, <1>3
<1>5. Distinct(context)
  BY <1>3, <1>4 DEF Distinct
<1>6. ASSUME NEW k \in DOMAIN ranked \ DOMAIN context
      PROVE  \E l \in DOMAIN ranked \ DOMAIN context :
                TokensOf(context) + SizeOf[ranked[l].id] + Overhead > MaxContext
  <2> DEFINE l == n + 1
  <2>1. l \in 1 .. Len(ranked) /\ l \notin 1 .. n /\ l - 1 = n /\ n # Len(ranked)
    <3>1. n \in Nat /\ Len(ranked) \in Nat /\ k \in 1 .. Len(ranked) /\ k \notin 1 .. n
      BY <1>2, <1>3
    <3> QED
      BY <3>1
  <2>2. ~(TokensOf(SubSeq(ranked, 1, l)) <= MaxContext)
    BY <1>1, <2>1
  <2>3. l \in DOMAIN ranked \ DOMAIN context
    <3>1. DOMAIN ranked = 1 .. Len(ranked) /\ DOMAIN context = 1 .. n
      BY <1>2, <1>3
    <3> HIDE DEF l
    <3> QED
      BY <2>1, <3>1, Zenon
  <2> HIDE DEF l
  <2>4. /\ TokensOf(SubSeq(ranked, 1, l)) \in Int
        /\ TokensOf(SubSeq(ranked, 1, l)) = TokensOf(context) + CostOfResult(ranked[l])
    BY <1>1, <2>1, TokensGrow
  <2>5. TokensOf(context) \in Int
    <3>1. CASE n = 0
      BY <1>1, <3>1, TokensGrow
    <3>2. CASE n # 0
      <4>1. n \in 1 .. Len(ranked)
        BY <1>2, <3>2
      <4> QED
        BY <1>1, <4>1, TokensGrow
    <3> QED
      BY <3>1, <3>2
  <2>6. SizeOf[ranked[l].id] \in Nat /\ Overhead \in Nat /\ MaxContext \in Nat
    <3>1. ranked[l].id \in Documents
      BY <1>2, <2>3
    <3> QED
      BY <3>1, ContextAssumption
  <2>7. TokensOf(context) + SizeOf[ranked[l].id] + Overhead > MaxContext
    <3> DEFINE t == TokensOf(context)
               s == SizeOf[ranked[l].id]
               u == TokensOf(SubSeq(ranked, 1, l))
    <3>1. u \in Int /\ u = t + (s + Overhead) /\ t \in Int /\ s \in Nat /\ ~(u <= MaxContext)
      BY <2>2, <2>4, <2>5, <2>6 DEF CostOfResult
    <3>2. Overhead \in Nat /\ MaxContext \in Nat
      BY <2>6
    <3> HIDE DEF t, s, u
    <3>3. t + s + Overhead > MaxContext
      BY <3>1, <3>2
    <3> QED
      BY <3>3 DEF t, s
  <2> QED
    BY <2>7, <2>3
<1> QED
  BY <1>1, <1>3, <1>4, <1>5, <1>6

\* What is left out of the context is below the minimum, or like a result before
\* it, or behind one that does not fit.
LEMMA ContextExplained ==
    ASSUME NEW results, SortedResults(results)
    PROVE  ContextIsExplained(results, AssembleContext(results))
<1> DEFINE good == {i \in DOMAIN results : results[i].score >= MinScore}
           relevant == FilterByRelevance(results)
           order == Ascending(good)
           unique == DeduplicateResults(relevant)
           ranked == RankWithDiversity(unique)
           context == AssembleContext(results)
<1>1. Distinct(results) /\ BestFirst(results)
  BY DEF SortedResults
<1>2. /\ SortedResults(relevant) /\ order \in [DOMAIN relevant -> good]
      /\ \A k \in DOMAIN relevant : relevant[k] = results[order[k]]
      /\ \A i \in good : \E k \in DOMAIN relevant : order[k] = i
      /\ \A k, l \in DOMAIN relevant : k < l => order[k] < order[l]
  <2>1. relevant = Filtered(results, good) /\ good \in SUBSET (DOMAIN results)
    BY DEF FilterByRelevance
  <2> HIDE DEF relevant, good, order
  <2> QED
    BY <1>1, <2>1, FilteredIsPart DEF order
<1>3. \A i \in good : i \in DOMAIN results /\ results[i].score >= MinScore
  OBVIOUS
<1>4. context = FitToContextWindow(ranked)
  BY DEF AssembleContext
<1>5. \A i \in DOMAIN results : i \notin good => results[i].score < MinScore
  <2>1. \A i \in DOMAIN results : results[i].score \in Int
    BY <1>1, EntriesOf
  <2> QED
    BY <2>1, ContextAssumption
<1> HIDE DEF good, relevant, order
<1>6. /\ SortedResults(unique)
      /\ \A k \in DOMAIN unique : \E i \in DOMAIN relevant : unique[k] = relevant[i]
      /\ \A k, l \in DOMAIN unique : k # l =>
            Similarity(unique[k].id, unique[l].id) < Duplicate
      /\ \A i \in DOMAIN relevant :
            \/ \E k \in DOMAIN unique : unique[k] = relevant[i]
            \/ \E j \in DOMAIN relevant :
                    j < i /\ Similarity(relevant[i].id, relevant[j].id) >= Duplicate
  BY <1>2, NoneAlike
<1>7. Distinct(unique)
  BY <1>6 DEF SortedResults
<1> HIDE DEF unique
<1>8. /\ Distinct(ranked)
      /\ \A k \in DOMAIN ranked : \E i \in DOMAIN unique : ranked[k] = unique[i]
      /\ \A i \in DOMAIN unique : \E k \in DOMAIN ranked : ranked[k] = unique[i]
      /\ \A k \in DOMAIN ranked : ranked[k].score <= ranked[1].score
  BY <1>7, RankedByDiversity
<1> HIDE DEF ranked
<1>9. /\ Distinct(context) /\ DOMAIN context \subseteq DOMAIN ranked
      /\ \A k \in DOMAIN context : context[k] = ranked[k]
      /\ TokensOf(context) <= MaxContext
      /\ \A k \in DOMAIN ranked \ DOMAIN context : \E l \in DOMAIN ranked \ DOMAIN context :
            TokensOf(context) + SizeOf[ranked[l].id] + Overhead > MaxContext
  BY <1>4, <1>8, ContextIsABeginning
<1> HIDE DEF context
\* Every ranked result is one of the results, above the minimum, and none is like
\* another.
<1>10. ASSUME NEW k \in DOMAIN ranked PROVE \E i \in good : ranked[k] = results[i]
  <2>1. PICK j \in DOMAIN unique : ranked[k] = unique[j]
    BY <1>8
  <2>2. PICK i \in DOMAIN relevant : unique[j] = relevant[i]
    BY <1>6
  <2> QED
    BY <1>2, <2>1, <2>2
<1>11. ASSUME NEW k \in DOMAIN ranked, NEW l \in DOMAIN ranked, k # l
       PROVE  Similarity(ranked[k].id, ranked[l].id) < Duplicate
  <2>1. PICK i \in DOMAIN unique : ranked[k] = unique[i]
    BY <1>8
  <2>2. PICK j \in DOMAIN unique : ranked[l] = unique[j]
    BY <1>8
  <2>3. i # j
    BY <1>8, <1>11, <2>1, <2>2 DEF Distinct
  <2> QED
    BY <1>6, <2>1, <2>2, <2>3
<1>12. Ids(context) \subseteq Ids(results)
  <2> SUFFICES ASSUME NEW k \in DOMAIN context PROVE context[k].id \in Ids(results)
    BY DEF Ids
  <2>1. PICK i \in good : context[k] = results[i]
    BY <1>9, <1>10
  <2> QED
    BY <1>3, <2>1 DEF Ids
<1>13. ASSUME NEW k \in DOMAIN context, NEW l \in DOMAIN context, k # l
       PROVE  /\ context[k].id # context[l].id
              /\ Similarity(context[k].id, context[l].id) < Duplicate
  BY <1>9, <1>11, <1>13 DEF Distinct
<1>14. ASSUME NEW k \in DOMAIN context
       PROVE  context[k].score <= context[1].score /\ context[k].score >= MinScore
  <2>1. 1 \in DOMAIN context
    <3>1. DOMAIN context = 1 .. Len(context) /\ Len(context) \in Nat
      BY <1>9, EntriesOf
    <3> QED
      BY <1>14, <3>1
  <2>2. PICK i \in good : context[k] = results[i]
    BY <1>9, <1>10
  <2> QED
    BY <1>3, <1>8, <1>9, <2>1, <2>2
<1>15. ASSUME NEW i \in DOMAIN results
       PROVE  \/ results[i].id \in Ids(context)
              \/ results[i].score < MinScore
              \/ \E j \in 1 .. i - 1 : /\ Similarity(results[i].id, results[j].id) >= Duplicate
                                       /\ results[j].score >= results[i].score
              \/ \E j \in DOMAIN results :
                    /\ results[j].score >= MinScore
                    /\ \A d \in Ids(context) : Similarity(d, results[j].id) < Duplicate
                    /\ TokensOf(context) + SizeOf[results[j].id] + Overhead > MaxContext
  <2>1. CASE i \notin good
    BY <1>5, <2>1
  <2>2. CASE i \in good
    <3>1. PICK a \in DOMAIN relevant : order[a] = i /\ relevant[a] = results[i]
      BY <1>2, <2>2
    <3>2. CASE \E b \in DOMAIN relevant :
                    b < a /\ Similarity(relevant[a].id, relevant[b].id) >= Duplicate
      <4>1. PICK b \in DOMAIN relevant :
                    b < a /\ Similarity(relevant[a].id, relevant[b].id) >= Duplicate
        BY <3>2
      <4> DEFINE j == order[b]
      <4>2. j \in DOMAIN results /\ j < i /\ relevant[b] = results[j]
        BY <1>2, <1>3, <3>1, <4>1
      <4> HIDE DEF j
      <4>3. j \in 1 .. i - 1
        <5>1. DOMAIN results = 1 .. Len(results) /\ Len(results) \in Nat
          BY <1>1, EntriesOf
        <5> QED
          BY <4>2, <5>1
      <4>4. results[j].score >= results[i].score
        BY <1>1, <4>2 DEF BestFirst
      <4> QED
        BY <3>1, <4>1, <4>2, <4>3, <4>4
    <3>3. CASE \E k \in DOMAIN unique : unique[k] = relevant[a]
      <4>1. PICK k \in DOMAIN ranked : ranked[k] = results[i]
        BY <1>8, <3>1, <3>3
      <4>2. CASE k \in DOMAIN context
        BY <1>9, <4>1, <4>2 DEF Ids
      <4>3. CASE k \notin DOMAIN context
        <5>1. PICK l \in DOMAIN ranked \ DOMAIN context :
                    TokensOf(context) + SizeOf[ranked[l].id] + Overhead > MaxContext
          BY <1>9, <4>3
        <5>2. PICK j \in good : ranked[l] = results[j]
          BY <1>10, <5>1
        <5>3. ASSUME NEW d \in Ids(context) PROVE Similarity(d, results[j].id) < Duplicate
          <6>1. PICK m \in DOMAIN context : d = context[m].id
            BY DEF Ids
          <6>2. m \in DOMAIN ranked /\ context[m] = ranked[m] /\ m # l
            BY <1>9, <5>1
          <6> QED
            BY <1>11, <5>1, <5>2, <6>1, <6>2
        <5> QED
          BY <1>3, <5>1, <5>2, <5>3
      <4> QED
        BY <4>2, <4>3
    <3> QED
      BY <1>6, <3>2, <3>3
  <2> QED
    BY <2>1, <2>2
<1>16. ContextIsExplained(results, context)
  BY <1>9, <1>12, <1>13, <1>14, <1>15 DEF ContextIsExplained
<1> QED
  BY <1>16 DEF context

(* For any documents and queries, scores, weights, budgets and limits of    *)
(* the cache: every kind of search answers ranked results, also when         *)
(* templates come and go meanwhile, and the context made of them is within   *)
(* its budget, has no two alike, and leaves nothing out without a reason.    *)
THEOREM AnswersExplained == RetrievalSpec => []AnswersAreExplained
<1>1. RetrievalInv => AnswersAreExplained
  <2> SUFFICES ASSUME RetrievalInv PROVE AnswersAreExplained
    OBVIOUS
  <2>1. SortedResults(found)
    BY DEF RetrievalInv
  <2>2. AnswersAreRanked
    BY DEF RetrievalInv, RankedAnswer, HasTheBest, AnswersAreRanked
  <2>3. ContextsAreExplained
    BY <2>1, ContextExplained DEF ContextsAreExplained
  <2> QED
    BY <2>2, <2>3 DEF AnswersAreExplained
<1> QED
  BY <1>1, RetrievalStarts, RetrievalStepKeeps, PTL DEF RetrievalSpec

=============================================================================
