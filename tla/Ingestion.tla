------------------------------ MODULE Ingestion -----------------------------
(***************************************************************************)
(* DocumentIngestionService with its extractor, validator and cleaner.     *)
(* ingestAll counts the SENT notifications once and reads them page by     *)
(* page, newest first, while others are sent and archived; each page runs  *)
(* through extract, validate, clean, embed and store.  The pages are       *)
(* ordered by createdAt alone, so the database is free to put rows created *)
(* at the same instant in another order for each.  A document is what      *)
(* the stages ask of a notification: its channel as it is written, whether *)
(* its type is one of VALID_TYPES, and the texts it carries, by field.  A  *)
(* text is its length, its length once trimmed, and what is left of it     *)
(* when the cleaner compares.  (includeArchived repeats the loop over the  *)
(* archive, whose rows carry no content column.)                           *)
(***************************************************************************)
EXTENDS Integers, SequencesExt

CONSTANTS
  TableRows,   \* what a SENT notification may be as a document
  Instants,    \* values of createdAt
  GivenLists,  \* lists of documents ingestBatch may be called with
  MinContent,  \* MIN_CONTENT_LENGTH, 10
  MaxContent,  \* MAX_CONTENT_LENGTH, 10000
  PageSize,    \* batchSize of ingestAll, 100
  MaxSentRows  \* bound: rows of the table at any time

ASSUME IngestionAssumption ==
  /\ PageSize \in Nat \ {0}
  /\ MinContent \in Nat /\ MaxContent \in Nat /\ MaxSentRows \in Nat
  /\ Instants \subseteq Nat
  /\ \A docs \in GivenLists : docs \in Seq(ToSet(docs))

VARIABLES
  sent,      \* the SENT notifications, newest first
  ingest,    \* the run of ingestAll
  tableChanged, \* history: the table changed since the run began
  outcome    \* what ingestBatch was given and returned in the last step, if it
             \* was called

ingestVars == <<sent, ingest, tableChanged, outcome>>

NoIngest ==
  [phase |-> "idle", total |-> 0, offset |-> 0, loaded |-> <<>>,
   processed |-> 0, success |-> 0, failures |-> 0]

-----------------------------------------------------------------------------
\* extractContent: where it looks, in this order.  The channels are written in
\* lower case here and in upper case by the API, whose notifications are
\* therefore read from the content column.
FieldOrder(doc) ==
  (CASE doc.channel = "email" -> <<"body", "html", "text">>
     [] doc.channel = "sms" -> <<"message", "body", "text">>
     [] doc.channel = "push" -> <<"body", "message", "alert">>
     [] doc.channel = "in_app" -> <<"content", "message", "body">>
     [] doc.channel = "webhook" -> <<"body", "json">>
     [] OTHER -> <<>>)
  \o <<"column">>
  \o (IF doc.channel = "email" THEN <<"subject">> ELSE <<>>)

Sources(doc) == SelectSeq(FieldOrder(doc), LAMBDA f : f \in DOMAIN doc.fields)
HasContent(doc) == Sources(doc) # <<>>
ContentOf(doc) == doc.fields[Head(Sources(doc))]

\* The conditions of the validator that are errors; warnings change nothing.
ValidChannels == {"email", "sms", "push", "in_app", "webhook"}

IsValid(doc) ==
  /\ ContentOf(doc).trimmed > 0
  /\ ContentOf(doc).length \in MinContent..MaxContent
  /\ doc.channel \in ValidChannels
  /\ doc.typed

\* The stages hand on what they did not drop, in its order: here the places of
\* these documents in the list.
Extracted(docs) == {i \in DOMAIN docs : HasContent(docs[i])}
Validated(docs, skip) ==
  {i \in Extracted(docs) : "validation" \in skip \/ IsValid(docs[i])}

\* The cleaner keeps the first of the documents that compare as the same.
RemoveDuplicates(docs, ids) ==
  {i \in ids : \A j \in ids : j < i => ContentOf(docs[j]).same # ContentOf(docs[i]).same}

\* A slip: the stage that throws does not count what it was given.
IngestBatchForgets(docs, skip) ==
  LET extracted == Extracted(docs)
      valid == Validated(docs, skip)
      cleaned == RemoveDuplicates(docs, valid)
  IN [processed |-> Len(docs),
      success |-> IF {"embedding", "storage"} \subseteq skip THEN Cardinality(cleaned) ELSE 0,
      failures |-> Cardinality(extracted) - Cardinality(valid)]

\* Stage by stage.  embedBatch indexes the result object of generateEmbeddings
\* instead of its `results`, and storeBatch builds points of another shape
\* than upsertTemplates reads: both throw unless nothing is left to do.
IngestBatch(docs, skip) ==
  LET extracted == Extracted(docs)
      valid == Validated(docs, skip)
      cleaned == RemoveDuplicates(docs, valid)
      throws == cleaned # {} /\ ~({"embedding", "storage"} \subseteq skip)
  IN [processed |-> Len(docs),
      success |-> IF throws THEN 0 ELSE Cardinality(cleaned),
      failures |-> Cardinality(extracted) - Cardinality(valid)
                     + (IF throws THEN Cardinality(cleaned) ELSE 0)]

NoOutcome == [given |-> <<>>, skip |-> {}, result |-> IngestBatch(<<>>, {})]

SentRow == [doc : TableRows, created : Instants]
NewestFirst(rows) ==
  \A i, j \in DOMAIN rows : i < j => rows[i].created >= rows[j].created

IngestInit ==
  /\ sent \in {rows \in BoundedSeq(SentRow, MaxSentRows) : NewestFirst(rows)}
  /\ ingest = NoIngest
  /\ tableChanged = FALSE
  /\ outcome = NoOutcome

-----------------------------------------------------------------------------
\* ingestBatch called on its own, with its options; it shares nothing with
\* ingestAll, so calls before the first run stand for all.
IngestSelection ==
  /\ ingest.phase = "idle" /\ outcome = NoOutcome
  /\ \E docs \in GivenLists, skip \in SUBSET {"validation", "embedding", "storage"} :
       outcome' = [given |-> docs, skip |-> skip, result |-> IngestBatch(docs, skip)]
  /\ UNCHANGED <<sent, ingest, tableChanged>>

\* ingestAll begins with the count that bounds its loop.
StartIngest ==
  /\ ingest.phase # "run"
  /\ ingest' = [NoIngest EXCEPT !.phase = "run", !.total = Len(sent)]
  /\ tableChanged' = FALSE
  /\ outcome' = NoOutcome
  /\ UNCHANGED sent

\* The places of the rows in an order the database may answer with.
Orders ==
  {order \in [DOMAIN sent -> DOMAIN sent] :
     /\ \A i, j \in DOMAIN sent : order[i] = order[j] => i = j
     /\ \A i, j \in DOMAIN sent : i < j => sent[order[i]].created >= sent[order[j]].created}

LastOf(offset) == IF offset + PageSize < Len(sent) THEN offset + PageSize ELSE Len(sent)

\* A slip: the pages start one row too late.
PageOffByOne(offset) ==
  {SubSeq([i \in DOMAIN sent |-> sent[order[i]]], offset + 2, LastOf(offset)) :
     order \in Orders}

\* loadNotifications: take and skip on the table as it is now, in one of its
\* orders.
Page(offset) ==
  {SubSeq([i \in DOMAIN sent |-> sent[order[i]]], offset + 1, LastOf(offset)) :
     order \in Orders}

IngestPage ==
  /\ ingest.phase = "run" /\ ingest.offset < ingest.total
  /\ \E page \in Page(ingest.offset) :
     LET docs == [i \in DOMAIN page |-> page[i].doc]
         result == IngestBatch(docs, {})
     IN /\ ingest' = [ingest EXCEPT !.offset = @ + PageSize, !.loaded = @ \o page,
                                    !.processed = @ + result.processed,
                                    !.success = @ + result.success,
                                    !.failures = @ + result.failures]
        /\ outcome' = [given |-> docs, skip |-> {}, result |-> result]
  /\ UNCHANGED <<sent, tableChanged>>

EndIngest ==
  /\ ingest.phase = "run" /\ ingest.offset >= ingest.total
  /\ ingest' = [ingest EXCEPT !.phase = "done"]
  /\ outcome' = NoOutcome
  /\ UNCHANGED <<sent, tableChanged>>

\* The rest of the system: a notification is sent, some time after it was
\* created, or leaves the table.
NotificationIsSent ==
  /\ Len(sent) < MaxSentRows
  /\ \E row \in SentRow, i \in 1..(Len(sent) + 1) : sent' = InsertAt(sent, i, row)
  /\ NewestFirst(sent')
  /\ tableChanged' = TRUE
  /\ outcome' = NoOutcome
  /\ UNCHANGED ingest

NotificationLeaves ==
  /\ \E i \in DOMAIN sent : sent' = RemoveAt(sent, i)
  /\ tableChanged' = TRUE
  /\ outcome' = NoOutcome
  /\ UNCHANGED ingest

IngestNext ==
  \/ IngestSelection \/ StartIngest \/ IngestPage \/ EndIngest
  \/ NotificationIsSent \/ NotificationLeaves

IngestSpec == IngestInit /\ [][IngestNext]_ingestVars

-----------------------------------------------------------------------------
\* The places of the rows created at the instant of the row at place i.
Ties(i) == {j \in DOMAIN sent : sent[j].created = sent[i].created}

(* A run of ingestAll while the table does not change loads as many rows of *)
(* each instant as there are, at the places they have in the table: a row   *)
(* nobody shares its createdAt with comes once, and one is missed or comes  *)
(* twice only when another was created at the same instant.                 *)
UndisturbedRunLoadsAll ==
  ingest.phase = "done" /\ ~tableChanged =>
    /\ Len(ingest.loaded) = Len(sent)
    /\ \A i \in DOMAIN sent : ingest.loaded[i] \in {sent[j] : j \in Ties(i)}

(* Every document a batch was given is counted as a success or a failure,   *)
(* but for those without content and the copies the cleaner drops: the      *)
(* counts never exceed what was processed, and skippedCount hides no other. *)
BatchCountsAddUp ==
  LET docs == outcome.given
      counted == outcome.result.success + outcome.result.failures
      copies == {i \in DOMAIN docs : HasContent(docs[i])
                   /\ \E j \in 1..(i - 1) : HasContent(docs[j])
                        /\ ContentOf(docs[j]).same = ContentOf(docs[i]).same}
      empty == {i \in DOMAIN docs : ~HasContent(docs[i])}
  IN /\ counted <= Len(docs)
     /\ counted >= Len(docs) - Cardinality(empty) - Cardinality(copies)

(* What a run reports agrees with what it did.                              *)
IngestionAddsUp == UndisturbedRunLoadsAll /\ BatchCountsAddUp
=============================================================================
