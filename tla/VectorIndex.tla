----------------------------- MODULE VectorIndex ----------------------------
(***************************************************************************)
(* QdrantService and the endpoints of VectorDbController that change the   *)
(* collection.  A call to Qdrant is one atomic step, and it fails while    *)
(* the collection is missing; uploads take the vector from                 *)
(* EmbeddingService first and go under the id their body names, if it      *)
(* names one, a change of status reads payload and vector before it writes *)
(* both back, clearing deletes the collection and then creates it anew.    *)
(* (Scores and filters are in Retrieval.)                                  *)
(***************************************************************************)
EXTENDS Naturals

CONSTANTS
  TemplateIds,   \* template ids, from randomUUID or from a body
  Curators,      \* callers
  NoPoint        \* no such point

\* What the clean-up tells apart: active, or one of archived and deleted.
PointStatuses == {"active", "retired"}

ASSUME IndexAssumption == NoPoint \notin [status : PointStatuses, old : BOOLEAN]

VARIABLES
  collection, \* the collection exists
  points,     \* the points, by template id
  task,       \* task[c]: what caller c is at
  uploaded,   \* history: ids an acknowledged upload was stored under
  removed,    \* history: ids a removal took away since they were uploaded
  revived     \* history: ids removed while a change of status held them

indexVars == <<collection, points, task, uploaded, removed, revived>>

NoTask == [op |-> "none"]

IndexInit ==
  /\ collection = TRUE
  /\ points = [id \in TemplateIds |-> NoPoint]
  /\ task = [c \in Curators |-> NoTask]
  /\ uploaded = {} /\ removed = {} /\ revived = {}

AtRest(c) == task[c] = NoTask
Present(id) == points[id] # NoPoint
Point(status, old) == [status |-> status, old |-> old]

Held == {task[c].id : c \in {d \in Curators : task[d].op \in {"vector", "write"}}}

Finish(c) == task' = [task EXCEPT ![c] = NoTask]
Do(c, step) == task' = [task EXCEPT ![c] = step]

Without(ids) ==
  /\ points' = [id \in TemplateIds |-> IF id \in ids THEN NoPoint ELSE points[id]]
  /\ removed' = removed \cup {id \in ids : Present(id)}
  /\ revived' = revived \cup {id \in ids : Present(id) /\ id \in Held}

\* Any call may fail with nothing changed; the handler answers success: false.
CallFails(c) ==
  /\ ~AtRest(c)
  /\ Finish(c)
  /\ UNCHANGED <<collection, points, uploaded, removed, revived>>

\* uploadTemplate: the id, then the embedding.  The body is spread over the new
\* random id, so an id in it, which may be in use, takes its place; the answer
\* names the random one all the same.  createdAt comes from the body too: the
\* point may be old from the beginning.
UploadTemplate(c) ==
  /\ AtRest(c)
  /\ \E id \in TemplateIds, old \in BOOLEAN :
       Do(c, [op |-> "upload", id |-> id, old |-> old])
  /\ UNCHANGED <<collection, points, uploaded, removed, revived>>

\* upsertTemplate.  A write Qdrant applied may still be answered with an error.
UpsertTemplate(c) ==
  /\ task[c].op = "upload" /\ collection
  /\ points' = [points EXCEPT ![task[c].id] = Point("active", task[c].old)]
  /\ uploaded' \in {uploaded, uploaded \cup {task[c].id}}
  /\ removed' = removed \ {task[c].id}
  /\ revived' = revived \ {task[c].id}
  /\ Finish(c)
  /\ UNCHANGED collection

DeleteTemplate(c) ==
  /\ AtRest(c) /\ collection
  /\ \E id \in TemplateIds : Present(id) /\ Without({id})
  /\ UNCHANGED <<collection, task, uploaded>>

\* cleanupOldVectors and cleanupArchivedVectors: one delete by filter.
CleanupOldVectors ==
  /\ collection
  /\ \E id \in TemplateIds : Present(id) /\ points[id].old
  /\ Without({id \in TemplateIds : Present(id) /\ points[id].old})
  /\ UNCHANGED <<collection, task, uploaded>>

CleanupArchivedVectors ==
  /\ collection
  /\ LET ids == {id \in TemplateIds : Present(id) /\ points[id].status # "active"}
     IN ids # {} /\ Without(ids)
  /\ UNCHANGED <<collection, task, uploaded>>

\* updateVectorStatus: read the payload, read the vector, write both.
UpdateVectorStatus(c) ==
  /\ AtRest(c) /\ collection
  /\ \E id \in TemplateIds, status \in PointStatuses :
       /\ Present(id)
       /\ Do(c, [op |-> "vector", id |-> id, status |-> status,
                 old |-> points[id].old])
  /\ UNCHANGED <<collection, points, uploaded, removed, revived>>

ReadVector(c) ==
  /\ task[c].op = "vector" /\ collection /\ Present(task[c].id)
  /\ Do(c, [task[c] EXCEPT !.op = "write"])
  /\ UNCHANGED <<collection, points, uploaded, removed, revived>>

WriteStatus(c) ==
  /\ task[c].op = "write" /\ collection
  /\ points' = [points EXCEPT ![task[c].id] = Point(task[c].status, task[c].old)]
  /\ Finish(c)
  /\ UNCHANGED <<collection, uploaded, removed, revived>>

ClearCollection(c) ==
  /\ AtRest(c)
  /\ collection' = FALSE
  /\ Without(TemplateIds)
  /\ Do(c, [op |-> "create"])
  /\ UNCHANGED uploaded

\* ensureCollection, after a clearing and when the module starts: it creates
\* the collection unless it is there.
EnsureCollection(c) ==
  /\ task[c].op = "create"
  /\ collection' = TRUE
  /\ Finish(c)
  /\ UNCHANGED <<points, uploaded, removed, revived>>

\* A slip: a starting instance always creates the collection anew.
OnModuleInitRecreates ==
  /\ collection' = TRUE
  /\ points' = [id \in TemplateIds |-> NoPoint]
  /\ task' = [c \in Curators |-> NoTask]
  /\ UNCHANGED <<uploaded, removed, revived>>

OnModuleInit ==
  /\ ~collection
  /\ collection' = TRUE
  /\ task' = [c \in Curators |-> NoTask]
  /\ UNCHANGED <<points, uploaded, removed, revived>>

IndexNext ==
  \/ \E c \in Curators :
       \/ UploadTemplate(c) \/ UpsertTemplate(c) \/ CallFails(c) \/ DeleteTemplate(c)
       \/ UpdateVectorStatus(c) \/ ReadVector(c) \/ WriteStatus(c)
       \/ ClearCollection(c) \/ EnsureCollection(c)
  \/ CleanupOldVectors \/ CleanupArchivedVectors \/ OnModuleInit

IndexSpec == IndexInit /\ [][IndexNext]_indexVars

(* An acknowledged upload stays in the collection, under the id it was      *)
(* stored with, until something removes it; and what was removed and not    *)
(* uploaded again is back only where a change of status had read it before  *)
(* and wrote it back.                                                       *)
IndexIsExplained ==
  /\ uploaded \ removed \subseteq {id \in TemplateIds : Present(id)}
  /\ {id \in removed : Present(id)} \subseteq revived
=============================================================================
