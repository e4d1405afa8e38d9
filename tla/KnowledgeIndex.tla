--------------------------- MODULE KnowledgeIndex ---------------------------
(***************************************************************************)
(* One library document on its way into the retrieval index: its row in    *)
(* knowledge_documents, its document_chunks, its published                 *)
(* retrieval_entries, the ingestion passes of the pipeline workers         *)
(* (rag/application/ingestion_job.py, rag/ingest/pipeline.py) and the      *)
(* outbox jobs that rebuild or remove its entries                          *)
(* (worker/outbox_handlers/knowledge.py), under backend/app.               *)
(*                                                                         *)
(* No transaction spans a download, a parse or an embedding.  A pass and a *)
(* drain take a snapshot of the source when they begin, and every later    *)
(* transaction of theirs compares it with the row under the row's lock.    *)
(*                                                                         *)
(* A title stands for what it puts into the retrieval passages; the parse  *)
(* of one file always yields the same chunks; the embedding model does not *)
(* change.  Titles are otherwise the only thing a user edits.              *)
(***************************************************************************)
EXTENDS Outbox

CONSTANTS
    Upserts,     \* the jobs retrieval_upsert_document: no key, one per enqueue
    DeleteJob,   \* the job retrieval_delete_document of the document
    Passes,      \* the processes that execute ingestion passes
    Tasks,       \* Celery task ids; one that nothing refers to is fresh again
    NoTask,      \* task_id is NULL
    Titles,
    NoTitle,     \* no title; for entries, none published
    MaxFaults    \* bound: faults of the broker and of the passes

ASSUME KnowledgeJobs ==
    /\ Jobs = Upserts \cup {DeleteJob}
    /\ DeleteJob \notin Upserts
    /\ NoTask \notin Tasks
    /\ NoTitle \notin Titles
    /\ MaxFaults \in Nat

VARIABLES
    doc,      \* the row; its status is "absent" before and "removed" after
    chunks,   \* it has document_chunks
    entries,  \* the title its retrieval_entries were built with, if any
    sending,  \* the tasks committed as task_id whose message is not sent yet
    queued,   \* the tasks whose message no worker executes
    pass,     \* pass[p]: what p executes
    drain,    \* drain[w]: where the handler of worker w is, and its snapshot
    stale,    \* the sweep found the document and has not re-dispatched it
    faults

docVars == <<doc, chunks, entries>>
passVars == <<sending, queued, pass, stale, faults>>
vars == <<job, attempt, doc, chunks, entries, sending, queued, pass, drain,
          stale, faults>>

\* text: content_text is set; indexed: index_fingerprint is the current one.
DocRow == [status : {"absent", "processing", "ready", "failed", "removed"},
           deleted : BOOLEAN, task : Tasks \cup {NoTask},
           title : Titles \cup {NoTitle}, text : BOOLEAN, indexed : BOOLEAN]

Source == [title : Titles \cup {NoTitle}, task : Tasks \cup {NoTask},
           text : BOOLEAN]

\* title: the one the passages of the pass were built with.
Pass == [at : {"idle", "begun", "parsing", "embedded", "stored", "published",
               "unpublished", "queued"},
         task : Tasks \cup {NoTask}, source : Source, title : Titles \cup {NoTitle}]

Handler == [at : {"idle", "read", "marked", "failing"}, source : Source]

NoSource == [title |-> NoTitle, task |-> NoTask, text |-> FALSE]
NoPass == [at |-> "idle", task |-> NoTask, source |-> NoSource, title |-> NoTitle]
NoHandler == [at |-> "idle", source |-> NoSource]

TypeOK ==
    /\ OutboxTypeOK
    /\ doc \in DocRow
    /\ chunks \in BOOLEAN
    /\ entries \in Titles \cup {NoTitle}
    /\ sending \subseteq Tasks
    /\ queued \subseteq Tasks
    /\ pass \in [Passes -> Pass]
    /\ drain \in [Workers -> Handler]
    /\ stale \in BOOLEAN
    /\ faults \in 0..MaxFaults

Init ==
    /\ OutboxInit
    /\ doc = [status |-> "absent", deleted |-> FALSE, task |-> NoTask,
              title |-> NoTitle, text |-> FALSE, indexed |-> FALSE]
    /\ chunks = FALSE
    /\ entries = NoTitle
    /\ sending = {}
    /\ queued = {}
    /\ pass = [p \in Passes |-> NoPass]
    /\ drain = [w \in Workers |-> NoHandler]
    /\ stale = FALSE
    /\ faults = 0

-----------------------------------------------------------------------------
InDb == doc.status \notin {"absent", "removed"}

Indexable == InDb /\ ~doc.deleted

(* Mutant: the snapshot forgets which task it belongs to.                  *)
MutantSourceSnapshot == [title |-> doc.title, task |-> NoTask, text |-> doc.text]

(* What source_snapshot hashes; the status is not part of it.              *)
SourceSnapshot == [title |-> doc.title, task |-> doc.task, text |-> doc.text]

(* Mutant: a write only checks that the document is not deleted.           *)
MutantAnySource(source) == Indexable

(* The fence of every transaction that writes what was computed from a     *)
(* snapshot.                                                               *)
SameSource(source) == Indexable /\ SourceSnapshot = source

Fault ==
    /\ faults < MaxFaults
    /\ faults' = faults + 1

-----------------------------------------------------------------------------
(* The user and the dispatch of ingestion.                                 *)

(* Mutant: a document starts with a status the passes do not know.         *)
MutantCreateDocument(t) ==
    /\ doc.status = "absent"
    /\ doc' = [doc EXCEPT !.status = "pending", !.title = t]
    /\ UNCHANGED <<outboxVars, chunks, entries, passVars, drain>>

(* An upload becomes a document; its ingestion is dispatched afterwards.   *)
CreateDocument(t) ==
    /\ doc.status = "absent"
    /\ doc' = [doc EXCEPT !.status = "processing", !.title = t]
    /\ UNCHANGED <<outboxVars, chunks, entries, passVars, drain>>

Fresh(t) ==
    /\ t # doc.task
    /\ t \notin sending
    /\ t \notin queued
    /\ \A p \in Passes : pass[p].task # t
    /\ \A w \in Workers : drain[w].source.task # t

(* A new task_id is committed; the message goes to the broker after that.  *)
NewTask(t) ==
    /\ Fresh(t)
    /\ doc' = [doc EXCEPT !.task = t]
    /\ sending' = sending \cup {t}

(* The handler that created the document dispatches its ingestion, unless  *)
(* the sweep has done it.                                                  *)
EnqueueIngestion(t) ==
    /\ Indexable
    /\ doc.status = "processing"
    /\ doc.task = NoTask
    /\ NewTask(t)
    /\ UNCHANGED <<outboxVars, chunks, entries, queued, pass, drain, stale, faults>>

(* The sweep's query: a document that is still processing and has no       *)
(* chunks.  Its age is left open.                                          *)
SweepFinds ==
    /\ ~stale
    /\ Indexable
    /\ doc.status = "processing"
    /\ ~chunks
    /\ stale' = TRUE
    /\ UNCHANGED <<outboxVars, docVars, sending, queued, pass, drain, faults>>

(* It replaces the task in a transaction of its own, which looks at the    *)
(* row again, but not at the chunks.                                       *)
SweepRedispatches ==
    /\ stale
    /\ stale' = FALSE
    /\ IF Indexable /\ doc.status = "processing"
       THEN \E t \in Tasks : NewTask(t)
       ELSE UNCHANGED <<doc, sending>>
    /\ UNCHANGED <<outboxVars, chunks, entries, queued, pass, drain, faults>>

Send(t) ==
    /\ t \in sending
    /\ sending' = sending \ {t}
    /\ queued' = queued \cup {t}
    /\ UNCHANGED <<outboxVars, docVars, pass, drain, stale, faults>>

(* The broker refuses the message, or its answer is lost; the document     *)
(* fails unless it has moved on.                                           *)
SendFails(t) ==
    /\ Fault
    /\ t \in sending
    /\ sending' = sending \ {t}
    /\ queued' \in {queued, queued \cup {t}}
    /\ doc' = IF Indexable /\ doc.status = "processing" /\ doc.task = t
              THEN [doc EXCEPT !.status = "failed"] ELSE doc
    /\ UNCHANGED <<outboxVars, chunks, entries, pass, drain, stale>>

(* The sender dies before it sends, or the broker loses the message.       *)
LoseMessage ==
    /\ Fault
    /\ \/ /\ \E t \in sending : sending' = sending \ {t}
          /\ UNCHANGED queued
       \/ /\ \E t \in queued : queued' = queued \ {t}
          /\ UNCHANGED sending
    /\ UNCHANGED <<outboxVars, docVars, pass, drain, stale>>

(* A rename; the entries of a ready document are to be rebuilt.            *)
UpdateDocument(t) ==
    /\ Indexable
    /\ t # doc.title
    /\ doc' = [doc EXCEPT !.title = t]
    /\ IF doc.status = "ready"
       THEN \E j \in Upserts : job[j].status = "absent" /\ job' = Enqueued(j)
       ELSE UNCHANGED job
    /\ UNCHANGED <<attempt, chunks, entries, passVars, drain>>

(* The document is deleted with its chunks; entries go with their chunks.  *)
HardDelete ==
    /\ InDb
    /\ doc' = [doc EXCEPT !.status = "removed"]
    /\ chunks' = FALSE
    /\ entries' = NoTitle
    /\ job' = Enqueued(DeleteJob)
    /\ UNCHANGED <<attempt, passVars, drain>>

(* Its file is deleted for good: the row stays as a tombstone.             *)
DeleteFile ==
    /\ Indexable
    /\ doc' = [doc EXCEPT !.status = "failed", !.deleted = TRUE,
                          !.task = NoTask, !.text = FALSE]
    /\ chunks' = FALSE
    /\ entries' = NoTitle
    /\ job' = Enqueued(DeleteJob)
    /\ UNCHANGED <<attempt, passVars, drain>>

-----------------------------------------------------------------------------
(* An ingestion pass (execute_ingestion and _persist_nodes).               *)

(* The message is taken, and acknowledged when the pass ends.  A document  *)
(* that is gone, settled or has another task is left alone.                *)
BeginPass(p, t) ==
    /\ pass[p].at = "idle"
    /\ t \in queued
    /\ queued' = queued \ {t}
    /\ pass' = IF /\ Indexable
                  /\ doc.status \in {"processing", "failed"}
                  /\ doc.task \in {NoTask, t}
               THEN [pass EXCEPT ![p] = [at |-> "begun", task |-> t,
                       source |-> SourceSnapshot, title |-> NoTitle]]
               ELSE pass
    /\ UNCHANGED <<outboxVars, docVars, sending, drain, stale, faults>>

(* The file is downloaded and the source is still the same: parse it.      *)
Recheck(p) ==
    /\ pass[p].at = "begun"
    /\ SameSource(pass[p].source)
    /\ pass' = [pass EXCEPT ![p].at = "parsing"]
    /\ UNCHANGED <<outboxVars, docVars, sending, queued, drain, stale, faults>>

(* The title of the passages is read by itself, and not checked.           *)
LoadTitle(p) ==
    /\ pass[p].at = "parsing"
    /\ pass' = [pass EXCEPT ![p].at = "embedded",
                            ![p].title = IF InDb THEN doc.title ELSE NoTitle]
    /\ UNCHANGED <<outboxVars, docVars, sending, queued, drain, stale, faults>>

(* The chunks are replaced; published entries go with the old ones.        *)
WriteChunks(p) ==
    /\ pass[p].at = "embedded"
    /\ SameSource(pass[p].source)
    /\ chunks' = TRUE
    /\ entries' = NoTitle
    /\ pass' = [pass EXCEPT ![p].at = "stored"]
    /\ UNCHANGED <<outboxVars, doc, sending, queued, drain, stale, faults>>

(* The document's entries are replaced.                                    *)
Replace(title) ==
    /\ chunks
    /\ entries' = title
    /\ doc' = [doc EXCEPT !.indexed = TRUE]

PublishByPass(p) ==
    /\ pass[p].at = "stored"
    /\ SameSource(pass[p].source)
    /\ Replace(pass[p].title)
    /\ pass' = [pass EXCEPT ![p].at = "published"]
    /\ UNCHANGED <<outboxVars, chunks, sending, queued, drain, stale, faults>>

(* The index cannot be written: an outbox job is to do it, enqueued in a   *)
(* transaction of its own that does not look at the document.              *)
PublishFails(p) ==
    /\ pass[p].at = "stored"
    /\ pass' = [pass EXCEPT ![p].at = "unpublished"]
    /\ UNCHANGED <<outboxVars, docVars, sending, queued, drain, stale, faults>>

EnqueueUpsert(p) ==
    /\ pass[p].at = "unpublished"
    /\ \E j \in Upserts : job[j].status = "absent" /\ job' = Enqueued(j)
    /\ pass' = [pass EXCEPT ![p].at = "queued"]
    /\ UNCHANGED <<attempt, docVars, sending, queued, drain, stale, faults>>

(* finish("ready" or "processing"): whatever the status is by now.         *)
FinishPass(p) ==
    /\ pass[p].at \in {"published", "queued"}
    /\ SameSource(pass[p].source)
    /\ doc' = [doc EXCEPT !.text = TRUE,
                          !.status = IF pass[p].at = "published"
                                     THEN "ready" ELSE "processing"]
    /\ pass' = [pass EXCEPT ![p] = NoPass]
    /\ UNCHANGED <<outboxVars, chunks, entries, sending, queued, drain, stale, faults>>

(* IndexSourceChanged: the pass ends and writes nothing.                   *)
Superseded(p) ==
    /\ pass[p].at # "idle"
    /\ ~SameSource(pass[p].source)
    /\ pass' = [pass EXCEPT ![p] = NoPass]
    /\ UNCHANGED <<outboxVars, docVars, sending, queued, drain, stale, faults>>

(* Any other exception.  A transient one is retried while the task has     *)
(* retries left, a number that is left open.                               *)
PassFails(p, retried) ==
    /\ pass[p].at # "idle"
    /\ SameSource(pass[p].source)
    /\ doc' = [doc EXCEPT !.status = IF retried THEN "processing" ELSE "failed"]
    /\ queued' = IF retried THEN queued \cup {pass[p].task} ELSE queued
    /\ pass' = [pass EXCEPT ![p] = NoPass]
    /\ UNCHANGED <<outboxVars, chunks, entries, sending, drain, stale, faults>>

(* The same, but the failure cannot be recorded either.                    *)
PassFailsSilently(p, retried) ==
    /\ Fault
    /\ pass[p].at # "idle"
    /\ queued' = IF retried THEN queued \cup {pass[p].task} ELSE queued
    /\ pass' = [pass EXCEPT ![p] = NoPass]
    /\ UNCHANGED <<outboxVars, docVars, sending, drain, stale>>

(* The worker dies: its message was not acknowledged and is delivered      *)
(* again.                                                                  *)
CrashPass(p) ==
    /\ Fault
    /\ pass[p].at # "idle"
    /\ queued' = queued \cup {pass[p].task}
    /\ pass' = [pass EXCEPT ![p] = NoPass]
    /\ UNCHANGED <<outboxVars, docVars, sending, drain, stale>>

-----------------------------------------------------------------------------
(* The handlers of the outbox jobs.                                        *)

Runs(w, jobs) == attempt[w].job \in jobs

LastAttempt(w) == attempt[w].attempts + 1 >= MaxAttempts

(* handle_retrieval_upsert reads source and chunks.  A deleted document    *)
(* counts as done, one without chunks is an error.                         *)
ReadSource(w) ==
    /\ Runs(w, Upserts)
    /\ drain[w].at = "idle"
    /\ Indexable
    /\ chunks
    /\ drain' = [drain EXCEPT ![w] = [at |-> "read", source |-> SourceSnapshot]]
    /\ UNCHANGED <<outboxVars, docVars, passVars>>

FindDeleted(w) ==
    /\ Runs(w, Upserts)
    /\ drain[w].at = "idle"
    /\ ~Indexable
    /\ CallHandler(w)
    /\ drain' = [drain EXCEPT ![w].at = "read"]
    /\ UNCHANGED <<docVars, passVars>>

(* It publishes what it embedded if the source is still the same.          *)
PublishByDrain(w) ==
    /\ Runs(w, Upserts)
    /\ drain[w].at = "read"
    /\ SameSource(drain[w].source)
    /\ CallHandler(w)
    /\ Replace(drain[w].source.title)
    /\ UNCHANGED <<chunks, passVars, drain>>

(* Mutant: any document that has been indexed is ready.                    *)
MutantMarkReady(w) ==
    /\ Runs(w, Upserts)
    /\ attempt[w].called
    /\ drain[w].at = "read"
    /\ doc' = IF InDb /\ doc.indexed THEN [doc EXCEPT !.status = "ready"] ELSE doc
    /\ drain' = [drain EXCEPT ![w].at = "marked"]
    /\ UNCHANGED <<outboxVars, chunks, entries, passVars>>

(* mark_document_indexed_ready, in a transaction after the publication.    *)
MarkReady(w) ==
    /\ Runs(w, Upserts)
    /\ attempt[w].called
    /\ drain[w].at = "read"
    /\ doc' = IF doc.status = "processing" /\ doc.indexed
              THEN [doc EXCEPT !.status = "ready"] ELSE doc
    /\ drain' = [drain EXCEPT ![w].at = "marked"]
    /\ UNCHANGED <<outboxVars, chunks, entries, passVars>>

(* The last attempt raised: mark_document_index_failed, and then the       *)
(* settlement.                                                             *)
MarkFailed(w) ==
    /\ Runs(w, Upserts)
    /\ ~attempt[w].called
    /\ drain[w].at \in {"idle", "read"}
    /\ LastAttempt(w)
    /\ doc' = IF doc.status = "processing"
              THEN [doc EXCEPT !.status = "failed"] ELSE doc
    /\ drain' = [drain EXCEPT ![w].at = "failing"]
    /\ UNCHANGED <<outboxVars, chunks, entries, passVars>>

(* handle_retrieval_delete.                                                *)
DeleteEntries(w) ==
    /\ Runs(w, {DeleteJob})
    /\ CallHandler(w)
    /\ entries' = NoTitle
    /\ UNCHANGED <<doc, chunks, passVars, drain>>

(* The handler returned, or raised; past its read, the last failure is     *)
(* marked first.                                                           *)
HandlerReturns(w) ==
    /\ Runs(w, Upserts) => drain[w].at = "marked"
    /\ SettleSuccess(w)
    /\ drain' = [drain EXCEPT ![w] = NoHandler]
    /\ UNCHANGED <<docVars, passVars>>

HandlerRaises(w) ==
    /\ drain[w].at = "read" /\ LastAttempt(w) => attempt[w].called
    /\ SettleFailure(w)
    /\ drain' = [drain EXCEPT ![w] = NoHandler]
    /\ UNCHANGED <<docVars, passVars>>

CrashDrain(w) ==
    /\ Crash(w)
    /\ drain' = [drain EXCEPT ![w] = NoHandler]
    /\ UNCHANGED <<docVars, passVars>>

(* The steps of the outbox that leave the document alone.                  *)
LeaveDocument ==
    /\ \/ \E w \in Workers : \/ \E j \in Jobs : BuryAtClaim(w, j) \/ Claim(w, j)
                             \/ RenewLease(w)
       \/ \E j \in Jobs : BackoffElapses(j) \/ LeaseAges(j)
    /\ UNCHANGED <<docVars, passVars, drain>>

-----------------------------------------------------------------------------
UserStep ==
    \/ \E t \in Titles : CreateDocument(t) \/ UpdateDocument(t)
    \/ HardDelete
    \/ DeleteFile

DispatchStep ==
    \/ \E t \in Tasks : EnqueueIngestion(t) \/ Send(t) \/ SendFails(t)
    \/ SweepFinds
    \/ SweepRedispatches
    \/ LoseMessage

PassStep(p) ==
    \/ \E t \in Tasks : BeginPass(p, t)
    \/ Recheck(p)
    \/ LoadTitle(p)
    \/ WriteChunks(p)
    \/ PublishByPass(p)
    \/ PublishFails(p)
    \/ EnqueueUpsert(p)
    \/ FinishPass(p)
    \/ Superseded(p)
    \/ \E retried \in BOOLEAN :
         PassFails(p, retried) \/ PassFailsSilently(p, retried)
    \/ CrashPass(p)

DrainStep(w) ==
    \/ ReadSource(w)
    \/ FindDeleted(w)
    \/ PublishByDrain(w)
    \/ MarkReady(w)
    \/ MarkFailed(w)
    \/ DeleteEntries(w)
    \/ HandlerReturns(w)
    \/ HandlerRaises(w)
    \/ CrashDrain(w)

Next ==
    \/ UserStep
    \/ DispatchStep
    \/ \E p \in Passes : PassStep(p)
    \/ \E w \in Workers : DrainStep(w)
    \/ LeaveDocument

Spec == Init /\ [][Next]_vars

-----------------------------------------------------------------------------
(* A deleted document stays empty: no late pass, late embedding, index     *)
(* repair or refused message gives it chunks, entries or a live status     *)
(* again.                                                                  *)
DeletedStaysEmpty ==
    doc.deleted \/ doc.status = "removed" =>
      /\ ~chunks
      /\ entries = NoTitle
      /\ doc.status \in {"failed", "removed"}

(* A pass whose task was replaced or revoked - by the sweep, or because    *)
(* the file was deleted - writes neither row, chunks nor entries.          *)
ReplacedPassIsSilent ==
    [][\A p \in Passes :
         /\ pass[p].at # "idle"
         /\ pass[p].task # doc.task
         /\ pass'[p] # pass[p]
         => UNCHANGED docVars]_vars

(* As long as no title comes back, what is published carries the title the *)
(* document has at that moment, however long its embedding took.           *)
PublishesCurrentTitle ==
    [][entries' \notin {entries, NoTitle} => entries' = doc.title]_vars

(* maintenance.py:1-2 calls its sweeps "the terminal-state guarantee of    *)
(* last resort for rows nothing else re-examines", and write_chunks says   *)
(* that a failed publication leaves a durable outbox retry: a document     *)
(* that is processing and has chunks, which the sweep passes over, is      *)
(* waited for by a pass, a message or an index job.                        *)
ProcessingIsPursued ==
    doc.status = "processing" /\ chunks =>
      \/ stale
      \/ doc.task \in sending
      \/ doc.task \in queued
      \/ \E p \in Passes : pass[p].at # "idle" /\ pass[p].task = doc.task
      \/ \E j \in Upserts : job[j].status \notin {"absent", "succeeded", "dead"}
=============================================================================
