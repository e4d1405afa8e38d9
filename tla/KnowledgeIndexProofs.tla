------------------------ MODULE KnowledgeIndexProofs ------------------------
(* Proofs about the index of a document, for any titles, tasks, passes,    *)
(* drains and faults.                                                      *)
EXTENDS KnowledgeIndex, OutboxProofs

(* Before its first dispatch a document has no message and no pass, which  *)
(* is why a task that finds task_id empty cannot write.                    *)
UndispatchedIsQuiet ==
    ~doc.deleted /\ doc.task = NoTask =>
      /\ sending = {}
      /\ queued = {}
      /\ \A p \in Passes : pass[p].at = "idle"

(* The snapshot of a pass was taken while its task was the document's.     *)
SnapshotHasTask ==
    \A p \in Passes :
        pass[p].at # "idle" => /\ pass[p].task \in Tasks
                               /\ pass[p].source.task = pass[p].task

IndexInv ==
    /\ OutboxInv
    /\ TypeOK
    /\ DeletedStaysEmpty
    /\ UndispatchedIsQuiet
    /\ SnapshotHasTask

(* What has to be shown of a step besides the outbox's own invariant.      *)
Kept ==
    /\ doc' \in DocRow
    /\ chunks' \in BOOLEAN
    /\ entries' \in Titles \cup {NoTitle}
    /\ sending' \subseteq Tasks
    /\ queued' \subseteq Tasks
    /\ pass' \in [Passes -> Pass]
    /\ drain' \in [Workers -> Handler]
    /\ stale' \in BOOLEAN
    /\ faults' \in 0..MaxFaults
    /\ DeletedStaysEmpty'
    /\ UndispatchedIsQuiet'
    /\ SnapshotHasTask'

-----------------------------------------------------------------------------
(* Every step of the document is a step of the outbox, or none of it.      *)
LEMMA IndexStepIsOutboxStep ==
    ASSUME OutboxTypeOK, [Next]_vars
    PROVE  [OutboxNext]_outboxVars
  <1>0. DeleteJob \in Jobs /\ Upserts \subseteq Jobs
    BY KnowledgeJobs
  <1>1. CASE UserStep
    <2>1. CASE \E t \in Titles : CreateDocument(t)
      BY <2>1 DEF CreateDocument, outboxVars
    <2>2. CASE \E t \in Titles : UpdateDocument(t)
      <3>1. \/ UNCHANGED outboxVars
            \/ \E j \in Upserts : job' = Enqueued(j) /\ UNCHANGED attempt
        BY <2>2 DEF UpdateDocument, outboxVars
      <3> QED  BY <1>0, <3>1, EnqueuedIsOutboxStep
    <2>3. CASE HardDelete \/ DeleteFile
      BY <1>0, <2>3, EnqueuedIsOutboxStep DEF HardDelete, DeleteFile
    <2> QED  BY <1>1, <2>1, <2>2, <2>3 DEF UserStep
  <1>2. CASE DispatchStep
    BY <1>2 DEF DispatchStep, EnqueueIngestion, Send, SendFails, SweepFinds,
                SweepRedispatches, LoseMessage, outboxVars
  <1>3. ASSUME NEW p \in Passes, PassStep(p)
        PROVE  [OutboxNext]_outboxVars
    <2>1. CASE EnqueueUpsert(p)
      <3>1. \E j \in Upserts : job' = Enqueued(j) /\ UNCHANGED attempt
        BY <2>1 DEF EnqueueUpsert
      <3> QED  BY <1>0, <3>1, EnqueuedIsOutboxStep
    <2>2. CASE ~EnqueueUpsert(p)
      BY <1>3, <2>2 DEF PassStep, BeginPass, Recheck, LoadTitle, WriteChunks,
           PublishByPass, PublishFails, FinishPass, Superseded, PassFails,
           PassFailsSilently, CrashPass, outboxVars
    <2> QED  BY <2>1, <2>2
  <1>4. ASSUME NEW w \in Workers, DrainStep(w)
        PROVE  [OutboxNext]_outboxVars
    <2>1. \/ UNCHANGED outboxVars
          \/ CallHandler(w) \/ SettleSuccess(w) \/ SettleFailure(w) \/ Crash(w)
      BY <1>4 DEF DrainStep, ReadSource, FindDeleted, PublishByDrain, MarkReady,
           MarkFailed, DeleteEntries, HandlerReturns, HandlerRaises, CrashDrain
    <2> QED  BY <2>1 DEF OutboxNext, Drain
  <1>5. CASE LeaveDocument
    BY <1>5 DEF LeaveDocument, OutboxNext, Drain
  <1>6. CASE UNCHANGED vars
    BY <1>6 DEF vars, outboxVars
  <1> QED  BY <1>1, <1>2, <1>3, <1>4, <1>5, <1>6 DEF Next

-----------------------------------------------------------------------------
(* The user's steps keep the invariant.                                    *)
LEMMA UserIsSafe ==
    ASSUME IndexInv, UserStep
    PROVE  Kept
  <1>1. ASSUME NEW t \in Titles, CreateDocument(t)
        PROVE  Kept
    BY <1>1 DEF IndexInv, TypeOK, Kept, DocRow, CreateDocument, passVars,
         DeletedStaysEmpty, UndispatchedIsQuiet, SnapshotHasTask
  <1>2. ASSUME NEW t \in Titles, UpdateDocument(t)
        PROVE  Kept
    <2>1. /\ doc' = [doc EXCEPT !.title = t]
          /\ UNCHANGED <<chunks, entries, passVars, drain>>
      BY <1>2 DEF UpdateDocument
    <2> QED  BY <2>1 DEF IndexInv, TypeOK, Kept, DocRow, passVars,
         DeletedStaysEmpty, UndispatchedIsQuiet, SnapshotHasTask
  <1>3. CASE HardDelete
    BY <1>3 DEF IndexInv, TypeOK, Kept, DocRow, HardDelete, passVars,
         DeletedStaysEmpty, UndispatchedIsQuiet, SnapshotHasTask
  <1>4. CASE DeleteFile
    BY <1>4 DEF IndexInv, TypeOK, Kept, DocRow, DeleteFile, passVars,
         DeletedStaysEmpty, UndispatchedIsQuiet, SnapshotHasTask
  <1> QED  BY <1>1, <1>2, <1>3, <1>4 DEF UserStep

(* So do those that dispatch an ingestion.                                 *)
LEMMA DispatchIsSafe ==
    ASSUME IndexInv, DispatchStep
    PROVE  Kept
  <1>1. ASSUME NEW t \in Tasks, Indexable, NewTask(t),
               UNCHANGED <<chunks, entries, queued, pass, drain, faults>>,
               stale' \in BOOLEAN
        PROVE  Kept
    BY <1>1, KnowledgeJobs DEF IndexInv, TypeOK, Kept, DocRow, NewTask, Fresh, Indexable,
         InDb, DeletedStaysEmpty, UndispatchedIsQuiet, SnapshotHasTask
  <1>2. ASSUME NEW t \in Tasks, EnqueueIngestion(t)
        PROVE  Kept
    BY <1>1, <1>2 DEF EnqueueIngestion, IndexInv, TypeOK
  <1>3. CASE SweepFinds
    BY <1>3 DEF IndexInv, TypeOK, Kept, SweepFinds, docVars,
         DeletedStaysEmpty, UndispatchedIsQuiet, SnapshotHasTask
  <1>4. CASE SweepRedispatches
    <2>1. CASE Indexable /\ doc.status = "processing"
      BY <1>1, <1>4, <2>1 DEF SweepRedispatches
    <2>2. CASE ~(Indexable /\ doc.status = "processing")
      BY <1>4, <2>2 DEF IndexInv, TypeOK, Kept, SweepRedispatches,
           DeletedStaysEmpty, UndispatchedIsQuiet, SnapshotHasTask
    <2> QED  BY <2>1, <2>2
  <1>5. ASSUME NEW t \in Tasks, Send(t)
        PROVE  Kept
    BY <1>5 DEF IndexInv, TypeOK, Kept, Send, docVars,
         DeletedStaysEmpty, UndispatchedIsQuiet, SnapshotHasTask
  <1>6. ASSUME NEW t \in Tasks, SendFails(t)
        PROVE  Kept
    <2>1. faults' \in 0..MaxFaults
      BY <1>6, KnowledgeJobs DEF IndexInv, TypeOK, SendFails, Fault
    <2>2. \/ doc' = doc
          \/ Indexable /\ doc' = [doc EXCEPT !.status = "failed"]
      BY <1>6 DEF SendFails
    <2>3. /\ t \in sending
          /\ sending' \subseteq sending
          /\ queued' \subseteq queued \cup {t}
          /\ UNCHANGED <<chunks, entries, pass, drain, stale>>
      BY <1>6 DEF SendFails
    <2> QED  BY <2>1, <2>2, <2>3 DEF IndexInv, TypeOK, Kept, DocRow, Indexable, InDb,
         DeletedStaysEmpty, UndispatchedIsQuiet, SnapshotHasTask
  <1>7. CASE LoseMessage
    <2>1. faults' \in 0..MaxFaults
      BY <1>7, KnowledgeJobs DEF IndexInv, TypeOK, LoseMessage, Fault
    <2>2. /\ sending' \subseteq sending
          /\ queued' \subseteq queued
          /\ UNCHANGED <<docVars, pass, drain, stale>>
      BY <1>7 DEF LoseMessage
    <2> QED  BY <2>1, <2>2 DEF IndexInv, TypeOK, Kept, docVars,
         DeletedStaysEmpty, UndispatchedIsQuiet, SnapshotHasTask
  <1> QED  BY <1>2, <1>3, <1>4, <1>5, <1>6, <1>7 DEF DispatchStep

(* So do the passes: what they write, they write behind the fence.         *)
LEMMA PassIsSafe ==
    ASSUME IndexInv, NEW p \in Passes, PassStep(p)
    PROVE  Kept
  <1> USE DEF IndexInv, TypeOK, DeletedStaysEmpty, UndispatchedIsQuiet, SnapshotHasTask
  <1>0. /\ NoPass \in Pass
        /\ SourceSnapshot \in Source
        /\ pass[p] \in Pass
    BY KnowledgeJobs DEF NoPass, NoSource, Pass, Source, SourceSnapshot, DocRow
  <1>1. ASSUME NEW t \in Tasks, BeginPass(p, t)
        PROVE  Kept
    <2>1. /\ t \in queued
          /\ queued' \subseteq queued
          /\ UNCHANGED <<docVars, sending, drain, stale, faults>>
      BY <1>1 DEF BeginPass
    <2>2. CASE pass' = pass
      BY <2>1, <2>2 DEF Kept, docVars
    <2>3. CASE pass' # pass
      <3> DEFINE begun == [at |-> "begun", task |-> t, source |-> SourceSnapshot,
                           title |-> NoTitle]
      <3>1. /\ ~doc.deleted
            /\ doc.task \in {NoTask, t}
            /\ pass' = [pass EXCEPT ![p] = begun]
        BY <1>1, <2>3 DEF BeginPass, Indexable
      <3>2. doc.task = t
        BY <2>1, <3>1
      <3>3. begun \in Pass /\ begun.task \in Tasks /\ begun.source.task = begun.task
        BY <1>0, <3>2 DEF Pass, SourceSnapshot
      <3> HIDE DEF begun
      <3>4. /\ pass' \in [Passes -> Pass]
            /\ \A q \in Passes : pass'[q].at # "idle" =>
                 pass'[q].task \in Tasks /\ pass'[q].source.task = pass'[q].task
        BY <3>1, <3>3
      <3>5. UndispatchedIsQuiet'
        BY <2>1, <3>2, KnowledgeJobs DEF docVars
      <3> QED  BY <2>1, <3>4, <3>5 DEF Kept, docVars
    <2> QED  BY <2>2, <2>3
  <1>2. ASSUME pass[p].at # "idle", UNCHANGED <<docVars, sending, queued, drain, stale, faults>>,
               pass'[p] \in Pass, pass' = [pass EXCEPT ![p] = pass'[p]],
               pass'[p].task = pass[p].task, pass'[p].source = pass[p].source
        PROVE  Kept
    BY <1>2 DEF Kept, docVars
  <1>3. CASE Recheck(p) \/ PublishFails(p) \/ LoadTitle(p)
    <2>1. PICK at \in {"parsing", "unpublished", "embedded"}, title \in Titles \cup {NoTitle} :
            pass' = [pass EXCEPT ![p].at = at, ![p].title = title]
      <3>1. pass[p].title \in Titles \cup {NoTitle} /\ doc.title \in Titles \cup {NoTitle}
        BY <1>0 DEF Pass, DocRow
      <3>2. CASE Recheck(p)
        <4>1. pass' = [pass EXCEPT ![p].at = "parsing", ![p].title = pass[p].title]
          BY <3>2, <1>0 DEF Recheck, Pass
        <4> QED  BY <3>1, <4>1
      <3>3. CASE PublishFails(p)
        <4>1. pass' = [pass EXCEPT ![p].at = "unpublished", ![p].title = pass[p].title]
          BY <3>3, <1>0 DEF PublishFails, Pass
        <4> QED  BY <3>1, <4>1
      <3>4. CASE LoadTitle(p)
        BY <3>1, <3>4 DEF LoadTitle
      <3> QED  BY <1>3, <3>2, <3>3, <3>4
    <2>2. /\ pass'[p] \in Pass
          /\ pass' = [pass EXCEPT ![p] = pass'[p]]
          /\ pass'[p].task = pass[p].task
          /\ pass'[p].source = pass[p].source
      BY <1>0, <2>1 DEF Pass
    <2>3. pass[p].at # "idle" /\ UNCHANGED <<docVars, sending, queued, drain, stale, faults>>
      BY <1>3 DEF Recheck, PublishFails, LoadTitle
    <2> QED  BY <1>2, <2>2, <2>3
  <1>4. CASE EnqueueUpsert(p)
    <2>1. pass' = [pass EXCEPT ![p].at = "queued"]
      BY <1>4 DEF EnqueueUpsert
    <2>2. /\ pass'[p] \in Pass
          /\ pass' = [pass EXCEPT ![p] = pass'[p]]
          /\ pass'[p].task = pass[p].task
          /\ pass'[p].source = pass[p].source
      BY <1>0, <2>1 DEF Pass
    <2> QED  BY <1>2, <1>4, <2>2 DEF EnqueueUpsert
  <1>5. CASE WriteChunks(p) \/ PublishByPass(p)
    <2>1. PICK at \in {"stored", "published"} : pass' = [pass EXCEPT ![p].at = at]
      BY <1>5 DEF WriteChunks, PublishByPass
    <2>2. /\ pass' \in [Passes -> Pass]
          /\ \A q \in Passes : pass'[q].at # "idle" =>
                 pass'[q].task \in Tasks /\ pass'[q].source.task = pass'[q].task
      BY <1>0, <1>5, <2>1 DEF Pass, WriteChunks, PublishByPass
    <2>3. /\ pass[p].at # "idle"
          /\ Indexable
          /\ \/ doc' = doc
             \/ doc' = [doc EXCEPT !.indexed = TRUE]
          /\ chunks' \in BOOLEAN
          /\ entries' \in Titles \cup {NoTitle}
          /\ UNCHANGED <<sending, queued, drain, stale, faults>>
      BY <1>0, <1>5 DEF WriteChunks, PublishByPass, SameSource, Replace, Pass
    <2> QED  BY <2>2, <2>3 DEF Kept, DocRow, Indexable, InDb
  <1>6. ASSUME pass' = [pass EXCEPT ![p] = NoPass], queued' \subseteq queued \cup {pass[p].task},
               pass[p].at # "idle", faults' \in 0..MaxFaults,
               UNCHANGED <<sending, drain, stale, chunks, entries>>,
               \/ doc' = doc
               \/ /\ Indexable
                  /\ \E status \in {"processing", "ready", "failed"}, text \in BOOLEAN :
                       doc' = [doc EXCEPT !.status = status, !.text = text]
        PROVE  Kept
    <2>1. /\ pass' \in [Passes -> Pass]
          /\ \A q \in Passes : pass'[q].at # "idle" =>
               /\ pass[q].at # "idle"
               /\ pass'[q].task \in Tasks
               /\ pass'[q].source.task = pass'[q].task
      BY <1>0, <1>6 DEF NoPass
    <2>2. CASE doc' = doc
      <3>1. pass[p].task \in Tasks
        BY <1>6
      <3>2. ~doc.deleted /\ doc.task = NoTask => FALSE
        BY <1>6
      <3> QED  BY <1>6, <2>1, <2>2, <3>1, <3>2 DEF Kept
    <2>3. CASE doc' # doc
      <3>1. PICK status \in {"processing", "ready", "failed"}, text \in BOOLEAN :
              doc' = [doc EXCEPT !.status = status, !.text = text]
        BY <1>6, <2>3
      <3>2. Indexable
        BY <1>6, <2>3
      <3>3. /\ doc' \in DocRow
            /\ ~doc'.deleted
            /\ doc'.status \notin {"absent", "removed"}
            /\ doc'.task = doc.task
        BY <3>1, <3>2 DEF DocRow, Indexable, InDb
      <3> QED  BY <1>6, <2>1, <3>2, <3>3 DEF Kept, Indexable
    <2> QED  BY <2>2, <2>3
  <1>7. ASSUME NEW retried \in BOOLEAN, PassFails(p, retried)
        PROVE  Kept
    <2>1. Indexable /\ doc.text \in BOOLEAN
      BY <1>7 DEF PassFails, SameSource, DocRow
    <2>2. PICK status \in {"processing", "failed"} : doc' = [doc EXCEPT !.status = status]
      BY <1>7 DEF PassFails
    <2>3. doc' = [doc EXCEPT !.status = status, !.text = doc.text]
      BY <2>2 DEF DocRow
    <2>4. /\ pass' = [pass EXCEPT ![p] = NoPass]
          /\ queued' \subseteq queued \cup {pass[p].task}
          /\ pass[p].at # "idle"
          /\ UNCHANGED <<sending, drain, stale, chunks, entries, faults>>
      BY <1>7 DEF PassFails
    <2> QED  BY <1>6, <2>1, <2>3, <2>4
  <1>8. CASE FinishPass(p)
    <2>1. PICK status \in {"processing", "ready"} :
            doc' = [doc EXCEPT !.text = TRUE, !.status = status]
      BY <1>8 DEF FinishPass
    <2>2. doc' = [doc EXCEPT !.status = status, !.text = TRUE]
      BY <2>1 DEF DocRow
    <2> QED  BY <1>6, <1>8, <2>2 DEF FinishPass, SameSource
  <1>9. ASSUME NEW retried \in BOOLEAN,
               Superseded(p) \/ PassFailsSilently(p, retried) \/ CrashPass(p)
        PROVE  Kept
    <2>1. faults' \in 0..MaxFaults
      BY <1>9, KnowledgeJobs DEF Superseded, PassFailsSilently, CrashPass, Fault
    <2> QED  BY <1>6, <1>9, <2>1 DEF Superseded, PassFailsSilently, CrashPass, docVars
  <1> QED  BY <1>1, <1>3, <1>4, <1>5, <1>7, <1>8, <1>9 DEF PassStep

(* So do the handlers of the index jobs, whoever holds the lease by then.  *)
LEMMA DrainIsSafe ==
    ASSUME IndexInv, NEW w \in Workers, DrainStep(w)
    PROVE  Kept
  <1> USE DEF IndexInv, TypeOK, DeletedStaysEmpty, UndispatchedIsQuiet, SnapshotHasTask
  <1>0. /\ NoHandler \in Handler
        /\ SourceSnapshot \in Source
        /\ drain[w] \in Handler
    BY DEF NoHandler, NoSource, Handler, Source, SourceSnapshot, DocRow
  <1>1. drain' \in [Workers -> Handler]
    <2>1. \/ drain' = drain
          \/ drain' = [drain EXCEPT ![w] = NoHandler]
          \/ drain' = [drain EXCEPT ![w] = [at |-> "read", source |-> SourceSnapshot]]
          \/ \E at \in {"read", "marked", "failing"} : drain' = [drain EXCEPT ![w].at = at]
      BY DEF DrainStep, ReadSource, FindDeleted, PublishByDrain, MarkReady, MarkFailed,
             DeleteEntries, HandlerReturns, HandlerRaises, CrashDrain
    <2>2. [at |-> "read", source |-> SourceSnapshot] \in Handler
      BY <1>0 DEF Handler
    <2>3. ASSUME NEW at \in {"read", "marked", "failing"},
                 drain' = [drain EXCEPT ![w].at = at]
          PROVE  drain' \in [Workers -> Handler]
      BY <1>0, <2>3 DEF Handler
    <2> QED  BY <1>0, <2>1, <2>2, <2>3
  <1>2. UNCHANGED passVars
    BY DEF DrainStep, ReadSource, FindDeleted, PublishByDrain, MarkReady, MarkFailed,
           DeleteEntries, HandlerReturns, HandlerRaises, CrashDrain
  <1>3. \/ UNCHANGED docVars
        \/ /\ UNCHANGED <<doc, chunks>>
           /\ entries' = NoTitle
        \/ /\ Indexable
           /\ doc' = [doc EXCEPT !.indexed = TRUE]
           /\ chunks' = chunks
           /\ entries' \in Titles \cup {NoTitle}
        \/ /\ doc.status = "processing"
           /\ \E status \in {"ready", "failed"} : doc' = [doc EXCEPT !.status = status]
           /\ UNCHANGED <<chunks, entries>>
    <2>1. CASE PublishByDrain(w)
      <3>1. drain[w].source.title \in Titles \cup {NoTitle}
        BY <1>0 DEF Handler, Source
      <3> QED  BY <2>1, <3>1 DEF PublishByDrain, SameSource, Replace
    <2>2. CASE MarkReady(w) \/ MarkFailed(w)
      BY <2>2 DEF MarkReady, MarkFailed, docVars
    <2>3. CASE DeleteEntries(w)
      BY <2>3 DEF DeleteEntries
    <2>4. CASE \/ ReadSource(w) \/ FindDeleted(w) \/ HandlerReturns(w)
               \/ HandlerRaises(w) \/ CrashDrain(w)
      BY <2>4 DEF ReadSource, FindDeleted, HandlerReturns, HandlerRaises, CrashDrain
    <2> QED  BY <2>1, <2>2, <2>3, <2>4 DEF DrainStep
  <1>4. /\ doc' \in DocRow
        /\ doc'.task = doc.task
        /\ doc'.deleted = doc.deleted
        /\ doc'.status = "removed" <=> doc.status = "removed"
        /\ doc.deleted => doc' = doc
    BY <1>3 DEF DocRow, docVars, Indexable
  <1>5. /\ chunks' = chunks
        /\ entries' \in Titles \cup {NoTitle}
        /\ doc.deleted \/ doc.status = "removed" => entries' \in {entries, NoTitle}
    BY <1>3 DEF docVars, Indexable, InDb
  <1>6. DeletedStaysEmpty'
    BY <1>4, <1>5
  <1>7. UNCHANGED <<sending, queued, pass, stale, faults>>
    BY <1>2 DEF passVars
  <1>8. UndispatchedIsQuiet' /\ SnapshotHasTask'
    BY <1>4, <1>7
  <1> QED  BY <1>1, <1>4, <1>5, <1>6, <1>7, <1>8 DEF Kept

-----------------------------------------------------------------------------
(* One step keeps the invariant.                                           *)
THEOREM IndexStepIsSafe ==
    ASSUME IndexInv, [Next]_vars
    PROVE  IndexInv'
  <1>1. OutboxInv'
    <2>1. OutboxTypeOK
      BY DEF IndexInv, TypeOK
    <2> QED  BY <2>1, IndexStepIsOutboxStep, OutboxStepIsSafe DEF OutboxStep, IndexInv
  <1>2. Kept
    <2>1. CASE LeaveDocument \/ UNCHANGED vars
      <3>1. UNCHANGED <<docVars, passVars, drain>>
        BY <2>1 DEF LeaveDocument, vars, docVars, passVars
      <3> QED  BY <3>1 DEF Kept, IndexInv, TypeOK, docVars, passVars,
           DeletedStaysEmpty, UndispatchedIsQuiet, SnapshotHasTask
    <2>2. ASSUME NEW p \in Passes, PassStep(p)
          PROVE  Kept
      BY <2>2, PassIsSafe
    <2>3. ASSUME NEW w \in Workers, DrainStep(w)
          PROVE  Kept
      BY <2>3, DrainIsSafe
    <2> QED  BY <2>1, <2>2, <2>3, UserIsSafe, DispatchIsSafe DEF Next
  <1> QED  BY <1>1, <1>2 DEF IndexInv, Kept, TypeOK, OutboxInv

(* The inductive invariant holds of every behaviour of the document.       *)
THEOREM IndexInvAlways == Spec => []IndexInv
  <1>1. Init => IndexInv
    <2> SUFFICES ASSUME Init
                 PROVE  IndexInv
      OBVIOUS
    <2>1. OutboxInv
      BY OutboxConstants
      DEF Init, OutboxInit, OutboxInv, OutboxTypeOK, SnapshotIsCurrent,
          StartsAreCounted, Absent, Idle, JobRow, Attempt, JobStatus
    <2>2. NoPass \in Pass /\ NoHandler \in Handler
      BY DEF NoPass, NoHandler, NoSource, Pass, Handler, Source
    <2>3. /\ doc \in DocRow
          /\ faults \in 0..MaxFaults
      BY KnowledgeJobs DEF Init, DocRow
    <2>4. /\ pass \in [Passes -> Pass]
          /\ drain \in [Workers -> Handler]
          /\ \A p \in Passes : pass[p].at = "idle"
      BY <2>2 DEF Init, NoPass
    <2> QED  BY <2>1, <2>3, <2>4 DEF Init, IndexInv, TypeOK, OutboxInv, DeletedStaysEmpty,
         UndispatchedIsQuiet, SnapshotHasTask
  <1>2. IndexInv /\ [Next]_vars => IndexInv'
    BY IndexStepIsSafe
  <1> QED  BY <1>1, <1>2, PTL DEF Spec

(* The document's behaviours are behaviours of the outbox, so its index    *)
(* jobs are started a bounded number of times and settled by their holder. *)
THEOREM IndexImplementsOutbox == Spec => OutboxSpec
  <1>1. Init => OutboxInit
    BY DEF Init
  <1>2. IndexInv /\ [Next]_vars => [OutboxNext]_outboxVars
    BY IndexStepIsOutboxStep DEF IndexInv, TypeOK
  <1> QED  BY <1>1, <1>2, IndexInvAlways, PTL DEF Spec, OutboxSpec

(* Nothing that is still under way when a document is deleted brings any   *)
(* of it back.                                                             *)
THEOREM DeletionIsFinal == Spec => []DeletedStaysEmpty
  <1>1. IndexInv => DeletedStaysEmpty
    BY DEF IndexInv
  <1> QED  BY <1>1, IndexInvAlways, PTL

(* What one step may not do to a document whose task was replaced.         *)
SilentStep ==
    \A p \in Passes :
        /\ pass[p].at # "idle"
        /\ pass[p].task # doc.task
        /\ pass'[p] # pass[p]
        => UNCHANGED docVars

(* A replaced pass writes nothing: every write of a pass is behind the     *)
(* fence, and its snapshot names its own task.                             *)
THEOREM ReplacedPassWritesNothing == Spec => ReplacedPassIsSilent
  <1>1. ASSUME IndexInv, [Next]_vars
        PROVE  SilentStep
    <2> SUFFICES ASSUME NEW p \in Passes, pass[p].at # "idle",
                        pass[p].task # doc.task, pass'[p] # pass[p]
                 PROVE  UNCHANGED docVars
      BY DEF SilentStep
    <2>1. PICK q \in Passes : PassStep(q)
      BY <1>1 DEF Next, UserStep, CreateDocument, UpdateDocument, HardDelete, DeleteFile,
           DispatchStep, EnqueueIngestion, Send, SendFails, SweepFinds, SweepRedispatches,
           LoseMessage, DrainStep, ReadSource, FindDeleted, PublishByDrain, MarkReady,
           MarkFailed, DeleteEntries, HandlerReturns, HandlerRaises, CrashDrain,
           LeaveDocument, vars, passVars
    <2>2. \E value : pass' = [pass EXCEPT ![q] = value]
      BY <1>1, <2>1 DEF PassStep, BeginPass, Recheck, LoadTitle, WriteChunks, PublishByPass,
           PublishFails, EnqueueUpsert, FinishPass, Superseded, PassFails,
           PassFailsSilently, CrashPass, IndexInv, TypeOK
    <2>3. q = p
      BY <1>1, <2>2 DEF IndexInv, TypeOK
    <2>4. ~SameSource(pass[p].source)
      BY <1>1 DEF SameSource, SourceSnapshot, IndexInv, SnapshotHasTask
    <2> QED  BY <2>1, <2>3, <2>4 DEF PassStep, BeginPass, Recheck, LoadTitle, WriteChunks,
         PublishByPass, PublishFails, EnqueueUpsert, FinishPass, Superseded, PassFails,
         PassFailsSilently, CrashPass
  <1>2. IndexInv /\ [Next]_vars => [SilentStep]_vars
    BY <1>1
  <1> QED  BY <1>2, IndexInvAlways, PTL DEF Spec, ReplacedPassIsSilent, SilentStep

(* The document, its chunks and entries, its passes and jobs keep types.   *)
THEOREM IndexTyped == Spec => []TypeOK
  <1>1. IndexInv => TypeOK
    BY DEF IndexInv
  <1> QED  BY <1>1, IndexInvAlways, PTL

-----------------------------------------------------------------------------
(* Age numbers the titles in the order in which they are given; a title    *)
(* that came back would need two numbers.                                  *)
NoTitleComesBack(Age) ==
    doc'.title # doc.title => Age[doc.title] < Age[doc'.title]

Renamed(Age) == Init /\ [][Next /\ NoTitleComesBack(Age)]_vars

(* What a pass has read of the title is the title of now, or its snapshot  *)
(* is older than that; and it has read one only of a document that was     *)
(* there.                                                                  *)
PassKnowsTitle(p, Age) ==
    pass[p].at # "idle" =>
      /\ doc.status # "absent"
      /\ \/ pass[p].source.title = doc.title
         \/ Age[pass[p].source.title] < Age[doc.title]
      /\ \/ pass[p].at \in {"begun", "parsing"}
         \/ pass[p].title = doc.title
         \/ Age[pass[p].source.title] < Age[doc.title]
         \/ doc.status = "removed"

TitlesKnown(Age) == \A p \in Passes : PassKnowsTitle(p, Age)

(* A document does not return: what is removed stays removed, and what is  *)
(* in the database stays there until it is removed.                        *)
LEMMA StatusMoves ==
    ASSUME TypeOK, [Next]_vars
    PROVE  /\ doc.status # "absent" => doc'.status # "absent"
           /\ doc.status = "removed" => doc'.status = "removed"
  <1>0. doc \in DocRow
    BY DEF TypeOK
  <1>1. CASE UserStep
    BY <1>0, <1>1 DEF UserStep, CreateDocument, UpdateDocument, HardDelete, DeleteFile,
         Indexable, InDb, DocRow
  <1>2. CASE DispatchStep
    BY <1>0, <1>2 DEF DispatchStep, EnqueueIngestion, NewTask, Send, SendFails, SweepFinds,
         SweepRedispatches, LoseMessage, docVars, Indexable, InDb, DocRow
  <1>3. ASSUME NEW p \in Passes, PassStep(p)
        PROVE  /\ doc.status # "absent" => doc'.status # "absent"
               /\ doc.status = "removed" => doc'.status = "removed"
    <2>1. CASE FinishPass(p)
      BY <1>0, <2>1 DEF FinishPass, SameSource, Indexable, InDb, DocRow
    <2>2. CASE \E retried \in BOOLEAN : PassFails(p, retried)
      BY <1>0, <2>2 DEF PassFails, SameSource, Indexable, InDb, DocRow
    <2>3. CASE PublishByPass(p)
      BY <1>0, <2>3 DEF PublishByPass, Replace, DocRow
    <2>4. CASE UNCHANGED doc
      BY <2>4
    <2> QED  BY <1>3, <2>1, <2>2, <2>3, <2>4 DEF PassStep, BeginPass, Recheck, LoadTitle,
         WriteChunks, PublishFails, EnqueueUpsert, Superseded, PassFailsSilently,
         CrashPass, docVars
  <1>4. ASSUME NEW w \in Workers, DrainStep(w)
        PROVE  /\ doc.status # "absent" => doc'.status # "absent"
               /\ doc.status = "removed" => doc'.status = "removed"
    <2>1. CASE MarkReady(w) \/ MarkFailed(w)
      BY <1>0, <2>1 DEF MarkReady, MarkFailed, DocRow
    <2>2. CASE PublishByDrain(w)
      BY <1>0, <2>2 DEF PublishByDrain, Replace, DocRow
    <2>3. CASE UNCHANGED doc
      BY <2>3
    <2> QED  BY <1>4, <2>1, <2>2, <2>3 DEF DrainStep, ReadSource, FindDeleted,
         DeleteEntries, HandlerReturns, HandlerRaises, CrashDrain, docVars
  <1>5. CASE LeaveDocument \/ UNCHANGED vars
    BY <1>5 DEF LeaveDocument, vars, docVars
  <1> QED  BY <1>1, <1>2, <1>3, <1>4, <1>5 DEF Next

(* What may become of a pass in one step: nothing, its end, its beginning  *)
(* with a snapshot of now, a step past the title or the reading of it.     *)
PassMoves(p) ==
    \/ pass'[p] = pass[p]
    \/ pass'[p].at = "idle"
    \/ /\ pass'[p].at = "begun"
       /\ pass'[p].source = SourceSnapshot
       /\ Indexable
       /\ doc' = doc
    \/ /\ pass[p].at # "idle"
       /\ pass'[p].source = pass[p].source
       /\ pass'[p].title = pass[p].title
       /\ pass[p].at \in {"begun", "parsing"} => pass'[p].at \in {"begun", "parsing"}
    \/ /\ pass[p].at # "idle"
       /\ pass'[p].source = pass[p].source
       /\ pass'[p].title = IF InDb THEN doc.title ELSE NoTitle
       /\ doc' = doc

LEMMA EveryPassMoves ==
    ASSUME TypeOK, [Next]_vars, NEW p \in Passes
    PROVE  PassMoves(p)
  <1>0. pass \in [Passes -> Pass] /\ pass[p] \in Pass
    BY DEF TypeOK
  <1>1. CASE UNCHANGED pass
    BY <1>1 DEF PassMoves
  <1>2. ASSUME NEW q \in Passes, PassStep(q), q # p
        PROVE  pass'[p] = pass[p]
    BY <1>0, <1>2 DEF PassStep, BeginPass, Recheck, LoadTitle, WriteChunks, PublishByPass,
         PublishFails, EnqueueUpsert, FinishPass, Superseded, PassFails,
         PassFailsSilently, CrashPass
  <1>3. CASE PassStep(p)
    <2>1. CASE \E t \in Tasks : BeginPass(p, t)
      BY <1>0, <2>1 DEF BeginPass, PassMoves, docVars
    <2>2. CASE LoadTitle(p)
      BY <1>0, <2>2 DEF LoadTitle, PassMoves, docVars, Pass
    <2>3. CASE Recheck(p) \/ WriteChunks(p) \/ PublishByPass(p) \/ PublishFails(p)
                 \/ EnqueueUpsert(p)
      BY <1>0, <2>3 DEF Recheck, WriteChunks, PublishByPass, PublishFails, EnqueueUpsert,
           PassMoves, Pass
    <2>4. CASE pass' = [pass EXCEPT ![p] = NoPass]
      BY <1>0, <2>4 DEF PassMoves, NoPass
    <2> QED  BY <1>3, <2>1, <2>2, <2>3, <2>4 DEF PassStep, FinishPass, Superseded, PassFails,
         PassFailsSilently, CrashPass
  <1>4. CASE ~\E q \in Passes : PassStep(q)
    <2>1. UNCHANGED pass
      BY <1>4 DEF Next, UserStep, CreateDocument, UpdateDocument, HardDelete, DeleteFile,
           DispatchStep, EnqueueIngestion, Send, SendFails, SweepFinds, SweepRedispatches,
           LoseMessage, DrainStep, ReadSource, FindDeleted, PublishByDrain, MarkReady,
           MarkFailed, DeleteEntries, HandlerReturns, HandlerRaises, CrashDrain,
           LeaveDocument, vars, passVars
    <2> QED  BY <1>1, <2>1
  <1> QED  BY <1>2, <1>3, <1>4 DEF PassMoves

(* A title newly given is newer than every snapshot, and the one a pass    *)
(* reads is not older than its snapshot.                                   *)
LEMMA TitlesStayKnown ==
    ASSUME NEW Age \in [Titles \cup {NoTitle} -> Nat], IndexInv, TitlesKnown(Age),
           [Next /\ NoTitleComesBack(Age)]_vars
    PROVE  TitlesKnown(Age)'
  <1>0. /\ TypeOK
        /\ doc \in DocRow
        /\ doc' \in DocRow
        /\ [Next]_vars
    BY IndexStepIsSafe DEF IndexInv, TypeOK
  <1>1. /\ doc.title \in Titles \cup {NoTitle} /\ doc'.title \in Titles \cup {NoTitle}
        /\ Age[doc.title] \in Nat /\ Age[doc'.title] \in Nat
    BY <1>0 DEF DocRow
  <1>2. doc'.title = doc.title \/ Age[doc.title] < Age[doc'.title]
    BY DEF NoTitleComesBack, vars
  <1> SUFFICES ASSUME NEW p \in Passes
               PROVE  PassKnowsTitle(p, Age)'
    BY DEF TitlesKnown
  <1>3. PassKnowsTitle(p, Age)
    BY DEF TitlesKnown
  <1>4. PassMoves(p)
    BY <1>0, EveryPassMoves
  <1>5. /\ doc.status # "absent" => doc'.status # "absent"
        /\ doc.status = "removed" => doc'.status = "removed"
    BY <1>0, StatusMoves
  <1>6. /\ pass[p].source.title \in Titles \cup {NoTitle}
        /\ Age[pass[p].source.title] \in Nat
    BY <1>0 DEF TypeOK, Pass, Source
  <1>7. CASE pass'[p].at = "idle"
    BY <1>7 DEF PassKnowsTitle
  <1>8. CASE /\ pass[p].at # "idle"
             /\ pass'[p].source = pass[p].source
             /\ pass'[p].title = pass[p].title
             /\ pass[p].at \in {"begun", "parsing"} => pass'[p].at \in {"begun", "parsing"}
    BY <1>1, <1>2, <1>3, <1>5, <1>6, <1>8 DEF PassKnowsTitle
  <1>9. CASE pass'[p].at = "begun" /\ pass'[p].source = SourceSnapshot /\ Indexable /\ doc' = doc
    BY <1>9 DEF PassKnowsTitle, SourceSnapshot, Indexable, InDb
  <1>10. CASE /\ pass[p].at # "idle"
              /\ pass'[p].source = pass[p].source
              /\ pass'[p].title = IF InDb THEN doc.title ELSE NoTitle
              /\ doc' = doc
    BY <1>3, <1>10 DEF PassKnowsTitle, InDb
  <1> QED  BY <1>4, <1>7, <1>8, <1>9, <1>10 DEF PassMoves

(* A step publishes nothing, or the title of the document.                 *)
TitleStep == entries' \notin {entries, NoTitle} => entries' = doc.title

(* The fence compares the title of the snapshot with that of now; what the *)
(* pass has read in between lies between the two.                          *)
LEMMA PublishedIsCurrent ==
    ASSUME NEW Age \in [Titles \cup {NoTitle} -> Nat], IndexInv, TitlesKnown(Age),
           [Next /\ NoTitleComesBack(Age)]_vars
    PROVE  TitleStep
  <1>1. ASSUME NEW p \in Passes, PublishByPass(p)
        PROVE  entries' = doc.title
    <2>1. /\ entries' = pass[p].title
          /\ pass[p].at = "stored"
          /\ pass[p].source.title = doc.title
          /\ doc.status # "removed"
      BY <1>1 DEF PublishByPass, Replace, SameSource, SourceSnapshot, Indexable, InDb
    <2>2. Age[doc.title] \in Nat
      BY DEF IndexInv, TypeOK, DocRow
    <2>3. PassKnowsTitle(p, Age)
      BY DEF TitlesKnown
    <2> QED  BY <2>1, <2>2, <2>3 DEF PassKnowsTitle
  <1>2. ASSUME NEW w \in Workers, PublishByDrain(w)
        PROVE  entries' = doc.title
    BY <1>2 DEF PublishByDrain, Replace, SameSource, SourceSnapshot
  <1>3. CASE \E p \in Passes : PublishByPass(p)
    BY <1>1, <1>3 DEF TitleStep
  <1>4. CASE \E w \in Workers : PublishByDrain(w)
    BY <1>2, <1>4 DEF TitleStep
  <1>5. CASE entries' \in {entries, NoTitle}
    BY <1>5 DEF TitleStep
  <1>6. \/ \E p \in Passes : PublishByPass(p)
        \/ \E w \in Workers : PublishByDrain(w)
        \/ entries' \in {entries, NoTitle}
    BY DEF Next, UserStep, CreateDocument, UpdateDocument, HardDelete, DeleteFile,
           DispatchStep, EnqueueIngestion, Send, SendFails, SweepFinds, SweepRedispatches,
           LoseMessage, PassStep, BeginPass, Recheck, LoadTitle, WriteChunks,
           PublishFails, EnqueueUpsert, FinishPass, Superseded, PassFails,
           PassFailsSilently, CrashPass, DrainStep, ReadSource, FindDeleted, MarkReady,
           MarkFailed, DeleteEntries, HandlerReturns, HandlerRaises, CrashDrain,
           LeaveDocument, vars, docVars
  <1> QED  BY <1>3, <1>4, <1>5, <1>6

(* Of a document whose titles do not come back, in whatever order its      *)
(* passes, drains and renames interleave, nothing is published under a     *)
(* title that is no longer its own. The title of the passages is not       *)
(* checked by the code; it is this that makes the check of the snapshot's  *)
(* title enough.                                                           *)
THEOREM LateEmbeddingsAreCurrent ==
    ASSUME NEW Age \in [Titles \cup {NoTitle} -> Nat]
    PROVE  Renamed(Age) => PublishesCurrentTitle
  <1>1. Renamed(Age) => Spec
    <2>1. [Next /\ NoTitleComesBack(Age)]_vars => [Next]_vars
      OBVIOUS
    <2> QED  BY <2>1, PTL DEF Renamed, Spec
  <1>2. Init => TitlesKnown(Age)
    BY DEF Init, NoPass, TitlesKnown, PassKnowsTitle
  <1>3. IndexInv /\ TitlesKnown(Age) /\ [Next /\ NoTitleComesBack(Age)]_vars => TitlesKnown(Age)'
    BY TitlesStayKnown
  <1>4. IndexInv /\ TitlesKnown(Age) /\ [Next /\ NoTitleComesBack(Age)]_vars => [TitleStep]_vars
    BY PublishedIsCurrent
  <1> QED  BY <1>1, <1>2, <1>3, <1>4, IndexInvAlways, PTL
           DEF Renamed, PublishesCurrentTitle, TitleStep
=============================================================================
