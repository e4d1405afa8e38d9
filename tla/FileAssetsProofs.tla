-------------------------- MODULE FileAssetsProofs --------------------------
(* Proofs about uploaded files, for any files, workers and max_attempts.   *)
(* The outbox's own invariant comes from OutboxProofs, because every step  *)
(* of the files is a step of the outbox or leaves it alone.                *)
EXTENDS FileAssets, OutboxProofs

(* The states from which a file's bytes may be removed, never left again.  *)
Ended(a) == asset[a].upload_status = "failed" \/ asset[a].deleted_at

UploadsArePending ==
    \A a \in uploading :
        asset[a] = [upload_status |-> "pending_upload", deleted_at |-> FALSE]

ConsumersSawBytes ==
    \A a \in consuming : asset[a].deleted_at \/ asset[a].upload_status \in Readable

JobsAreOfEndedFiles ==
    \A j \in Jobs : job[j].status # "absent" => Ended(AssetOf(j))

CalledMeansGone ==
    \A w \in Workers :
        attempt[w].job # NoJob /\ attempt[w].called => AssetOf(attempt[w].job) \notin blob

FilesInv ==
    /\ OutboxInv
    /\ TypeOK
    /\ UploadsArePending
    /\ ConsumersSawBytes
    /\ JobsAreOfEndedFiles
    /\ CalledMeansGone
    /\ ReadableHasBytes
    /\ NoLingeringBytes

-----------------------------------------------------------------------------
(* A job belongs to one file, and a file has two jobs.                     *)
LEMMA JobsOfAsset ==
    /\ \A a \in Assets : /\ DeleteJob(a) \in Jobs /\ CleanupJob(a) \in Jobs
                         /\ AssetOf(DeleteJob(a)) = a /\ AssetOf(CleanupJob(a)) = a
    /\ \A j \in Jobs : AssetOf(j) \in Assets /\ j \in {DeleteJob(AssetOf(j)), CleanupJob(AssetOf(j))}
  BY AssetJobs DEF Kinds, DeleteJob, CleanupJob, AssetOf

(* Every step of the files is a step of the outbox, or none of it.         *)
LEMMA FilesStepIsOutboxStep ==
    ASSUME OutboxTypeOK, [Next]_vars
    PROVE  [OutboxNext]_outboxVars
  <1>1. ASSUME NEW a \in Assets, Upload(a) \/ Consume(a) \/ Delete(a)
        PROVE  [OutboxNext]_outboxVars
    <2>1. DeleteJob(a) \in Jobs /\ CleanupJob(a) \in Jobs
      BY JobsOfAsset
    <2>2. CASE Upload(a)
      BY <2>2 DEF Upload, CreateFileAsset, BeginUpload, StoreObject, EndUpload, outboxVars
    <2>3. CASE Consume(a)
      <3>1. CASE FailAsset(a)
        BY <2>1, <3>1, EnqueuedIsOutboxStep DEF FailAsset
      <3>2. CASE ConfirmAsset(a) \/ ConfirmOnConsume(a) \/ MarkConsumed(a) \/ ConsumeConfirmed(a)
        BY <3>2 DEF ConfirmAsset, ConfirmOnConsume, MarkConsumed, ConsumeConfirmed, outboxVars
      <3> QED  BY <2>3, <3>1, <3>2 DEF Consume
    <2>4. CASE Delete(a)
      <3>1. UNCHANGED attempt
        BY <2>4 DEF Delete, PermanentlyDelete, ExpireOrphan, RemoveRow
      <3>2. job' = Enqueued(DeleteJob(a)) \/ job' = job
        BY <2>4 DEF Delete, PermanentlyDelete, ExpireOrphan, RemoveRow
      <3> QED  BY <2>1, <3>1, <3>2, EnqueuedIsOutboxStep DEF outboxVars
    <2> QED  BY <1>1, <2>2, <2>3, <2>4
  <1>2. ASSUME NEW w \in Workers, DeleteObject(w) \/ FinishDelete(w) \/ DrainStep(w)
        PROVE  [OutboxNext]_outboxVars
    BY <1>2 DEF DeleteObject, FinishDelete, DrainStep, OutboxNext, Drain
  <1>3. CASE TimePasses
    BY <1>3 DEF TimePasses, OutboxNext
  <1>4. CASE UNCHANGED vars
    BY <1>4 DEF vars, outboxVars
  <1> QED  BY <1>1, <1>2, <1>3, <1>4 DEF Next

-----------------------------------------------------------------------------
(* The parts of the invariant that the outbox invariant does not hold.     *)
FilesParts ==
    /\ UploadsArePending'
    /\ ConsumersSawBytes'
    /\ JobsAreOfEndedFiles'
    /\ CalledMeansGone'
    /\ ReadableHasBytes'
    /\ NoLingeringBytes'

(* What the outbox's own steps do to the rows, but for a success.          *)
LEMMA QuietDrain ==
    ASSUME OutboxInv, TimePasses \/ \E w \in Workers : DrainStep(w)
    PROVE  /\ \A j \in Jobs :
                /\ job'[j].status = "absent" <=> job[j].status = "absent"
                /\ job'[j].status = "succeeded" => job[j].status = "succeeded"
           /\ \A v \in Workers :
                attempt'[v].job # NoJob /\ attempt'[v].called => attempt'[v] = attempt[v]
  <1>1. ASSUME NEW w \in Workers, NEW j \in Jobs, BuryAtClaim(w, j)
        PROVE  /\ attempt' = attempt
               /\ \A k \in Jobs : k # j => job'[k] = job[k]
               /\ job'[j].status = "dead"
               /\ job[j].status # "absent"
    BY <1>1 DEF OutboxInv, OutboxTypeOK, BuryAtClaim, CanClaim, Claimable, JobRow
  <1>2. ASSUME NEW w \in Workers, NEW j \in Jobs, Claim(w, j)
        PROVE  /\ \A v \in Workers : v # w => attempt'[v] = attempt[v]
               /\ ~attempt'[w].called
               /\ \A k \in Jobs : k # j => job'[k] = job[k]
               /\ job'[j].status = "running"
               /\ job[j].status # "absent"
    BY <1>2 DEF OutboxInv, OutboxTypeOK, Claim, CanClaim, Claimable, JobRow
  <1>3. ASSUME NEW w \in Workers, RenewLease(w)
        PROVE  /\ attempt' = attempt
               /\ \A k \in Jobs : job'[k].status = job[k].status
    BY <1>3 DEF OutboxInv, OutboxTypeOK, RenewLease, JobRow
  <1>4. ASSUME NEW w \in Workers, SettleFailure(w)
        PROVE  /\ \A v \in Workers : v # w => attempt'[v] = attempt[v]
               /\ attempt'[w].job = NoJob
               /\ \A k \in Jobs : \/ job'[k] = job[k]
                                  \/ /\ job'[k].status \in {"dead", "failed"}
                                     /\ job[k].status = "running"
    <2>1. attempt[w].job \in Jobs
      BY <1>4 DEF OutboxInv, OutboxTypeOK, Attempt, SettleFailure
    <2>2. attempt' = [attempt EXCEPT ![w] = Idle]
      BY <1>4 DEF SettleFailure, Settle
    <2>3. /\ \A v \in Workers : v # w => attempt'[v] = attempt[v]
          /\ attempt'[w].job = NoJob
      BY <2>2 DEF OutboxInv, OutboxTypeOK, Idle
    <2>4. CASE OwnsJob(w)
      <3>1. PICK status \in {"dead", "failed"}, n \in Nat :
              job' = [job EXCEPT ![attempt[w].job].status = status,
                                 ![attempt[w].job].attempts = n,
                                 ![attempt[w].job].due = (status = "succeeded"),
                                 ![attempt[w].job].locked_by = NoWorker,
                                 ![attempt[w].job].aged = FALSE]
        <4>1. attempt[w].attempts + 1 \in Nat
          BY DEF OutboxInv, OutboxTypeOK, Attempt
        <4> QED  BY <1>4, <2>4, <4>1 DEF SettleFailure, Settle
      <3>2. job[attempt[w].job].status = "running"
        BY <2>4 DEF OwnsJob
      <3>3. job \in [Jobs -> JobRow]
        BY DEF OutboxInv, OutboxTypeOK
      <3>4. job'[attempt[w].job].status = status
        BY <2>1, <3>1, <3>3 DEF JobRow
      <3>5. \A k \in Jobs : k # attempt[w].job => job'[k] = job[k]
        BY <3>1, <3>3
      <3> QED  BY <2>3, <3>2, <3>4, <3>5
    <2>5. CASE ~OwnsJob(w)
      <3>1. job' = job
        BY <1>4, <2>5 DEF SettleFailure, Settle
      <3> QED  BY <2>3, <3>1
    <2> QED  BY <2>4, <2>5
  <1>5. ASSUME NEW w \in Workers, Crash(w)
        PROVE  /\ \A v \in Workers : v # w => attempt'[v] = attempt[v]
               /\ attempt'[w].job = NoJob
               /\ job' = job
    BY <1>5 DEF OutboxInv, OutboxTypeOK, Crash, Idle
  <1>6. ASSUME TimePasses
        PROVE  /\ attempt' = attempt
               /\ \A k \in Jobs : job'[k].status = job[k].status
    BY <1>6 DEF OutboxInv, OutboxTypeOK, TimePasses, BackoffElapses, LeaseAges, JobRow
  <1> QED  BY <1>1, <1>2, <1>3, <1>4, <1>5, <1>6 DEF DrainStep

(* The rows after a job is enqueued.                                       *)
LEMMA EnqueuedRows ==
    ASSUME OutboxTypeOK, NEW j \in Jobs, job' = Enqueued(j)
    PROVE  /\ \A k \in Jobs : job[k].status # "absent" => job'[k] = job[k]
           /\ \A k \in Jobs : k # j => job'[k] = job[k]
           /\ job'[j].status # "absent"
           /\ job[j].status = "absent" => job'[j].status = "pending"
  BY DEF OutboxTypeOK, Enqueued, JobRow

(* An upload never meets a file whose bytes are being removed.             *)
LEMMA UploadIsSafe ==
    ASSUME FilesInv, NEW a \in Assets, Upload(a)
    PROVE  FilesParts
  <1>1. CASE StoreObject(a)
    <2>1. /\ blob' = blob \cup {a} /\ a \in uploading
          /\ job' = job /\ attempt' = attempt /\ asset' = asset
          /\ uploading' = uploading /\ consuming' = consuming
      BY <1>1 DEF StoreObject, outboxVars
    <2>2. ~Ended(a)
      BY <2>1 DEF FilesInv, UploadsArePending, Ended
    <2>3. CalledMeansGone'
      <3> SUFFICES ASSUME NEW w \in Workers, attempt[w].job # NoJob, attempt[w].called
                   PROVE  AssetOf(attempt[w].job) \notin blob \cup {a}
        BY <2>1 DEF CalledMeansGone
      <3>1. attempt[w].job \in Jobs /\ job[attempt[w].job].status # "absent"
        BY DEF FilesInv, OutboxInv, OutboxTypeOK, SnapshotIsCurrent, Attempt
      <3>2. Ended(AssetOf(attempt[w].job))
        BY <3>1 DEF FilesInv, JobsAreOfEndedFiles
      <3> QED  BY <2>2, <3>2 DEF FilesInv, CalledMeansGone
    <2>4. NoLingeringBytes'
      BY <2>1, <2>2 DEF FilesInv, NoLingeringBytes, Ended
    <2> QED  BY <2>1, <2>3, <2>4
             DEF FilesInv, FilesParts, UploadsArePending, ConsumersSawBytes,
                 JobsAreOfEndedFiles, ReadableHasBytes, Ended
  <1>2. CASE CreateFileAsset(a)
    <2>1. /\ asset[a].upload_status = "absent"
          /\ \A b \in Assets : b # a => asset'[b] = asset[b]
          /\ asset'[a].upload_status = "pending_upload"
          /\ asset'[a].deleted_at = asset[a].deleted_at
          /\ job' = job /\ attempt' = attempt /\ blob' = blob
          /\ uploading' = uploading /\ consuming' = consuming
      BY <1>2 DEF CreateFileAsset, FilesInv, TypeOK, AssetRow, outboxVars
    <2>2. \A b \in Assets : Ended(b)' <=> Ended(b)
      BY <2>1 DEF Ended
    <2>3. UploadsArePending' /\ ConsumersSawBytes'
      BY <2>1 DEF FilesInv, TypeOK, UploadsArePending, ConsumersSawBytes, Readable
    <2>4. JobsAreOfEndedFiles' /\ CalledMeansGone'
      BY <2>1, <2>2, JobsOfAsset DEF FilesInv, JobsAreOfEndedFiles, CalledMeansGone
    <2>5. ReadableHasBytes' /\ NoLingeringBytes'
      BY <2>1 DEF FilesInv, TypeOK, ReadableHasBytes, NoLingeringBytes, Readable
    <2> QED  BY <2>3, <2>4, <2>5 DEF FilesParts
  <1>3. CASE BeginUpload(a) \/ EndUpload(a)
    BY <1>3 DEF BeginUpload, EndUpload, FilesInv, FilesParts, UploadsArePending,
                ConsumersSawBytes, JobsAreOfEndedFiles, CalledMeansGone,
                ReadableHasBytes, NoLingeringBytes, Ended, outboxVars
  <1> QED  BY <1>1, <1>2, <1>3 DEF Upload

(* A confirmation or a consumption keeps the row out of the ended states   *)
(* unless it fails the file, and then it enqueues the removal.             *)
LEMMA ConsumeIsSafe ==
    ASSUME FilesInv, NEW a \in Assets, Consume(a)
    PROVE  FilesParts
  <1>1. CASE FailAsset(a)
    <2>1. /\ asset[a] = [upload_status |-> "pending_upload", deleted_at |-> FALSE]
          /\ a \notin uploading
          /\ \A b \in Assets : b # a => asset'[b] = asset[b]
          /\ asset'[a].upload_status = "failed"
          /\ asset'[a].deleted_at = FALSE
          /\ attempt' = attempt /\ blob' = blob
          /\ uploading' = uploading /\ consuming' = consuming
      BY <1>1 DEF FailAsset, CanVerify, FilesInv, TypeOK, AssetRow
    <2>2. /\ \A k \in Jobs : k # CleanupJob(a) => job'[k] = job[k]
          /\ job'[CleanupJob(a)].status = "pending"
      <3>1. CleanupJob(a) \in Jobs /\ AssetOf(CleanupJob(a)) = a
        BY JobsOfAsset
      <3>2. job[CleanupJob(a)].status = "absent"
        BY <2>1, <3>1 DEF FilesInv, JobsAreOfEndedFiles, Ended
      <3> QED  BY <1>1, <3>1, <3>2, EnqueuedRows DEF FailAsset, FilesInv, OutboxInv
    <2>3. UploadsArePending' /\ ConsumersSawBytes'
      BY <2>1 DEF FilesInv, TypeOK, UploadsArePending, ConsumersSawBytes, Readable
    <2>4. JobsAreOfEndedFiles' /\ CalledMeansGone'
      BY <2>1, <2>2, JobsOfAsset DEF FilesInv, JobsAreOfEndedFiles, CalledMeansGone, Ended
    <2>5. ReadableHasBytes'
      BY <2>1 DEF FilesInv, ReadableHasBytes, Readable
    <2>6. NoLingeringBytes'
      <3> SUFFICES ASSUME NEW b \in blob,
                          asset'[b].upload_status = "failed" \/ asset'[b].deleted_at
                   PROVE  \E j \in {DeleteJob(b), CleanupJob(b)} :
                             job'[j].status \notin {"absent", "succeeded"}
        BY <2>1 DEF NoLingeringBytes
      <3>1. CASE b = a
        BY <2>2, <3>1
      <3>2. CASE b # a
        <4>1. b \in Assets
          BY DEF FilesInv, TypeOK
        <4>2. PICK j \in {DeleteJob(b), CleanupJob(b)} :
                     job[j].status \notin {"absent", "succeeded"}
          BY <2>1, <3>2, <4>1 DEF FilesInv, NoLingeringBytes
        <4>3. j \in Jobs /\ AssetOf(j) = b
          BY <4>1, JobsOfAsset
        <4>4. job'[j] = job[j]
          BY <2>2, <3>2, <4>3, JobsOfAsset
        <4> QED  BY <4>2, <4>4
      <3> QED  BY <3>1, <3>2
    <2> QED  BY <2>3, <2>4, <2>5, <2>6 DEF FilesParts
  <1>2. ASSUME asset'[a].deleted_at = asset[a].deleted_at,
               ~asset[a].deleted_at => asset'[a].upload_status \in Readable /\ a \in blob,
               asset[a].upload_status # "failed" \/ asset[a].deleted_at,
               a \notin uploading \/ asset[a].deleted_at,
               \A b \in Assets : b # a => asset'[b] = asset[b],
               job' = job, attempt' = attempt, blob' = blob, uploading' = uploading,
               consuming' \subseteq consuming \cup {a}
        PROVE  FilesParts
    <2>1. \A b \in Assets : Ended(b)' <=> Ended(b)
      <3>1. ~asset[a].deleted_at => ~Ended(a) /\ ~Ended(a)'
        BY <1>2 DEF Ended, Readable
      <3> QED  BY <1>2, <3>1 DEF Ended
    <2>2. UploadsArePending'
      BY <1>2 DEF FilesInv, TypeOK, UploadsArePending
    <2>3. ConsumersSawBytes'
      BY <1>2 DEF FilesInv, TypeOK, ConsumersSawBytes
    <2>4. JobsAreOfEndedFiles' /\ CalledMeansGone'
      BY <1>2, <2>1, JobsOfAsset DEF FilesInv, JobsAreOfEndedFiles, CalledMeansGone
    <2>5. ReadableHasBytes'
      BY <1>2 DEF FilesInv, ReadableHasBytes
    <2>6. NoLingeringBytes'
      BY <1>2, <2>1 DEF FilesInv, TypeOK, NoLingeringBytes, Ended
    <2> QED  BY <2>2, <2>3, <2>4, <2>5, <2>6 DEF FilesParts
  <1>3. CASE ConfirmAsset(a) \/ ConfirmOnConsume(a)
    <2>1. /\ asset[a] = [upload_status |-> "pending_upload", deleted_at |-> FALSE]
          /\ a \notin uploading /\ a \in blob
          /\ asset' = [asset EXCEPT ![a].upload_status = "uploaded"]
          /\ job' = job /\ attempt' = attempt /\ blob' = blob /\ uploading' = uploading
          /\ consuming' \subseteq consuming \cup {a}
      BY <1>3 DEF ConfirmAsset, ConfirmOnConsume, CanVerify, outboxVars
    <2> QED  BY <1>2, <2>1 DEF FilesInv, TypeOK, AssetRow, Readable
  <1>4. CASE ConsumeConfirmed(a)
    <2>1. /\ asset[a].upload_status = "uploaded" /\ ~asset[a].deleted_at
          /\ asset' = [asset EXCEPT ![a].upload_status = "consumed"]
          /\ job' = job /\ attempt' = attempt /\ blob' = blob /\ uploading' = uploading
          /\ consuming' = consuming
      BY <1>4 DEF ConsumeConfirmed, outboxVars
    <2>2. a \in blob /\ a \notin uploading
      BY <2>1 DEF FilesInv, ReadableHasBytes, UploadsArePending, Readable
    <2> QED  BY <1>2, <2>1, <2>2 DEF FilesInv, TypeOK, AssetRow, Readable
  <1>5. CASE MarkConsumed(a)
    <2>1. /\ a \in consuming
          /\ asset' = IF asset[a].upload_status = "removed" THEN asset
                      ELSE [asset EXCEPT ![a].upload_status = "consumed"]
          /\ job' = job /\ attempt' = attempt /\ blob' = blob /\ uploading' = uploading
          /\ consuming' \subseteq consuming \cup {a}
      BY <1>5 DEF MarkConsumed, outboxVars
    <2>2. ~asset[a].deleted_at =>
            /\ asset[a].upload_status \in Readable
            /\ a \in blob /\ a \notin uploading
      BY <2>1 DEF FilesInv, ConsumersSawBytes, ReadableHasBytes, UploadsArePending, Readable
    <2> QED  BY <1>2, <2>1, <2>2 DEF FilesInv, TypeOK, AssetRow, Readable
  <1> QED  BY <1>1, <1>3, <1>4, <1>5 DEF Consume

(* A deletion ends the file and enqueues the removal of its bytes, unless  *)
(* the file had ended before.                                              *)
LEMMA DeleteIsSafe ==
    ASSUME FilesInv, NEW a \in Assets, Delete(a)
    PROVE  FilesParts
  <1>1. /\ \A b \in Assets : b # a => asset'[b] = asset[b]
        /\ asset'[a].deleted_at
        /\ attempt' = attempt /\ blob' = blob
        /\ uploading' = uploading /\ consuming' = consuming
    BY DEF Delete, PermanentlyDelete, ExpireOrphan, RemoveRow, FilesInv, TypeOK, AssetRow
  <1>2. a \notin uploading
    BY DEF Delete, PermanentlyDelete, ExpireOrphan, RemoveRow, FilesInv,
           UploadsArePending, Readable
  <1>3. \/ job' = Enqueued(DeleteJob(a))
        \/ job' = job /\ Ended(a)
    BY DEF Delete, PermanentlyDelete, ExpireOrphan, RemoveRow, Ended
  <1>4. /\ DeleteJob(a) \in Jobs /\ AssetOf(DeleteJob(a)) = a
        /\ OutboxTypeOK
    BY JobsOfAsset DEF FilesInv, OutboxInv
  <1>5. /\ \A k \in Jobs : job[k].status # "absent" => job'[k] = job[k]
        /\ \A k \in Jobs : k # DeleteJob(a) => job'[k] = job[k]
    BY <1>3, <1>4, EnqueuedRows
  <1>6. \A b \in Assets : Ended(b) => Ended(b)'
    BY <1>1 DEF Ended
  <1>7. UploadsArePending' /\ ConsumersSawBytes'
    BY <1>1, <1>2 DEF FilesInv, TypeOK, UploadsArePending, ConsumersSawBytes
  <1>8. JobsAreOfEndedFiles'
    <2> SUFFICES ASSUME NEW j \in Jobs, job'[j].status # "absent"
                 PROVE  Ended(AssetOf(j))'
      BY DEF JobsAreOfEndedFiles
    <2>1. CASE AssetOf(j) = a
      BY <1>1, <2>1 DEF Ended
    <2>2. CASE AssetOf(j) # a
      BY <1>4, <1>5, <1>6, <2>2, JobsOfAsset DEF FilesInv, JobsAreOfEndedFiles
    <2> QED  BY <2>1, <2>2
  <1>9. CalledMeansGone' /\ ReadableHasBytes'
    BY <1>1 DEF FilesInv, CalledMeansGone, ReadableHasBytes
  <1>10. NoLingeringBytes'
    <2> SUFFICES ASSUME NEW b \in blob,
                        asset'[b].upload_status = "failed" \/ asset'[b].deleted_at
                 PROVE  \E j \in {DeleteJob(b), CleanupJob(b)} :
                           job'[j].status \notin {"absent", "succeeded"}
      BY <1>1 DEF NoLingeringBytes
    <2>1. b \in Assets
      BY DEF FilesInv, TypeOK
    <2>2. CASE Ended(b)
      <3>1. PICK j \in {DeleteJob(b), CleanupJob(b)} :
                   job[j].status \notin {"absent", "succeeded"}
        BY <2>2 DEF FilesInv, NoLingeringBytes, Ended
      <3>2. j \in Jobs
        BY <2>1, JobsOfAsset
      <3> QED  BY <1>5, <3>1, <3>2
    <2>3. CASE ~Ended(b)
      <3>1. b = a
        BY <1>1, <2>1, <2>3 DEF Ended
      <3>2. job[DeleteJob(a)].status = "absent"
        BY <1>4, <2>3, <3>1 DEF FilesInv, JobsAreOfEndedFiles
      <3>3. job'[DeleteJob(a)].status = "pending"
        BY <1>3, <1>4, <2>3, <3>1, <3>2, EnqueuedRows
      <3> QED  BY <3>1, <3>3
    <2> QED  BY <2>2, <2>3
  <1> QED  BY <1>7, <1>8, <1>9, <1>10 DEF FilesParts

(* The handler deletes the object of an ended file.                        *)
LEMMA DeleteObjectIsSafe ==
    ASSUME FilesInv, NEW w \in Workers, DeleteObject(w)
    PROVE  FilesParts
  <1> DEFINE a == AssetOf(attempt[w].job)
  <1>1. /\ attempt[w].job # NoJob
        /\ \A v \in Workers : v # w => attempt'[v] = attempt[v]
        /\ attempt'[w].job = attempt[w].job
        /\ job' = job /\ asset' = asset /\ blob' = blob \ {a}
        /\ uploading' = uploading /\ consuming' = consuming
    BY DEF DeleteObject, CallHandler, FilesInv, OutboxInv, OutboxTypeOK, Attempt
  <1>2. Ended(a)
    <2>1. attempt[w].job \in Jobs /\ job[attempt[w].job].status # "absent"
      BY <1>1 DEF FilesInv, OutboxInv, OutboxTypeOK, SnapshotIsCurrent, Attempt
    <2> QED  BY <2>1 DEF FilesInv, JobsAreOfEndedFiles
  <1>3. UploadsArePending' /\ ConsumersSawBytes' /\ JobsAreOfEndedFiles'
    BY <1>1 DEF FilesInv, UploadsArePending, ConsumersSawBytes, JobsAreOfEndedFiles, Ended
  <1>4. CalledMeansGone'
    BY <1>1 DEF FilesInv, CalledMeansGone
  <1>5. ReadableHasBytes'
    BY <1>1, <1>2 DEF FilesInv, ReadableHasBytes, Ended, Readable
  <1>6. NoLingeringBytes'
    BY <1>1 DEF FilesInv, NoLingeringBytes
  <1> QED  BY <1>3, <1>4, <1>5, <1>6 DEF FilesParts

(* A success is settled after the object is gone.                          *)
LEMMA FinishDeleteIsSafe ==
    ASSUME FilesInv, NEW w \in Workers, FinishDelete(w)
    PROVE  FilesParts
  <1> DEFINE j == attempt[w].job
  <1>1. /\ j # NoJob /\ j \in Jobs /\ attempt[w].called
        /\ \A v \in Workers : v # w => attempt'[v] = attempt[v]
        /\ attempt'[w].job = NoJob
        /\ blob' = blob /\ uploading' = uploading /\ consuming' = consuming
        /\ \A k \in Jobs : k # j => job'[k] = job[k]
        /\ job'[j].status = "absent" => job[j].status = "absent"
    BY DEF FinishDelete, SettleSuccess, Settle, Idle, FilesInv, OutboxInv,
           OutboxTypeOK, Attempt, JobRow
  <1>2. asset' = asset
    BY DEF FinishDelete, Graduates, SnapshotFields
  <1>3. AssetOf(j) \notin blob /\ job[j].status # "absent"
    BY <1>1 DEF FilesInv, CalledMeansGone, OutboxInv, SnapshotIsCurrent
  <1>4. UploadsArePending' /\ ConsumersSawBytes' /\ JobsAreOfEndedFiles'
    BY <1>1, <1>2, <1>3
    DEF FilesInv, UploadsArePending, ConsumersSawBytes, JobsAreOfEndedFiles, Ended
  <1>5. CalledMeansGone' /\ ReadableHasBytes'
    BY <1>1, <1>2 DEF FilesInv, CalledMeansGone, ReadableHasBytes
  <1>6. NoLingeringBytes'
    <2> SUFFICES ASSUME NEW b \in blob,
                        asset[b].upload_status = "failed" \/ asset[b].deleted_at
                 PROVE  \E k \in {DeleteJob(b), CleanupJob(b)} :
                           job'[k].status \notin {"absent", "succeeded"}
      BY <1>1, <1>2 DEF NoLingeringBytes
    <2>1. PICK k \in {DeleteJob(b), CleanupJob(b)} :
                 job[k].status \notin {"absent", "succeeded"}
      BY DEF FilesInv, NoLingeringBytes
    <2>2. k \in Jobs /\ AssetOf(k) = b
      BY JobsOfAsset DEF FilesInv, TypeOK
    <2>3. k # j
      BY <1>3, <2>2
    <2> QED  BY <1>1, <2>1, <2>2, <2>3
  <1> QED  BY <1>4, <1>5, <1>6 DEF FilesParts

(* The other steps of the outbox leave the files alone.                    *)
LEMMA DrainIsSafe ==
    ASSUME FilesInv, TimePasses \/ \E w \in Workers : DrainStep(w)
    PROVE  FilesParts
  <1>1. /\ asset' = asset /\ blob' = blob
        /\ uploading' = uploading /\ consuming' = consuming
    BY DEF DrainStep, TimePasses
  <1>2. /\ \A j \in Jobs :
             /\ job'[j].status = "absent" <=> job[j].status = "absent"
             /\ job'[j].status = "succeeded" => job[j].status = "succeeded"
        /\ \A v \in Workers :
             attempt'[v].job # NoJob /\ attempt'[v].called => attempt'[v] = attempt[v]
    BY QuietDrain DEF FilesInv
  <1>3. UploadsArePending' /\ ConsumersSawBytes' /\ JobsAreOfEndedFiles'
    BY <1>1, <1>2
    DEF FilesInv, UploadsArePending, ConsumersSawBytes, JobsAreOfEndedFiles, Ended
  <1>4. CalledMeansGone' /\ ReadableHasBytes'
    BY <1>1, <1>2 DEF FilesInv, CalledMeansGone, ReadableHasBytes
  <1>5. NoLingeringBytes'
    BY <1>1, <1>2, JobsOfAsset DEF FilesInv, TypeOK, NoLingeringBytes
  <1> QED  BY <1>3, <1>4, <1>5 DEF FilesParts

(* Every step keeps the types.                                             *)
LEMMA FilesTypeStep ==
    ASSUME TypeOK, OutboxTypeOK', [Next]_vars
    PROVE  TypeOK'
  <1>1. ASSUME NEW a \in Assets, Upload(a)  PROVE TypeOK'
    BY <1>1 DEF TypeOK, Upload, CreateFileAsset, BeginUpload, StoreObject, EndUpload,
                AssetRow, UploadStatus
  <1>2. ASSUME NEW a \in Assets, Consume(a)  PROVE TypeOK'
    BY <1>2 DEF TypeOK, Consume, FailAsset, ConfirmAsset, ConfirmOnConsume,
                MarkConsumed, ConsumeConfirmed, AssetRow, UploadStatus, Readable
  <1>3. ASSUME NEW a \in Assets, Delete(a)  PROVE TypeOK'
    BY <1>3 DEF TypeOK, Delete, PermanentlyDelete, ExpireOrphan, RemoveRow,
                AssetRow, UploadStatus
  <1>4. ASSUME NEW w \in Workers, DeleteObject(w) \/ FinishDelete(w) \/ DrainStep(w)
        PROVE  TypeOK'
    BY <1>4 DEF TypeOK, DeleteObject, FinishDelete, DrainStep, Graduates, SnapshotFields
  <1>5. CASE TimePasses \/ UNCHANGED vars
    BY <1>5 DEF TypeOK, TimePasses, vars
  <1> QED  BY <1>1, <1>2, <1>3, <1>4, <1>5 DEF Next

(* Every step of the file component keeps its inductive invariant.         *)
THEOREM FilesStepIsSafe ==
    FilesInv /\ [Next]_vars => FilesInv'
  <1> SUFFICES ASSUME FilesInv, [Next]_vars
               PROVE  FilesInv'
    OBVIOUS
  <1>1. OutboxInv'
    <2>1. OutboxInv /\ OutboxTypeOK
      BY DEF FilesInv, OutboxInv
    <2> QED  BY <2>1, FilesStepIsOutboxStep, OutboxStepIsSafe DEF OutboxStep
  <1>2. TypeOK'
    BY <1>1, FilesTypeStep DEF FilesInv, OutboxInv
  <1>3. FilesParts
    <2>1. ASSUME NEW w \in Workers, DeleteObject(w) \/ FinishDelete(w) \/ DrainStep(w)
          PROVE  FilesParts
      BY <2>1, DeleteObjectIsSafe, FinishDeleteIsSafe, DrainIsSafe
    <2>2. CASE \E a \in Assets : Upload(a) \/ Consume(a) \/ Delete(a)
      BY <2>2, UploadIsSafe, ConsumeIsSafe, DeleteIsSafe
    <2>3. CASE TimePasses
      BY <2>3, DrainIsSafe
    <2>4. CASE UNCHANGED vars
      BY <2>4 DEF vars, FilesInv, FilesParts, UploadsArePending, ConsumersSawBytes,
                  JobsAreOfEndedFiles, CalledMeansGone, ReadableHasBytes,
                  NoLingeringBytes, Ended
    <2> QED  BY <2>1, <2>2, <2>3, <2>4 DEF Next
  <1> QED  BY <1>1, <1>2, <1>3 DEF FilesInv, FilesParts

(* The inductive invariant holds of every behaviour of the files.          *)
THEOREM FilesInvAlways == Spec => []FilesInv
  <1>1. Init => FilesInv
    BY OutboxConstants
    DEF Init, FilesInv, OutboxInit, OutboxInv, OutboxTypeOK, SnapshotIsCurrent,
        StartsAreCounted, Absent, Idle, JobRow, Attempt, JobStatus, TypeOK, AssetRow,
        UploadStatus, UploadsArePending, ConsumersSawBytes, JobsAreOfEndedFiles,
        CalledMeansGone, ReadableHasBytes, NoLingeringBytes, Readable
  <1>2. FilesInv /\ [Next]_vars => FilesInv'
    BY FilesStepIsSafe
  <1> QED  BY <1>1, <1>2, PTL DEF Spec

(* The files' behaviours are behaviours of the outbox, so what holds of    *)
(* every outbox holds of this one.                                         *)
THEOREM FilesImplementOutbox == Spec => OutboxSpec
  <1>1. Init => OutboxInit
    BY DEF Init
  <1>2. FilesInv /\ [Next]_vars => [OutboxNext]_outboxVars
    BY FilesStepIsOutboxStep DEF FilesInv, OutboxInv
  <1> QED  BY <1>1, <1>2, FilesInvAlways, PTL DEF Spec, OutboxSpec

(* An object's deletion is started at most max_attempts times per job.     *)
THEOREM FilesStartsAreCounted == Spec => []StartsAreCounted
  BY FilesImplementOutbox, OutboxStartsAreCounted, PTL

(* Only the holder of the latest lease settles the run of a deletion job.  *)
THEOREM FilesSettledByItsHolder == Spec => SettledByItsHolder
  BY FilesImplementOutbox, OutboxSettledByItsHolder, PTL

(* A verified file that was not deleted keeps its bytes.                   *)
THEOREM FilesReadableHasBytes == Spec => []ReadableHasBytes
  <1>1. FilesInv => ReadableHasBytes
    BY DEF FilesInv
  <1> QED  BY <1>1, FilesInvAlways, PTL

(* The bytes of an ended file are gone or still have a job to remove them. *)
THEOREM FilesNoLingeringBytes == Spec => []NoLingeringBytes
  <1>1. FilesInv => NoLingeringBytes
    BY DEF FilesInv
  <1> QED  BY <1>1, FilesInvAlways, PTL

(* The rows of the file, its consumers and its jobs keep their types.      *)
THEOREM FilesTyped == Spec => []TypeOK
  <1>1. FilesInv => TypeOK
    BY DEF FilesInv
  <1> QED  BY <1>1, FilesInvAlways, PTL
=============================================================================
