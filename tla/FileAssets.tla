----------------------------- MODULE FileAssets -----------------------------
(***************************************************************************)
(* Uploaded files and the deletion of their bytes: the rows of file_assets *)
(* (backend/app/files/application), the object store, and the outbox jobs  *)
(* that delete an object.  One asset has one row and at most one object,   *)
(* which is created once and never overwritten.                            *)
(*                                                                         *)
(* An upload holds the row's lock from its first check to its commit; a    *)
(* confirmation, a deletion and the orphan sweep wait for that lock or     *)
(* skip the row, so each of them is one step taken while no upload runs.   *)
(* A consumer that has to verify a pending upload commits in between,      *)
(* which gives the lock up before it marks the asset consumed.             *)
(***************************************************************************)
EXTENDS Outbox

CONSTANT Assets

Kinds == {"delete_object", "cleanup_failed_upload"}

\* The idempotency keys of the two jobs are "<kind>:<asset id>".
ASSUME AssetJobs == Jobs = Kinds \X Assets

VARIABLES
    asset,      \* asset[a]: the row of a in file_assets
    blob,       \* the assets whose object is in the object store
    uploading,  \* the assets whose row an upload request holds locked
    consuming   \* the assets a consumer verified but has not marked yet

vars == <<job, attempt, asset, blob, uploading, consuming>>

Readable == {"uploaded", "consumed"}
UploadStatus == Readable \cup
    {"absent", "pending_upload", "failed", "delete_pending", "deleted", "removed"}

\* deleted_at: the column is not null.
AssetRow == [upload_status : UploadStatus, deleted_at : BOOLEAN]

DeleteJob(a) == <<"delete_object", a>>
CleanupJob(a) == <<"cleanup_failed_upload", a>>
AssetOf(j) == j[2]

TypeOK ==
    /\ OutboxTypeOK
    /\ asset \in [Assets -> AssetRow]
    /\ blob \subseteq Assets
    /\ uploading \subseteq Assets
    /\ consuming \subseteq Assets

Init ==
    /\ OutboxInit
    /\ asset = [a \in Assets |-> [upload_status |-> "absent", deleted_at |-> FALSE]]
    /\ blob = {}
    /\ uploading = {}
    /\ consuming = {}

Live(a) ==
    /\ asset[a].upload_status \notin {"absent", "removed"}
    /\ ~asset[a].deleted_at

-----------------------------------------------------------------------------
(* Mutant: a reserved row starts with a status nobody knows.               *)
MutantCreateFileAsset(a) ==
    /\ asset[a].upload_status = "absent"
    /\ asset' = [asset EXCEPT ![a].upload_status = "pending"]
    /\ UNCHANGED <<outboxVars, blob, uploading, consuming>>

(* A row is reserved and a capability to upload its bytes is minted.       *)
CreateFileAsset(a) ==
    /\ asset[a].upload_status = "absent"
    /\ asset' = [asset EXCEPT ![a].upload_status = "pending_upload"]
    /\ UNCHANGED <<outboxVars, blob, uploading, consuming>>

(* Mutant: the request does not look at the status under the lock.         *)
MutantBeginUpload(a) ==
    /\ asset[a].upload_status # "absent"
    /\ a \notin uploading
    /\ a \notin blob
    /\ uploading' = uploading \cup {a}
    /\ UNCHANGED <<outboxVars, asset, blob, consuming>>

(* The upload request locks the row of a pending asset that has no object. *)
BeginUpload(a) ==
    /\ asset[a] = [upload_status |-> "pending_upload", deleted_at |-> FALSE]
    /\ a \notin uploading
    /\ a \notin blob
    /\ uploading' = uploading \cup {a}
    /\ UNCHANGED <<outboxVars, asset, blob, consuming>>

(* The object is created; the row still says pending.                      *)
StoreObject(a) ==
    /\ a \in uploading
    /\ a \notin blob
    /\ blob' = blob \cup {a}
    /\ UNCHANGED <<outboxVars, asset, uploading, consuming>>

(* The request ends and the lock goes: the digest was committed, or the    *)
(* request failed or died before or after it stored the object.            *)
EndUpload(a) ==
    /\ a \in uploading
    /\ uploading' = uploading \ {a}
    /\ UNCHANGED <<outboxVars, asset, blob, consuming>>

(* Mutant: a failed asset may be verified again.                           *)
MutantCanVerify(a) ==
    /\ asset[a].upload_status \in {"pending_upload", "failed"}
    /\ ~asset[a].deleted_at
    /\ a \notin uploading

(* _verify_pending_asset applies to a live row that is still pending.      *)
CanVerify(a) ==
    /\ asset[a] = [upload_status |-> "pending_upload", deleted_at |-> FALSE]
    /\ a \notin uploading

(* No object, the wrong size or the wrong content: the asset fails and the *)
(* removal of its bytes is enqueued in the same transaction.               *)
FailAsset(a) ==
    /\ CanVerify(a)
    /\ asset' = [asset EXCEPT ![a].upload_status = "failed"]
    /\ job' = Enqueued(CleanupJob(a))
    /\ UNCHANGED <<attempt, blob, uploading, consuming>>

(* The object is as declared: the confirmation commits.                    *)
ConfirmAsset(a) ==
    /\ CanVerify(a)
    /\ a \in blob
    /\ asset' = [asset EXCEPT ![a].upload_status = "uploaded"]
    /\ UNCHANGED <<outboxVars, blob, uploading, consuming>>

(* The same verification made by a consumer (ensure_uploaded), which then  *)
(* goes on with the row unlocked.                                          *)
ConfirmOnConsume(a) ==
    /\ CanVerify(a)
    /\ a \in blob
    /\ a \notin consuming
    /\ asset' = [asset EXCEPT ![a].upload_status = "uploaded"]
    /\ consuming' = consuming \cup {a}
    /\ UNCHANGED <<outboxVars, blob, uploading>>

(* That consumer's second transaction writes the status unconditionally;   *)
(* a row that is gone fails it.                                            *)
MarkConsumed(a) ==
    /\ a \in consuming
    /\ asset' = IF asset[a].upload_status = "removed" THEN asset
                ELSE [asset EXCEPT ![a].upload_status = "consumed"]
    /\ consuming' = consuming \ {a}
    /\ UNCHANGED <<outboxVars, blob, uploading>>

(* A consumer of an asset that was confirmed before keeps the lock.        *)
ConsumeConfirmed(a) ==
    /\ asset[a].upload_status = "uploaded"
    /\ ~asset[a].deleted_at
    /\ asset' = [asset EXCEPT ![a].upload_status = "consumed"]
    /\ UNCHANGED <<outboxVars, blob, uploading, consuming>>

(* The user deletes the file for good: a tombstone, and a job for the      *)
(* bytes, in one transaction.                                              *)
PermanentlyDelete(a) ==
    /\ Live(a)
    /\ a \notin uploading
    /\ asset[a].upload_status \notin {"delete_pending", "deleted"}
    /\ asset' = [asset EXCEPT ![a].upload_status = "delete_pending",
                              ![a].deleted_at = TRUE]
    /\ job' = Enqueued(DeleteJob(a))
    /\ UNCHANGED <<attempt, blob, uploading, consuming>>

(* The daily sweep of uploads nobody finished within a day; the bytes of a *)
(* failed one have their cleanup job already.                              *)
ExpireOrphan(a) ==
    /\ Live(a)
    /\ a \notin uploading
    /\ asset[a].upload_status \in {"pending_upload", "failed"}
    /\ asset' = [asset EXCEPT ![a].upload_status = "deleted", ![a].deleted_at = TRUE]
    /\ job' = IF asset[a].upload_status = "pending_upload"
              THEN Enqueued(DeleteJob(a)) ELSE job
    /\ UNCHANGED <<attempt, blob, uploading, consuming>>

(* The business object that consumed the file goes, and the row with it.   *)
(* A knowledge document names its job after itself; as a file has one      *)
(* document, and the object is the same, DeleteJob stands for both.        *)
RemoveRow(a) ==
    /\ asset[a].upload_status \in Readable \cup {"delete_pending", "deleted"}
    /\ asset' = [asset EXCEPT ![a].upload_status = "removed", ![a].deleted_at = TRUE]
    /\ job' = Enqueued(DeleteJob(a))
    /\ UNCHANGED <<attempt, blob, uploading, consuming>>

-----------------------------------------------------------------------------
(* The fields of the snapshot a handler is given (class OutboxAttempt).    *)
SnapshotFields ==
    {"id", "user_id", "job_type", "aggregate_id", "payload_json",
     "idempotency_key", "attempts", "max_attempts", "status", "lease_version",
     "locked_by"}

(* getattr(job, "aggregate_type", None) == "file_asset" and the row waits. *)
Graduates(a) ==
    /\ "aggregate_type" \in SnapshotFields
    /\ asset[a].upload_status = "delete_pending"

(* The handler deletes the object; a missing one is a success.             *)
DeleteObject(w) ==
    /\ CallHandler(w)
    /\ blob' = blob \ {AssetOf(attempt[w].job)}
    /\ UNCHANGED <<asset, uploading, consuming>>

(* Its write to the row commits with the settlement, or not at all.        *)
FinishDelete(w) ==
    /\ SettleSuccess(w)
    /\ LET a == AssetOf(attempt[w].job) IN
       asset' = IF OwnsJob(w) /\ Graduates(a)
                THEN [asset EXCEPT ![a].upload_status = "deleted"] ELSE asset
    /\ UNCHANGED <<blob, uploading, consuming>>

(* The steps of the outbox that leave the files alone.                     *)
DrainStep(w) ==
    /\ \/ \E j \in Jobs : BuryAtClaim(w, j) \/ Claim(w, j)
       \/ RenewLease(w)
       \/ SettleFailure(w)
       \/ Crash(w)
    /\ UNCHANGED <<asset, blob, uploading, consuming>>

TimePasses ==
    /\ \E j \in Jobs : BackoffElapses(j) \/ LeaseAges(j)
    /\ UNCHANGED <<asset, blob, uploading, consuming>>

Upload(a) == CreateFileAsset(a) \/ BeginUpload(a) \/ StoreObject(a) \/ EndUpload(a)

Consume(a) ==
    \/ FailAsset(a)
    \/ ConfirmAsset(a)
    \/ ConfirmOnConsume(a)
    \/ MarkConsumed(a)
    \/ ConsumeConfirmed(a)

Delete(a) == PermanentlyDelete(a) \/ ExpireOrphan(a) \/ RemoveRow(a)

Next ==
    \/ \E a \in Assets : Upload(a) \/ Consume(a) \/ Delete(a)
    \/ \E w \in Workers : DeleteObject(w) \/ FinishDelete(w) \/ DrainStep(w)
    \/ TimePasses

(* A started run ends: Celery kills a drain at its hard time limit.  A due *)
(* or abandoned job is claimed: Beat drains every five minutes.  Time      *)
(* passes for a backoff, and for a lease no worker can renew any more.     *)
HasOwner(j) == \E w \in Workers : attempt[w].job = j /\ OwnsJob(w)

RunEnds(w) ==
    \/ FinishDelete(w)
    \/ (SettleFailure(w) \/ Crash(w)) /\ UNCHANGED <<asset, blob, uploading, consuming>>

ClaimDue(j) ==
    /\ \E w \in Workers : BuryAtClaim(w, j) \/ Claim(w, j)
    /\ UNCHANGED <<asset, blob, uploading, consuming>>

WaitEnds(j) ==
    /\ BackoffElapses(j) \/ (LeaseAges(j) /\ ~HasOwner(j))
    /\ UNCHANGED <<asset, blob, uploading, consuming>>

Fairness ==
    /\ \A w \in Workers : WF_vars(RunEnds(w))
    /\ \A j \in Jobs : WF_vars(ClaimDue(j)) /\ WF_vars(WaitEnds(j))

Spec == Init /\ [][Next]_vars
FairSpec == Spec /\ Fairness

-----------------------------------------------------------------------------
(* A file that can be read has its bytes: no deletion, late retry or       *)
(* second run of a cleanup job removes the object of a verified asset.     *)
ReadableHasBytes ==
    \A a \in Assets :
        asset[a].upload_status \in Readable /\ ~asset[a].deleted_at => a \in blob

(* Bytes of a failed, expired, deleted or removed asset do not linger: as  *)
(* long as they are in the store, a job that removes them has not          *)
(* succeeded.                                                              *)
NoLingeringBytes ==
    \A a \in blob :
        asset[a].upload_status = "failed" \/ asset[a].deleted_at =>
          \E j \in {DeleteJob(a), CleanupJob(a)} :
             job[j].status \notin {"absent", "succeeded"}

(* What platform/outbox.py:403-406 says of its handler: the deletion of a  *)
(* FileAsset's bytes graduates its tombstone from delete_pending to        *)
(* deleted.                                                                *)
DeletionGraduates ==
    \A a \in Assets :
        job[DeleteJob(a)].status = "succeeded" =>
          asset[a].upload_status # "delete_pending"
=============================================================================
