---------------------------- MODULE OutboxProofs ----------------------------
(* Proofs about the outbox, for any jobs, workers and max_attempts.        *)
EXTENDS Outbox, TLAPS

(* A worker that still has the lease runs with the count of attempts its   *)
(* row has, so that counting from the snapshot loses nothing.              *)
SnapshotIsCurrent ==
    \A w \in Workers :
        attempt[w].job # NoJob =>
          /\ job[attempt[w].job].status # "absent"
          /\ OwnsJob(w) => attempt[w].attempts = job[attempt[w].job].attempts

OutboxInv == OutboxTypeOK /\ SnapshotIsCurrent /\ StartsAreCounted

(* What one row may become in one step.                                    *)
RowSettled(j) ==
    /\ job[j].status = "running"
    /\ job'[j].status \in {"succeeded", "failed"}
    => \E w \in Workers :
         /\ attempt[w].job = j
         /\ attempt[w].lease_version = job[j].lease_version
         /\ attempt'[w] = Idle

RowFinal(j) == job[j].status \in Finished => job'[j] = job[j]

OutboxStep ==
    /\ OutboxInv'
    /\ \A j \in Jobs : RowSettled(j) /\ RowFinal(j)

-----------------------------------------------------------------------------
(* A step that leaves the attempts alone and moves the clock of one row.   *)
LEMMA ClockIsSafe ==
    ASSUME OutboxInv, NEW j \in Jobs,
           BackoffElapses(j) \/ LeaseAges(j)
    PROVE  OutboxStep
  <1>1. OutboxTypeOK'
    BY ZenonT(40) DEF OutboxInv, OutboxTypeOK, BackoffElapses, LeaseAges, JobRow
  <1>2. \A k \in Jobs :
          /\ job'[k].status = job[k].status
          /\ job'[k].attempts = job[k].attempts
          /\ job'[k].lease_version = job[k].lease_version
          /\ job'[k].locked_by = job[k].locked_by
    BY DEF OutboxInv, OutboxTypeOK, BackoffElapses, LeaseAges, JobRow
  <1>3. attempt' = attempt
    BY DEF BackoffElapses, LeaseAges
  <1>4. SnapshotIsCurrent'
    BY <1>2, <1>3, OutboxConstants
    DEF OutboxInv, OutboxTypeOK, SnapshotIsCurrent, OwnsJob, Attempt
  <1>5. StartsAreCounted'
    BY <1>2 DEF OutboxInv, StartsAreCounted
  <1>6. \A k \in Jobs : RowSettled(k) /\ RowFinal(k)
    <2>1. \A k \in Jobs : RowSettled(k)
      BY <1>2 DEF RowSettled
    <2>2. \A k \in Jobs : RowFinal(k)
      BY DEF OutboxInv, OutboxTypeOK, BackoffElapses, LeaseAges, RowFinal, Finished
    <2> QED  BY <2>1, <2>2
  <1> QED  BY <1>1, <1>4, <1>5, <1>6 DEF OutboxStep, OutboxInv

(* A business transaction enqueues a job, or finds it enqueued already.    *)
LEMMA EnqueuedIsSafe ==
    ASSUME OutboxInv, NEW j \in Jobs,
           job' = Enqueued(j), UNCHANGED attempt
    PROVE  OutboxStep
  <1>1. OutboxTypeOK'
    BY ZenonT(40) DEF OutboxInv, OutboxTypeOK, Enqueued, JobRow, JobStatus
  <1>2. \A k \in Jobs :
          /\ job'[k].attempts = job[k].attempts
          /\ job'[k].lease_version = job[k].lease_version
          /\ job'[k].locked_by = job[k].locked_by
          /\ job[k].status # "absent" => job'[k] = job[k]
          /\ job[k].status = "absent" => job'[k].status \in {"absent", "pending"}
    BY DEF OutboxInv, OutboxTypeOK, Enqueued, JobRow
  <1>4. SnapshotIsCurrent'
    BY <1>2, OutboxConstants
    DEF OutboxInv, OutboxTypeOK, SnapshotIsCurrent, OwnsJob, Attempt
  <1>5. StartsAreCounted'
    BY <1>2 DEF OutboxInv, StartsAreCounted
  <1>6. \A k \in Jobs : RowSettled(k) /\ RowFinal(k)
    BY <1>2 DEF RowSettled, RowFinal, Finished
  <1> QED  BY <1>1, <1>4, <1>5, <1>6 DEF OutboxStep, OutboxInv

(* A claim gives the job up.                                               *)
LEMMA BuryIsSafe ==
    ASSUME OutboxInv, NEW w \in Workers, NEW j \in Jobs, BuryAtClaim(w, j)
    PROVE  OutboxStep
  <1>1. OutboxTypeOK'
    <2>1. AttemptsAtClaim(j) \in Nat
      BY DEF OutboxInv, OutboxTypeOK, AttemptsAtClaim, JobRow
    <2>2. PICK n \in Nat :
            job' = [job EXCEPT ![j].status = "dead", ![j].attempts = n,
                               ![j].locked_by = NoWorker, ![j].aged = FALSE]
      BY <2>1 DEF BuryAtClaim
    <2> DEFINE row == [job[j] EXCEPT !.status = "dead", !.attempts = n,
                                     !.locked_by = NoWorker, !.aged = FALSE]
    <2>3. job[j] \in JobRow
      BY DEF OutboxInv, OutboxTypeOK
    <2>4. row \in JobRow
      BY <2>3 DEF JobRow, JobStatus
    <2>5. job' = [job EXCEPT ![j] = row]
      BY <2>2
    <2>6. job' \in [Jobs -> JobRow]
      <3> HIDE DEF row
      <3> QED  BY <2>4, <2>5 DEF OutboxInv, OutboxTypeOK
    <2> QED  BY <2>6 DEF OutboxInv, OutboxTypeOK, BuryAtClaim
  <1>2. /\ attempt' = attempt
        /\ \A k \in Jobs : k # j => job'[k] = job[k]
        /\ job'[j].status = "dead"
        /\ job'[j].attempts = AttemptsAtClaim(j)
        /\ job'[j].lease_version = job[j].lease_version
    BY DEF OutboxInv, OutboxTypeOK, BuryAtClaim, JobRow
  <1>3. job[j].status \in {"pending", "failed", "running"}
    BY DEF BuryAtClaim, CanClaim, Claimable
  <1>4. SnapshotIsCurrent'
    BY <1>2, <1>3, OutboxConstants
    DEF OutboxInv, OutboxTypeOK, SnapshotIsCurrent, OwnsJob, Attempt
  <1>5. StartsAreCounted'
    BY <1>2, <1>3 DEF OutboxInv, StartsAreCounted, AttemptsAtClaim
  <1>6. \A k \in Jobs : RowSettled(k) /\ RowFinal(k)
    BY <1>2, <1>3 DEF RowSettled, RowFinal, Finished
  <1> QED  BY <1>1, <1>4, <1>5, <1>6 DEF OutboxStep, OutboxInv

(* A claim starts a run.                                                   *)
LEMMA ClaimIsSafe ==
    ASSUME OutboxInv, NEW w \in Workers, NEW j \in Jobs, Claim(w, j)
    PROVE  OutboxStep
  <1>1. OutboxTypeOK'
    <2>1. AttemptsAtClaim(j) \in Nat /\ job[j].lease_version + 1 \in Nat
      BY DEF OutboxInv, OutboxTypeOK, AttemptsAtClaim, JobRow
    <2>2. job' \in [Jobs -> JobRow]
      BY <2>1 DEF OutboxInv, OutboxTypeOK, Claim, JobRow, JobStatus
    <2>3. attempt' \in [Workers -> Attempt]
      BY <2>1 DEF OutboxInv, OutboxTypeOK, Claim, Attempt
    <2> QED  BY <2>2, <2>3 DEF OutboxTypeOK
  <1>2. /\ \A k \in Jobs : k # j => job'[k] = job[k]
        /\ job'[j].status = "running"
        /\ job'[j].attempts = AttemptsAtClaim(j)
        /\ job'[j].lease_version = job[j].lease_version + 1
        /\ job'[j].locked_by = w
        /\ \A v \in Workers : v # w => attempt'[v] = attempt[v]
        /\ attempt'[w].job = j
        /\ attempt'[w].attempts = AttemptsAtClaim(j)
    BY DEF OutboxInv, OutboxTypeOK, Claim, JobRow
  <1>3. /\ job[j].status \in {"pending", "failed", "running"}
        /\ AttemptsAtClaim(j) < MaxAttempts
    BY DEF Claim, CanClaim, Claimable
  <1>4. SnapshotIsCurrent'
    <2> SUFFICES ASSUME NEW v \in Workers, attempt'[v].job # NoJob
                 PROVE  /\ job'[attempt'[v].job].status # "absent"
                        /\ OwnsJob(v)' => attempt'[v].attempts = job'[attempt'[v].job].attempts
      BY DEF SnapshotIsCurrent
    <2>1. CASE v = w
      BY <1>2, <2>1
    <2>2. CASE v # w
      <3>1. attempt'[v] = attempt[v] /\ attempt[v].job \in Jobs
        BY <1>2, <2>2 DEF OutboxInv, OutboxTypeOK, Attempt
      <3>2. CASE attempt[v].job = j
        BY <1>2, <2>2, <3>1, <3>2 DEF OwnsJob
      <3>3. CASE attempt[v].job # j
        BY <1>2, <3>1, <3>3 DEF OutboxInv, SnapshotIsCurrent, OwnsJob
      <3> QED  BY <3>2, <3>3
    <2> QED  BY <2>1, <2>2
  <1>5. StartsAreCounted'
    BY <1>2, <1>3, OutboxConstants
    DEF OutboxInv, OutboxTypeOK, JobRow, StartsAreCounted, AttemptsAtClaim
  <1>6. \A k \in Jobs : RowSettled(k) /\ RowFinal(k)
    BY <1>2, <1>3 DEF RowSettled, RowFinal, Finished
  <1> QED  BY <1>1, <1>4, <1>5, <1>6 DEF OutboxStep, OutboxInv

(* The renewal thread and the handler's call.                              *)
LEMMA RunningIsSafe ==
    ASSUME OutboxInv, NEW w \in Workers, RenewLease(w) \/ CallHandler(w) \/ Crash(w)
    PROVE  OutboxStep
  <1>1. attempt[w].job \in Jobs
    BY DEF OutboxInv, OutboxTypeOK, Attempt, RenewLease, CallHandler, Crash
  <1>2. OutboxTypeOK'
    <2>1. CASE RenewLease(w)
      <3>1. job' \in [Jobs -> JobRow]
        BY <1>1, <2>1 DEF OutboxInv, OutboxTypeOK, RenewLease, JobRow
      <3> QED  BY <2>1, <3>1 DEF OutboxInv, OutboxTypeOK, RenewLease
    <2>2. CASE CallHandler(w)
      <3>1. attempt' \in [Workers -> Attempt]
        BY <2>2 DEF OutboxInv, OutboxTypeOK, CallHandler, Attempt
      <3> QED  BY <2>2, <3>1 DEF OutboxInv, OutboxTypeOK, CallHandler
    <2>3. CASE Crash(w)
      <3>1. attempt' \in [Workers -> Attempt]
        BY <2>3 DEF OutboxInv, OutboxTypeOK, Crash, Attempt, Idle
      <3> QED  BY <2>3, <3>1 DEF OutboxInv, OutboxTypeOK, Crash
    <2> QED  BY <2>1, <2>2, <2>3
  <1>3. /\ \A k \in Jobs :
             /\ job'[k].status = job[k].status
             /\ job'[k].attempts = job[k].attempts
             /\ job'[k].lease_version = job[k].lease_version
             /\ job'[k].locked_by = job[k].locked_by
             /\ job[k].status # "running" => job'[k] = job[k]
        /\ \A v \in Workers :
             attempt'[v].job # NoJob =>
               /\ attempt'[v].job = attempt[v].job
               /\ attempt'[v].lease_version = attempt[v].lease_version
               /\ attempt'[v].attempts = attempt[v].attempts
    BY <1>1, SMTT(30) DEF OutboxInv, OutboxTypeOK, RenewLease, CallHandler, Crash, OwnsJob,
                JobRow, Attempt, Idle
  <1>4. SnapshotIsCurrent'
    BY <1>3 DEF OutboxInv, OutboxTypeOK, SnapshotIsCurrent, OwnsJob, Attempt
  <1>5. StartsAreCounted'
    BY <1>3 DEF OutboxInv, StartsAreCounted
  <1>6. \A k \in Jobs : RowSettled(k) /\ RowFinal(k)
    BY <1>3 DEF RowSettled, RowFinal, Finished
  <1> QED  BY <1>2, <1>4, <1>5, <1>6 DEF OutboxStep, OutboxInv

(* A settlement, by the holder of the lease or by a stale owner.           *)
LEMMA SettleIsSafe ==
    ASSUME OutboxInv, NEW w \in Workers, SettleSuccess(w) \/ SettleFailure(w)
    PROVE  OutboxStep
  <1> DEFINE j == attempt[w].job
  <1>1. /\ j \in Jobs
        /\ attempt[w].attempts \in Nat
    BY DEF OutboxInv, OutboxTypeOK, Attempt, SettleSuccess, SettleFailure
  <1>2. PICK status \in {"succeeded", "failed", "dead"}, n \in Nat :
          /\ Settle(w, status, n)
          /\ n = IF status = "succeeded" THEN attempt[w].attempts
                 ELSE attempt[w].attempts + 1
    BY <1>1 DEF SettleSuccess, SettleFailure
  <1>3. attempt' = [attempt EXCEPT ![w] = Idle]
    BY <1>2 DEF Settle
  <1>4. attempt' \in [Workers -> Attempt]
    BY <1>3 DEF OutboxInv, OutboxTypeOK, Attempt, Idle
  <1>5. \A v \in Workers :
          /\ v # w => attempt'[v] = attempt[v]
          /\ attempt'[w].job = NoJob
    BY <1>3 DEF OutboxInv, OutboxTypeOK, Idle
  <1>6. CASE ~OwnsJob(w)
    <2>1. job' = job
      BY <1>2, <1>6 DEF Settle
    <2>2. OutboxTypeOK' /\ StartsAreCounted'
      BY <2>1, <1>4 DEF OutboxInv, OutboxTypeOK, StartsAreCounted
    <2>3. SnapshotIsCurrent'
      BY <2>1, <1>5 DEF OutboxInv, SnapshotIsCurrent, OwnsJob
    <2>4. \A k \in Jobs : RowSettled(k) /\ RowFinal(k)
      BY <2>1 DEF RowSettled, RowFinal
    <2> QED  BY <2>2, <2>3, <2>4 DEF OutboxStep, OutboxInv
  <1>7. CASE OwnsJob(w)
    <2>1. job' = [job EXCEPT ![j].status = status, ![j].attempts = n,
                             ![j].due = (status = "succeeded"),
                             ![j].locked_by = NoWorker, ![j].aged = FALSE]
      BY <1>2, <1>7 DEF Settle
    <2>2. job' \in [Jobs -> JobRow]
      <3>1. PICK flag \in BOOLEAN : flag = (status = "succeeded")
        OBVIOUS
      <3>2. job' = [job EXCEPT ![j].status = status, ![j].attempts = n,
                               ![j].due = flag,
                               ![j].locked_by = NoWorker, ![j].aged = FALSE]
        BY <2>1, <3>1
      <3> QED  BY <1>1, <3>2, SMTT(30) DEF OutboxInv, OutboxTypeOK, JobRow, JobStatus
    <2>3. /\ \A k \in Jobs : k # j => job'[k] = job[k]
          /\ job'[j].status = status
          /\ job'[j].attempts = n
          /\ job'[j].lease_version = job[j].lease_version
      BY <1>1, <2>1 DEF OutboxInv, OutboxTypeOK, JobRow
    <2>4. /\ job[j].status = "running"
          /\ attempt[w].lease_version = job[j].lease_version
          /\ attempt[w].attempts = job[j].attempts
      BY <1>1, <1>7, OutboxConstants DEF OutboxInv, SnapshotIsCurrent, OwnsJob
    <2>5. SnapshotIsCurrent'
      BY <1>5, <2>3, OutboxConstants
      DEF OutboxInv, OutboxTypeOK, SnapshotIsCurrent, OwnsJob, Attempt
    <2>6. StartsAreCounted'
      BY <1>1, <1>2, <2>3, <2>4
      DEF OutboxInv, OutboxTypeOK, JobRow, StartsAreCounted
    <2>7. \A k \in Jobs : RowSettled(k)
      BY <1>1, <1>3, <2>3, <2>4 DEF OutboxInv, OutboxTypeOK, RowSettled
    <2>8. \A k \in Jobs : RowFinal(k)
      BY <2>3, <2>4 DEF RowFinal, Finished
    <2> QED  BY <1>4, <2>2, <2>5, <2>6, <2>7, <2>8
             DEF OutboxStep, OutboxInv, OutboxTypeOK
  <1> QED  BY <1>6, <1>7

(* Nothing happens to the outbox.                                          *)
LEMMA StutterIsSafe ==
    ASSUME OutboxInv, UNCHANGED outboxVars
    PROVE  OutboxStep
  BY DEF OutboxInv, OutboxTypeOK, SnapshotIsCurrent, OwnsJob, StartsAreCounted,
         outboxVars, OutboxStep, RowSettled, RowFinal

-----------------------------------------------------------------------------
(* Every step of the outbox keeps the invariant, settles a run only in the *)
(* hands of its holder and leaves finished jobs alone.                     *)
THEOREM OutboxStepIsSafe ==
    OutboxInv /\ [OutboxNext]_outboxVars => OutboxStep
  <1> SUFFICES ASSUME OutboxInv, [OutboxNext]_outboxVars
               PROVE  OutboxStep
    OBVIOUS
  <1>1. ASSUME NEW j \in Jobs, Enqueue(j)  PROVE OutboxStep
    BY <1>1, EnqueuedIsSafe DEF Enqueue
  <1>2. ASSUME NEW j \in Jobs, BackoffElapses(j) \/ LeaseAges(j)  PROVE OutboxStep
    BY <1>2, ClockIsSafe
  <1>3. ASSUME NEW w \in Workers, Drain(w)  PROVE OutboxStep
    BY <1>3, BuryIsSafe, ClaimIsSafe, RunningIsSafe, SettleIsSafe DEF Drain
  <1>4. CASE UNCHANGED outboxVars
    BY <1>4, StutterIsSafe
  <1> QED  BY <1>1, <1>2, <1>3, <1>4 DEF OutboxNext

(* The invariant holds of every behaviour of the outbox.                   *)
THEOREM OutboxInvAlways == OutboxSpec => []OutboxInv
  <1>1. OutboxInit => OutboxInv
    BY OutboxConstants
    DEF OutboxInit, OutboxInv, OutboxTypeOK, SnapshotIsCurrent, StartsAreCounted,
        Absent, Idle, JobRow, Attempt, JobStatus
  <1>2. OutboxInv /\ [OutboxNext]_outboxVars => OutboxInv'
    BY OutboxStepIsSafe DEF OutboxStep
  <1> QED  BY <1>1, <1>2, PTL DEF OutboxSpec

(* A handler is started at most max_attempts times, however its runs end.  *)
THEOREM OutboxStartsAreCounted == OutboxSpec => []StartsAreCounted
  <1>1. OutboxInv => StartsAreCounted
    BY DEF OutboxInv
  <1> QED  BY <1>1, OutboxInvAlways, PTL

(* Only the holder of the latest lease settles a run.                      *)
THEOREM OutboxSettledByItsHolder == OutboxSpec => SettledByItsHolder
  <1>1. OutboxInv /\ [OutboxNext]_outboxVars
          => [\A j \in Jobs : RowSettled(j)]_outboxVars
    BY OutboxStepIsSafe DEF OutboxStep
  <1> QED  BY <1>1, OutboxInvAlways, PTL
           DEF OutboxSpec, SettledByItsHolder, RowSettled

(* A finished job never changes.                                           *)
THEOREM OutboxFinishedIsFinal == OutboxSpec => FinishedIsFinal
  <1>1. OutboxInv /\ [OutboxNext]_outboxVars
          => [\A j \in Jobs : RowFinal(j)]_outboxVars
    BY OutboxStepIsSafe DEF OutboxStep
  <1> QED  BY <1>1, OutboxInvAlways, PTL DEF OutboxSpec, FinishedIsFinal, RowFinal

(* A business transaction that enqueues a job is a step of the outbox.     *)
LEMMA EnqueuedIsOutboxStep ==
    ASSUME NEW j \in Jobs, OutboxTypeOK, job' = Enqueued(j), UNCHANGED attempt
    PROVE  [OutboxNext]_outboxVars
  <1>1. CASE job[j].status = "absent"
    BY <1>1 DEF OutboxNext, Enqueue
  <1>2. CASE job[j].status # "absent"
    BY <1>2 DEF Enqueued, outboxVars
  <1> QED  BY <1>1, <1>2

-----------------------------------------------------------------------------
(* What the end of every job rests on, beside fairness: no job is left     *)
(* where no drain can claim it, and no job can be run forever.             *)

(* A row is locked exactly while it is running, and a job that was never   *)
(* claimed is due.                                                         *)
LocksAreOfRuns ==
    \A j \in Jobs :
        /\ job[j].locked_by = NoWorker <=> job[j].status # "running"
        /\ job[j].status = "pending" => job[j].due

(* No job is stranded: a drain can claim every job that waits, a failed    *)
(* one once its backoff elapsed, and take every running one over once its  *)
(* lease aged - whatever its earlier runs died of.                         *)
NoJobIsStranded ==
    \A j \in Jobs :
        /\ job[j].status = "pending" => CanClaim(j)
        /\ job[j].status = "failed" /\ job[j].due => CanClaim(j)
        /\ job[j].status = "running" /\ job[j].aged => CanClaim(j)

(* How many more moves the row of j can make: two for each attempt left    *)
(* (a claim and a failure), and those its status still has ahead.          *)
MovesAhead(j) ==
    CASE job[j].status = "absent" -> 3
      [] job[j].status \in Claimable -> 2
      [] job[j].status = "running" -> 1
      [] job[j].status \in Finished -> 0

MovesLeft(j) == 2 * (MaxAttempts - job[j].attempts) + MovesAhead(j)

(* The moves of one row between its statuses.                              *)
RowMoves(j) ==
    LET old == job[j]
        new == job'[j] IN
    \/ /\ new.status = old.status
       /\ new.attempts = old.attempts
       /\ new.lease_version = old.lease_version
       /\ new.locked_by = old.locked_by
       /\ old.status = "pending" => new.due = old.due
    \/ /\ old.status = "absent" /\ new.status = "pending"
       /\ new.attempts = old.attempts
       /\ new.locked_by = old.locked_by
       /\ new.due
    \/ /\ old.status \in Claimable \cup {"running"}
       /\ new.status \in {"running", "dead"}
       /\ new.attempts = AttemptsAtClaim(j)
       /\ new.locked_by = NoWorker <=> new.status = "dead"
    \/ /\ old.status = "running" /\ new.status = "succeeded"
       /\ new.attempts = old.attempts
       /\ new.locked_by = NoWorker
    \/ /\ old.status = "running" /\ new.status \in {"failed", "dead"}
       /\ new.attempts = old.attempts + 1
       /\ new.locked_by = NoWorker

(* Every step moves every row along one of these.                          *)
LEMMA EveryRowMoves ==
    ASSUME OutboxInv, [OutboxNext]_outboxVars, NEW j \in Jobs
    PROVE  RowMoves(j)
  <1>1. ASSUME NEW k \in Jobs, Enqueue(k)  PROVE RowMoves(j)
    BY <1>1 DEF Enqueue, Enqueued, RowMoves, OutboxInv, OutboxTypeOK, JobRow
  <1>2. ASSUME NEW k \in Jobs, BackoffElapses(k) \/ LeaseAges(k)  PROVE RowMoves(j)
    BY <1>2 DEF BackoffElapses, LeaseAges, RowMoves, OutboxInv, OutboxTypeOK, JobRow
  <1>3. ASSUME NEW w \in Workers, NEW k \in Jobs, BuryAtClaim(w, k)
        PROVE  RowMoves(j)
    <2>1. CASE j = k
      BY <1>3, <2>1
      DEF BuryAtClaim, CanClaim, RowMoves, OutboxInv, OutboxTypeOK, JobRow
    <2>2. CASE j # k
      BY <1>3, <2>2 DEF BuryAtClaim, RowMoves, OutboxInv, OutboxTypeOK
    <2> QED  BY <2>1, <2>2
  <1>4. ASSUME NEW w \in Workers, NEW k \in Jobs, Claim(w, k)
        PROVE  RowMoves(j)
    <2>1. CASE j = k
      BY <1>4, <2>1, OutboxConstants
      DEF Claim, CanClaim, RowMoves, OutboxInv, OutboxTypeOK, JobRow
    <2>2. CASE j # k
      BY <1>4, <2>2 DEF Claim, RowMoves, OutboxInv, OutboxTypeOK
    <2> QED  BY <2>1, <2>2
  <1>5. ASSUME NEW w \in Workers, RenewLease(w) \/ CallHandler(w) \/ Crash(w)
        PROVE  RowMoves(j)
    BY <1>5 DEF RenewLease, CallHandler, Crash, RowMoves, OutboxInv,
                OutboxTypeOK, JobRow
  <1>6. ASSUME NEW w \in Workers, SettleSuccess(w) \/ SettleFailure(w)
        PROVE  RowMoves(j)
    <2>1. attempt[w].job # NoJob
      BY <1>6 DEF SettleSuccess, SettleFailure
    <2>2. CASE attempt[w].job = j /\ OwnsJob(w)
      <3>1. job[j].status = "running" /\ attempt[w].attempts = job[j].attempts
        BY <2>1, <2>2 DEF OutboxInv, SnapshotIsCurrent, OwnsJob
      <3>2. CASE SettleSuccess(w)
        BY <2>2, <3>1, <3>2
        DEF SettleSuccess, Settle, RowMoves, OutboxInv, OutboxTypeOK, JobRow
      <3>3. CASE SettleFailure(w)
        BY <2>2, <3>1, <3>3
        DEF SettleFailure, Settle, RowMoves, OutboxInv, OutboxTypeOK, JobRow
      <3> QED  BY <1>6, <3>2, <3>3
    <2>3. CASE attempt[w].job # j \/ ~OwnsJob(w)
      <3>1. job'[j] = job[j]
        BY <1>6, <2>3 DEF SettleSuccess, SettleFailure, Settle, OutboxInv, OutboxTypeOK
      <3> QED  BY <3>1 DEF RowMoves
    <2> QED  BY <2>2, <2>3
  <1>7. CASE UNCHANGED outboxVars
    BY <1>7 DEF outboxVars, RowMoves
  <1> QED  BY <1>1, <1>2, <1>3, <1>4, <1>5, <1>6, <1>7 DEF OutboxNext, Drain

(* No behaviour leaves a row locked without a run, or waiting unclaimable. *)
THEOREM OutboxNoJobIsStranded == OutboxSpec => []NoJobIsStranded
  <1>1. OutboxInit => LocksAreOfRuns
    <2> SUFFICES ASSUME OutboxInit, NEW j \in Jobs
                 PROVE  /\ job[j].locked_by = NoWorker <=> job[j].status # "running"
                        /\ job[j].status = "pending" => job[j].due
      BY DEF LocksAreOfRuns
    <2>1. job[j].locked_by = NoWorker /\ job[j].status = "absent"
      BY DEF OutboxInit, Absent
    <2> QED  BY <2>1
  <1>2. OutboxInv /\ LocksAreOfRuns /\ [OutboxNext]_outboxVars => LocksAreOfRuns'
    <2> SUFFICES ASSUME OutboxInv, LocksAreOfRuns, [OutboxNext]_outboxVars,
                        NEW j \in Jobs
                 PROVE  /\ job'[j].locked_by = NoWorker <=> job'[j].status # "running"
                        /\ job'[j].status = "pending" => job'[j].due
      BY DEF LocksAreOfRuns
    <2>1. RowMoves(j)
      BY EveryRowMoves
    <2> QED  BY <2>1 DEF RowMoves, LocksAreOfRuns
  <1>3. LocksAreOfRuns => NoJobIsStranded
    BY DEF LocksAreOfRuns, NoJobIsStranded, CanClaim, Claimable
  <1> QED  BY <1>1, <1>2, <1>3, OutboxInvAlways, PTL DEF OutboxSpec

(* The moves left are a number between 0 and 2 * max_attempts + 3.         *)
LEMMA MovesLeftBound ==
    ASSUME OutboxInv, NEW j \in Jobs
    PROVE  MovesLeft(j) \in 0 .. (2 * MaxAttempts + 3)
  <1>1. /\ job[j].attempts \in Nat /\ job[j].lease_version \in Nat
        /\ job[j].status \in JobStatus
    BY DEF OutboxInv, OutboxTypeOK, JobRow
  <1>2. job[j].attempts <= MaxAttempts
    BY <1>1, OutboxConstants DEF OutboxInv, StartsAreCounted
  <1>3. MovesAhead(j) \in 0 .. 3
    BY <1>1 DEF MovesAhead, JobStatus, Claimable, Finished
  <1> QED  BY <1>1, <1>2, <1>3, OutboxConstants DEF MovesLeft

(* No job goes round forever: each step that changes a job's status, its   *)
(* attempts or its lease uses up one of the at most 2 * max_attempts + 3   *)
(* moves it has, so that of a job's steps all but finitely many only let   *)
(* its clocks run and its lease be renewed.                                *)
JobsRunDown ==
    [][\A j \in Jobs :
          /\ MovesLeft(j) \in 0 .. (2 * MaxAttempts + 3)
          /\ \/ /\ job'[j].status = job[j].status
                /\ job'[j].attempts = job[j].attempts
                /\ job'[j].lease_version = job[j].lease_version
             \/ MovesLeft(j)' < MovesLeft(j)]_outboxVars

THEOREM OutboxJobsRunDown == OutboxSpec => JobsRunDown
  <1> DEFINE RowRunsDown(j) ==
        /\ MovesLeft(j) \in 0 .. (2 * MaxAttempts + 3)
        /\ \/ /\ job'[j].status = job[j].status
              /\ job'[j].attempts = job[j].attempts
              /\ job'[j].lease_version = job[j].lease_version
           \/ MovesLeft(j)' < MovesLeft(j)
  <1>1. ASSUME OutboxInv, [OutboxNext]_outboxVars, NEW j \in Jobs
        PROVE  RowRunsDown(j)
    <2>1. RowMoves(j)
      BY <1>1, EveryRowMoves
    <2>2. MovesLeft(j) \in 0 .. (2 * MaxAttempts + 3)
      BY <1>1, MovesLeftBound
    <2>3. /\ job[j].attempts \in Nat /\ job'[j].attempts \in Nat
          /\ MaxAttempts \in Nat
      BY <1>1, OutboxStepIsSafe, OutboxConstants
      DEF OutboxInv, OutboxTypeOK, JobRow, OutboxStep
    <2>4. /\ job[j].status = "absent" => MovesAhead(j) = 3
          /\ job[j].status \in Claimable => MovesAhead(j) = 2
          /\ job[j].status = "running" => MovesAhead(j) = 1
      BY DEF MovesAhead, Claimable, Finished
    <2>5. /\ job'[j].status \in Claimable => MovesAhead(j)' = 2
          /\ job'[j].status = "running" => MovesAhead(j)' = 1
          /\ job'[j].status \in Finished => MovesAhead(j)' = 0
      BY DEF MovesAhead, Claimable, Finished
    <2>6. /\ MovesLeft(j) = 2 * (MaxAttempts - job[j].attempts) + MovesAhead(j)
          /\ MovesLeft(j)' = 2 * (MaxAttempts - job'[j].attempts) + MovesAhead(j)'
      BY DEF MovesLeft
    <2>7. \/ /\ job'[j].status = job[j].status
             /\ job'[j].attempts = job[j].attempts
             /\ job'[j].lease_version = job[j].lease_version
          \/ MovesLeft(j)' < MovesLeft(j)
      <3> HIDE DEF MovesLeft, MovesAhead
      <3> QED  BY <2>1, <2>3, <2>4, <2>5, <2>6
               DEF RowMoves, AttemptsAtClaim, Claimable, Finished
    <2> QED  BY <2>2, <2>7
  <1>2. OutboxInv /\ [OutboxNext]_outboxVars
          => [\A j \in Jobs : RowRunsDown(j)]_outboxVars
    BY <1>1
  <1> QED  BY <1>2, OutboxInvAlways, PTL DEF OutboxSpec, JobsRunDown
=============================================================================
