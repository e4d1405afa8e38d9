------------------------------- MODULE Outbox -------------------------------
(***************************************************************************)
(* The transactional outbox: backend/app/platform/outbox.py over the table *)
(* outbox_jobs.  A job is inserted in the transaction of the business      *)
(* write it belongs to.  A drain (a Celery task, woken after the commit    *)
(* and by Beat every five minutes) claims one due job at a time, runs its  *)
(* handler outside any transaction while a thread renews the lease, and    *)
(* settles the job.  A lease nobody renewed for twenty minutes is taken    *)
(* over, so two handlers of one job may be running; every settlement is    *)
(* fenced by the lease version.                                            *)
(*                                                                         *)
(* A job stands for its pair (job_type, idempotency_key).  Clocks are      *)
(* booleans: "due" is next_run_at <= now, "aged" is locked_at older than   *)
(* twenty minutes.  The claim's order (oldest next_run_at first) is left   *)
(* open.  The wake-up message sent after the commit may be lost and Beat   *)
(* drains anyway, so a drain may claim at any time.  A handler is here one *)
(* call to another system, which a module that extends this one gives its  *)
(* meaning.                                                                *)
(***************************************************************************)
EXTENDS Integers

CONSTANTS
    Jobs,         \* the jobs that may be enqueued
    Workers,      \* the drains that may run at the same time
    MaxAttempts,  \* outbox_jobs.max_attempts
    NoJob,        \* what an idle worker runs
    NoWorker      \* outbox_jobs.locked_by of a job nobody runs

ASSUME OutboxConstants ==
    /\ MaxAttempts \in Nat \ {0}
    /\ NoJob \notin Jobs
    /\ NoWorker \notin Workers

VARIABLES
    job,     \* job[j]: the row of j in outbox_jobs
    attempt  \* attempt[w]: the OutboxAttempt snapshot that w runs

outboxVars == <<job, attempt>>

JobStatus == {"absent", "pending", "running", "succeeded", "failed", "dead"}
Claimable == {"pending", "failed"}
Finished == {"succeeded", "dead"}

JobRow == [status : JobStatus, attempts : Nat, lease_version : Nat,
           locked_by : Workers \cup {NoWorker}, due : BOOLEAN, aged : BOOLEAN]

\* called: the handler's external call may have been accepted.
Attempt == [job : Jobs \cup {NoJob}, lease_version : Nat, attempts : Nat,
            called : BOOLEAN]

Absent == [status |-> "absent", attempts |-> 0, lease_version |-> 0,
           locked_by |-> NoWorker, due |-> FALSE, aged |-> FALSE]

Idle == [job |-> NoJob, lease_version |-> 0, attempts |-> 0, called |-> FALSE]

OutboxTypeOK ==
    /\ job \in [Jobs -> JobRow]
    /\ attempt \in [Workers -> Attempt]

OutboxInit ==
    /\ job = [j \in Jobs |-> Absent]
    /\ attempt = [w \in Workers |-> Idle]

-----------------------------------------------------------------------------
(* The rows as a caller's transaction leaves them when it enqueues j, due  *)
(* at once: ON CONFLICT DO NOTHING on (job_type, idempotency_key).         *)
Enqueued(j) ==
    IF job[j].status = "absent"
    THEN [job EXCEPT ![j].status = "pending", ![j].due = TRUE]
    ELSE job

(* Time passes next_run_at of a job that waits for its retry.              *)
BackoffElapses(j) ==
    /\ job[j].status = "failed"
    /\ ~job[j].due
    /\ job' = [job EXCEPT ![j].due = TRUE]
    /\ UNCHANGED attempt

(* Twenty minutes pass in which nobody renewed the lease: the worker died, *)
(* its renewal thread stopped on an error, or its process was suspended.   *)
LeaseAges(j) ==
    /\ job[j].status = "running"
    /\ ~job[j].aged
    /\ job' = [job EXCEPT ![j].aged = TRUE]
    /\ UNCHANGED attempt

(* Mutant: a running job is never claimed again.                           *)
MutantCanClaim(j) ==
    /\ job[j].status \in Claimable
    /\ job[j].due
    /\ job[j].locked_by = NoWorker

(* The claim query: a due job that is not locked, or a running job whose   *)
(* lease is too old.                                                       *)
CanClaim(j) ==
    \/ /\ job[j].status \in Claimable
       /\ job[j].due
       /\ job[j].locked_by = NoWorker
    \/ /\ job[j].status = "running"
       /\ job[j].aged

(* Mutant: a takeover is not counted.                                      *)
MutantAttemptsAtClaim(j) == job[j].attempts

(* Taking over an abandoned lease counts as a failed attempt.              *)
AttemptsAtClaim(j) ==
    IF job[j].status = "running" THEN job[j].attempts + 1 ELSE job[j].attempts

(* The claim gives up on a job whose attempts are exhausted.               *)
BuryAtClaim(w, j) ==
    /\ attempt[w].job = NoJob
    /\ CanClaim(j)
    /\ AttemptsAtClaim(j) >= MaxAttempts
    /\ job' = [job EXCEPT ![j].status = "dead",
                          ![j].attempts = AttemptsAtClaim(j),
                          ![j].locked_by = NoWorker,
                          ![j].aged = FALSE]
    /\ UNCHANGED attempt

(* The claim starts a run: a new lease, and the snapshot the handler gets. *)
Claim(w, j) ==
    /\ attempt[w].job = NoJob
    /\ CanClaim(j)
    /\ AttemptsAtClaim(j) < MaxAttempts
    /\ job' = [job EXCEPT ![j].status = "running",
                          ![j].attempts = AttemptsAtClaim(j),
                          ![j].lease_version = job[j].lease_version + 1,
                          ![j].locked_by = w,
                          ![j].aged = FALSE]
    /\ attempt' = [attempt EXCEPT ![w] =
                     [job |-> j, lease_version |-> job[j].lease_version + 1,
                      attempts |-> AttemptsAtClaim(j), called |-> FALSE]]

(* Mutants: the fence forgets the lease; it forgets the status and owner.  *)
MutantOwnsByStatus(w) == job[attempt[w].job].status = "running"
MutantOwnsByLease(w) == job[attempt[w].job].lease_version = attempt[w].lease_version

(* The fence of renewals and settlements, for the snapshot of w.           *)
OwnsJob(w) ==
    LET row == job[attempt[w].job] IN
    /\ row.status = "running"
    /\ row.lease_version = attempt[w].lease_version
    /\ row.locked_by = w

(* The renewal thread of w: one fenced update of locked_at.                *)
RenewLease(w) ==
    /\ attempt[w].job # NoJob
    /\ OwnsJob(w)
    /\ job' = [job EXCEPT ![attempt[w].job].aged = FALSE]
    /\ UNCHANGED attempt

(* The handler calls the other system, whether or not it still has the     *)
(* lease.                                                                  *)
CallHandler(w) ==
    /\ attempt[w].job # NoJob
    /\ ~attempt[w].called
    /\ attempt' = [attempt EXCEPT ![w].called = TRUE]
    /\ UNCHANGED job

(* The fenced update that ends the run of w; a stale owner's is rolled     *)
(* back together with what its handler wrote in the same session.          *)
Settle(w, status, attempts) ==
    /\ job' = IF OwnsJob(w)
              THEN [job EXCEPT ![attempt[w].job].status = status,
                               ![attempt[w].job].attempts = attempts,
                               ![attempt[w].job].due = (status = "succeeded"),
                               ![attempt[w].job].locked_by = NoWorker,
                               ![attempt[w].job].aged = FALSE]
              ELSE job
    /\ attempt' = [attempt EXCEPT ![w] = Idle]

(* The handler returned.                                                   *)
SettleSuccess(w) ==
    /\ attempt[w].job # NoJob
    /\ attempt[w].called
    /\ Settle(w, "succeeded", attempt[w].attempts)

(* The handler raised, before its call or after it was accepted: a retry   *)
(* after a backoff, or the end.                                            *)
SettleFailure(w) ==
    /\ attempt[w].job # NoJob
    /\ LET attempts == attempt[w].attempts + 1 IN
       Settle(w, IF attempts >= MaxAttempts THEN "dead" ELSE "failed", attempts)

(* The drain's process dies (a crash, the hard time limit) or loses its    *)
(* database before the settlement commits.                                 *)
Crash(w) ==
    /\ attempt[w].job # NoJob
    /\ attempt' = [attempt EXCEPT ![w] = Idle]
    /\ UNCHANGED job

(* A business transaction that enqueues j and nothing else.                *)
Enqueue(j) ==
    /\ job[j].status = "absent"
    /\ job' = Enqueued(j)
    /\ UNCHANGED attempt

Drain(w) ==
    \/ \E j \in Jobs : BuryAtClaim(w, j) \/ Claim(w, j)
    \/ RenewLease(w)
    \/ CallHandler(w)
    \/ SettleSuccess(w)
    \/ SettleFailure(w)
    \/ Crash(w)

OutboxNext ==
    \/ \E j \in Jobs : Enqueue(j) \/ BackoffElapses(j) \/ LeaseAges(j)
    \/ \E w \in Workers : Drain(w)

OutboxSpec == OutboxInit /\ [][OutboxNext]_outboxVars

-----------------------------------------------------------------------------
(* However its runs end - a failure, a crash, a lease lost by a worker     *)
(* that is still alive - a job's handler is started at most max_attempts   *)
(* times: the lease version counts the starts, and each of them but a      *)
(* current or a successful one has been counted as a failed attempt.       *)
StartsAreCounted ==
    \A j \in Jobs :
        /\ job[j].lease_version <= MaxAttempts
        /\ job[j].lease_version =
             IF job[j].status \in {"running", "succeeded"}
             THEN job[j].attempts + 1 ELSE job[j].attempts

(* A run ends by settlement only in the hands of the worker that has its   *)
(* latest lease: the late answer of a worker that was taken over never     *)
(* settles the run of its successor.                                       *)
SettledByItsHolder ==
    [][\A j \in Jobs :
          /\ job[j].status = "running"
          /\ job'[j].status \in {"succeeded", "failed"}
          => \E w \in Workers :
               /\ attempt[w].job = j
               /\ attempt[w].lease_version = job[j].lease_version
               /\ attempt'[w] = Idle]_outboxVars

(* A job that succeeded or was given up is never run or counted again.     *)
FinishedIsFinal ==
    [][\A j \in Jobs : job[j].status \in Finished => job'[j] = job[j]]_outboxVars

(* Every job that was enqueued succeeds or is given up, although any run   *)
(* of it may crash.                                                        *)
EveryJobEnds ==
    \A j \in Jobs : job[j].status = "pending" ~> job[j].status \in Finished
=============================================================================
