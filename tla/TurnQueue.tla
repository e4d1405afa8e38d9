------------------------------ MODULE TurnQueue ------------------------------
(***************************************************************************)
(* The durable turn queue of one Conversation                              *)
(* (backend/app/conversation/application: turn_store, turn_admission,      *)
(* turn_executor, invitation_turn_recovery, attachment_waiting_service)    *)
(* and the API handlers of api/chat/streaming.py that drive it.            *)
(*                                                                         *)
(* Every transition of the store runs in one SQL transaction that locks    *)
(* the Conversation row, so it is one action here.  What is NOT atomic is  *)
(* modelled as separate steps: the broker call an API handler, a worker or *)
(* the monitor makes after its commit, the second transaction of a cancel, *)
(* and everything a worker does between claiming a turn and settling it.   *)
(*                                                                         *)
(* conversation_turns.submission_id is UNIQUE, so a turn is identified by  *)
(* the submission it was created from.                                     *)
(***************************************************************************)
EXTENDS Integers

CONSTANTS
  Submission,       \* client-chosen submission ids of this Conversation
  AgentSubmission,  \* those whose mode is "agent" (the others run as "chat")
  Worker,           \* conversation-worker processes (one task each, solo pool)
  None,             \* SQL NULL
  MaxRecoveries,    \* settings.TURN_RECOVERY_MAX_ATTEMPTS
  MaxVersion,       \* bound: edits of one submission
  MaxGeneration,    \* bound: dispatch generations of one turn
  MaxFaults         \* bound: process crashes, lost and repeated deliveries

ASSUME ConstantsOK ==
  /\ AgentSubmission \subseteq Submission
  /\ None \notin Submission
  /\ None \notin Worker
  /\ MaxRecoveries \in Nat
  /\ MaxVersion \in Nat
  /\ MaxGeneration \in Nat
  /\ MaxFaults \in Nat

VARIABLES
  sub,       \* pending_submissions rows
  turn,      \* conversation_turns rows, by submission
  active,    \* conversations.active_turn_id
  inflight,  \* what some process still has to do after a commit
  broker,    \* turns with an unacknowledged message on the "turns" queue
  worker,    \* the pass each worker process is executing
  faults     \* faults so far

vars == <<sub, turn, active, inflight, broker, worker, faults>>

Live == {"pending", "running", "waiting"}
Terminal == {"completed", "blocked", "failed", "cancelled"}
Outcome == Terminal
WaitReason == {"interaction", "attachment_parsing"}

(* A broker call whose failure is answered by fail_pending_turn            *)
(* ("ingress"), by failing the turn without a successor ("handoff") or by  *)
(* leaving the turn for the monitor ("keep"); the write of that failure,   *)
(* once the turn was read as pending; the two halves of a cancel.          *)
DispatchKind == {"ingress", "handoff", "keep"}
CallKind == DispatchKind \cup {"fail", "flag", "settle"}
Call == [kind : CallKind, turn : Submission]

NoTurn ==
  [status |-> "none", reason |-> "none", owner |-> None, generation |-> 0,
   cancel |-> FALSE, target |-> None, targetVersion |-> 0, recoveries |-> 0]

(* Mutant: the API's "queued" stored as the status of the row.             *)
MutantNewTurn == [NoTurn EXCEPT !.status = "queued", !.generation = 1]

NewTurn == [NoTurn EXCEPT !.status = "pending", !.generation = 1]

(* A worker process between two tasks.                                     *)
Idle == [turn |-> None, generation |-> 0, cancelling |-> FALSE]

-----------------------------------------------------------------------------
(* Admission: turn_admission.py.  The rows are passed as arguments because *)
(* a caller has usually changed one of them in the same transaction.       *)

Pending(rows) == {s \in Submission : rows[s].status = "pending"}
Failed(rows) == {s \in Submission : rows[s].status = "failed"}

Retained(rows) == Pending(rows) \cup Failed(rows)

(* Mutant: a turn that released its worker is no longer active.            *)
MutantActiveTurn ==
  IF active # None /\ turn[active].status \in Terminal \cup {"waiting"} THEN None ELSE active

(* The pointer, unless the turn it names is over.                          *)
ActiveTurn ==
  IF active # None /\ turn[active].status \in Terminal THEN None ELSE active

(* Mutants: newest first; a failed row does not hold the queue.            *)
MutantNewestInLine(rows) ==
  {s \in Pending(rows) :
     /\ Failed(rows) = {}
     /\ \A r \in Pending(rows) : rows[s].position >= rows[r].position}
MutantUnheldInLine(rows) ==
  {s \in Pending(rows) : \A r \in Pending(rows) : rows[s].position <= rows[r].position}

(* The row the FIFO offers next: none while a failed row holds admission.  *)
NextInLine(rows) ==
  {s \in Pending(rows) :
     /\ Failed(rows) = {}
     /\ \A r \in Pending(rows) : rows[s].position <= rows[r].position}

(* The one row that is still s at that version, if it is retained.         *)
Selected(rows, s, version) == {r \in Retained(rows) \cap {s} : rows[r].version = version}

(* Mutant: the new turn is never scheduled.                                *)
MutantAdmitRow(s, rows, turns, calls, kind) ==
  /\ sub' = [rows EXCEPT ![s].status = "claimed"]
  /\ turn' = [turns EXCEPT ![s] = NewTurn]
  /\ active' = s
  /\ inflight' = calls

(* Claim the candidate, if there is one.  The preflight of its attachments *)
(* and object references may reject it: the row then stays as the hold.    *)
AdmitRow(s, rows, turns, calls, kind) ==
  /\ sub' = [rows EXCEPT ![s].status = "claimed"]
  /\ turn' = [turns EXCEPT ![s] = NewTurn]
  /\ active' = s
  /\ inflight' = calls \cup {[kind |-> kind, turn |-> s]}

RejectRow(s, rows, turns, calls) ==
  /\ sub' = [rows EXCEPT ![s].status = "failed"]
  /\ turn' = turns
  /\ active' = None
  /\ inflight' = calls

Claim(candidates, rows, turns, calls, kind) ==
  \/ \E s \in candidates :
       \/ AdmitRow(s, rows, turns, calls, kind)
       \/ RejectRow(s, rows, turns, calls)
  \/ /\ candidates = {}
     /\ sub' = rows
     /\ turn' = turns
     /\ active' = None
     /\ inflight' = calls

-----------------------------------------------------------------------------
(* Closing a turn: _terminalize and the handoff that follows it.           *)

(* The terminal form of a row: the lease and the interrupt are released.   *)
Closed(row, final) ==
  [row EXCEPT !.status = final, !.reason = "none", !.owner = None,
              !.target = None, !.targetVersion = 0]

(* Mutant: a stale interrupt falls back to the FIFO.                       *)
MutantSuccessor(t) ==
  LET chosen == Selected(sub, turn[t].target, turn[t].targetVersion)
  IN  IF turn[t].target # None /\ chosen # {} THEN chosen ELSE NextInLine(sub)

(* Who is offered the slot t leaves: its interrupt target, else the FIFO.  *)
Successor(t) ==
  IF turn[t].target # None
    THEN Selected(sub, turn[t].target, turn[t].targetVersion)
    ELSE NextInLine(sub)

(* _terminalize, in one transaction: only the active turn hands over.      *)
Terminalize(t, final, calls) ==
  LET turns == [turn EXCEPT ![t] = Closed(@, final)]
  IN  \/ /\ active = t
         /\ Claim(Successor(t), sub, turns, calls, "handoff")
      \/ /\ active # t
         /\ turn' = turns
         /\ inflight' = calls
         /\ UNCHANGED <<sub, active>>

-----------------------------------------------------------------------------
(* The user's commands on retained rows.                                   *)

(* POST /turns: admit directly when the Conversation is idle and nothing   *)
(* is retained, else queue.  A repeated POST of a known id changes nothing.*)
Admit(s) ==
  /\ sub[s].status = "none"
  /\ \E last \in {sub[r].position : r \in Submission} :
       /\ \A r \in Submission : sub[r].position <= last
       /\ LET rows == [sub EXCEPT ![s] =
                         [status |-> "pending", version |-> 1, position |-> last + 1]]
          IN  \/ /\ ActiveTurn = None /\ Retained(sub) = {}
                 /\ Claim({s}, rows, turn, inflight, "ingress")
              \/ /\ ~(ActiveTurn = None /\ Retained(sub) = {})
                 /\ sub' = rows
                 /\ active' = ActiveTurn
                 /\ UNCHANGED <<turn, inflight>>
  /\ UNCHANGED <<broker, worker, faults>>

(* PATCH /submissions: a version CAS; the row is pending again.            *)
UpdatePending(s) ==
  /\ s \in Retained(sub)
  /\ sub[s].version < MaxVersion
  /\ sub' = [sub EXCEPT ![s].status = "pending", ![s].version = @ + 1]
  /\ UNCHANGED <<turn, active, inflight, broker, worker, faults>>

(* POST /retry is answered "submission must wait for FIFO admission"       *)
(* unless the row, or another one, is a failed hold.                       *)
Retryable(s) == s \in Retained(sub) /\ Failed(sub) # {}

Retry(s) ==
  /\ Retryable(s)
  /\ \/ /\ ActiveTurn # None
        /\ sub' = [sub EXCEPT ![s].status = "pending"]
        /\ UNCHANGED <<turn, active, inflight>>
     \/ /\ ActiveTurn = None
        /\ Claim({s}, sub, turn, inflight, "ingress")
  /\ UNCHANGED <<broker, worker, faults>>

(* DELETE /submissions: withdraw, and let the FIFO go on if it is idle. The*)
(* session does not autoflush, so the FIFO is asked of the rows as they    *)
(* were: a failed row holds the queue once more while it is withdrawn, and *)
(* the head of the queue, withdrawn, is the very row that is claimed.      *)
Withdraw(s) ==
  /\ s \in Retained(sub)
  /\ LET rows == [sub EXCEPT ![s].status = "withdrawn"]
     IN  \/ /\ ActiveTurn # None
            /\ sub' = rows
            /\ UNCHANGED <<turn, active, inflight>>
         \/ /\ ActiveTurn = None
            /\ Claim(NextInLine(sub), rows, turn, inflight, "ingress")
  /\ UNCHANGED <<broker, worker, faults>>

-----------------------------------------------------------------------------
(* Interrupt and cancel: the API handlers and their continuations.         *)

(* request_turn_interrupt: one durable target per turn, and the generation *)
(* moves so that late results of the current pass are fenced.  The handler *)
(* goes on to cancel the turn itself only when no worker holds it.         *)
Interrupt(t, s) ==
  /\ active = t
  /\ turn[t].status \in Live
  /\ turn[t].target = None
  /\ s \in Retained(sub)
  /\ turn[t].generation < MaxGeneration
  /\ turn' = [turn EXCEPT ![t].cancel = TRUE, ![t].target = s,
                          ![t].targetVersion = sub[s].version,
                          ![t].generation = @ + 1]
  /\ sub' = [sub EXCEPT ![s].status = "pending"]
  /\ inflight' = IF turn[t].status = "running" THEN inflight
                 ELSE inflight \cup {[kind |-> "flag", turn |-> t]}
  /\ UNCHANGED <<active, broker, worker, faults>>

(* The same interrupt again: the store reports the turn's status, and the  *)
(* handler resumes the cancel a lost call left undone.                     *)
RepeatInterrupt(t) ==
  /\ active = t
  /\ turn[t].status \in {"pending", "waiting"}
  /\ turn[t].target # None
  /\ turn[t].target \in Retained(sub)
  /\ sub[turn[t].target].version = turn[t].targetVersion
  /\ inflight' = inflight \cup {[kind |-> "flag", turn |-> t]}
  /\ UNCHANGED <<sub, turn, active, broker, worker, faults>>

(* cancel_pending_turn, first transaction: raise the flag of a live turn.  *)
FlagCancel(t, calls) ==
  /\ turn' = [turn EXCEPT ![t].cancel = @ \/ turn[t].status \in Live]
  /\ inflight' = calls \cup {[kind |-> "settle", turn |-> t]}
  /\ UNCHANGED <<sub, active, broker, worker, faults>>

CancelByUser(t) ==
  /\ turn[t].status \in Live
  /\ FlagCancel(t, inflight)

ContinueInterrupt(c) ==
  /\ c \in inflight /\ c.kind = "flag"
  /\ FlagCancel(c.turn, inflight \ {c})

(* Mutant: the second transaction does not recheck the status.             *)
MutantSettleCancel(c) ==
  /\ c \in inflight /\ c.kind = "settle"
  /\ Terminalize(c.turn, "cancelled", inflight \ {c})
  /\ UNCHANGED <<broker, worker, faults>>

(* cancel_pending_turn, second transaction: close it if no worker has it.  *)
SettleCancel(c) ==
  /\ c \in inflight /\ c.kind = "settle"
  /\ \/ /\ turn[c.turn].status \in {"pending", "waiting"}
        /\ Terminalize(c.turn, "cancelled", inflight \ {c})
     \/ /\ turn[c.turn].status \notin {"pending", "waiting"}
        /\ inflight' = inflight \ {c}
        /\ UNCHANGED <<sub, turn, active>>
  /\ UNCHANGED <<broker, worker, faults>>

-----------------------------------------------------------------------------
(* A waiting turn is resumed on the same identity, under a new generation. *)

(* Mutant: the answered turn is dispatched under the generation it had.    *)
MutantResume(t, reason, kind) ==
  /\ turn[t].status = "waiting"
  /\ turn[t].reason = reason
  /\ active = t
  /\ turn' = [turn EXCEPT ![t].status = "pending", ![t].reason = "none",
                          ![t].cancel = FALSE, ![t].owner = None]
  /\ inflight' = inflight \cup {[kind |-> kind, turn |-> t]}
  /\ UNCHANGED <<sub, active, broker, worker, faults>>

Resume(t, reason, kind) ==
  /\ turn[t].status = "waiting"
  /\ turn[t].reason = reason
  /\ active = t
  /\ turn[t].generation < MaxGeneration
  /\ turn' = [turn EXCEPT ![t].status = "pending", ![t].reason = "none",
                          ![t].cancel = FALSE, ![t].owner = None,
                          ![t].generation = @ + 1]
  /\ inflight' = inflight \cup {[kind |-> kind, turn |-> t]}
  /\ UNCHANGED <<sub, active, broker, worker, faults>>

(* The user answers the interaction; a saved fact confirmation survives a  *)
(* broker outage ("keep"), any other answer fails the turn.                *)
ResolveInteraction(t) ==
  \E kind \in {"ingress", "keep"} : Resume(t, "interaction", kind)

(* Every frozen attachment of the turn is parsed: the callback, the        *)
(* recheck after _wait and the repair sweep all take this one step.        *)
AttachmentsReady(t) == Resume(t, "attachment_parsing", "ingress")

-----------------------------------------------------------------------------
(* Broker calls made after a commit.                                       *)

DispatchSucceeds(c) ==
  /\ c \in inflight /\ c.kind \in DispatchKind
  /\ broker' = broker \cup {c.turn}
  /\ inflight' = inflight \ {c}
  /\ UNCHANGED <<sub, turn, active, worker, faults>>

DispatchFails(c) ==
  /\ c \in inflight /\ c.kind \in DispatchKind
  /\ \/ /\ c.kind = "ingress" /\ turn[c.turn].status = "pending"
        /\ Terminalize(c.turn, "failed", inflight \ {c})
     \/ /\ c.kind = "handoff" /\ turn[c.turn].status = "pending"
        /\ inflight' = (inflight \ {c}) \cup {[kind |-> "fail", turn |-> c.turn]}
        /\ UNCHANGED <<sub, turn, active>>
     \/ /\ c.kind = "keep" \/ turn[c.turn].status # "pending"
        /\ inflight' = inflight \ {c}
        /\ UNCHANGED <<sub, turn, active>>
  /\ UNCHANGED <<broker, worker, faults>>

(* Mutant: the pointer to the failed turn stays.                           *)
MutantFailWithoutHandoff(t, calls) ==
  /\ turn' = [turn EXCEPT ![t].status = "failed"]
  /\ inflight' = calls
  /\ UNCHANGED <<sub, active>>

(* _fail_dispatched_turn_without_handoff: no successor is claimed.  The row*)
(* was loaded before the locks and the locked query does not refresh it:   *)
(* whatever became of the turn since it was read as pending, it is failed. *)
FailWithoutHandoff(t, calls) ==
  /\ turn' = [turn EXCEPT ![t].status = "failed"]
  /\ active' = IF active = t THEN None ELSE active
  /\ inflight' = calls
  /\ UNCHANGED sub

CloseUnsent(c) ==
  /\ c \in inflight /\ c.kind = "fail"
  /\ FailWithoutHandoff(c.turn, inflight \ {c})
  /\ UNCHANGED <<broker, worker, faults>>

-----------------------------------------------------------------------------
(* The conversation worker: turn_executor.execute_turn.                    *)

(* A message is delivered to an idle process.  The claim is a CAS on       *)
(* "pending"; a message for a turn in any other state is acknowledged.     *)
Deliver(w, t) ==
  /\ worker[w] = Idle
  /\ t \in broker
  /\ broker' = broker \ {t}
  /\ \/ /\ turn[t].status = "pending"
        /\ turn' = [turn EXCEPT ![t].status = "running", ![t].reason = "none",
                                ![t].owner = w]
        /\ worker' = [worker EXCEPT ![w] =
                        [turn |-> t, generation |-> turn[t].generation,
                         cancelling |-> FALSE]]
     \/ /\ turn[t].status # "pending"
        /\ UNCHANGED <<turn, worker>>
  /\ UNCHANGED <<sub, active, inflight, faults>>

(* Mutant: a cancelled turn no longer counts as owned.                     *)
MutantOwns(w) ==
  LET t == worker[w].turn
  IN  /\ t # None
      /\ turn[t].status = "running"
      /\ turn[t].owner = w
      /\ ~turn[t].cancel

(* _heartbeat and _finish accept the pass that still owns the turn.        *)
Owns(w) ==
  LET t == worker[w].turn
  IN  /\ t # None
      /\ turn[t].status = "running"
      /\ turn[t].owner = w
      /\ turn[t].generation = worker[w].generation

(* watch_cancel sees the flag or a turn that is no longer running, or      *)
(* maintain_heartbeat loses the lease: the pass cancels itself.            *)
StopPass(w) ==
  /\ worker[w].turn # None /\ ~worker[w].cancelling
  /\ \/ turn[worker[w].turn].cancel
     \/ turn[worker[w].turn].status # "running"
     \/ ~Owns(w)
  /\ worker' = [worker EXCEPT ![w].cancelling = TRUE]
  /\ UNCHANGED <<sub, turn, active, inflight, broker, faults>>

(* The pass ends with _finish, which is fenced by owner and generation.  A *)
(* cancellation that lands while a failure is being persisted or announced *)
(* leaves the failure as the outcome.                                      *)
FinishPass(w) ==
  /\ worker[w].turn # None
  /\ \/ /\ Owns(w)
        /\ \E final \in Outcome :
             /\ worker[w].cancelling => final \in {"cancelled", "failed"}
             /\ Terminalize(worker[w].turn, final, inflight)
     \/ /\ ~Owns(w)
        /\ UNCHANGED <<sub, turn, active, inflight>>
  /\ worker' = [worker EXCEPT ![w] = Idle]
  /\ UNCHANGED <<broker, faults>>

(* The pass ends with _wait: the turn keeps the Conversation, no worker.  A*)
(* cancellation that lands while the parsing notice is emitted is lost.    *)
WaitPass(w, reason) ==
  /\ worker[w].cancelling => reason = "attachment_parsing"
  /\ Owns(w)
  /\ turn' = [turn EXCEPT ![worker[w].turn].status = "waiting",
                          ![worker[w].turn].reason = reason,
                          ![worker[w].turn].owner = None]
  /\ worker' = [worker EXCEPT ![w] = Idle]
  /\ UNCHANGED <<sub, active, inflight, broker, faults>>

-----------------------------------------------------------------------------
(* The orphan monitor: _close_expired_turns.  A deadline may pass at any   *)
(* moment: heartbeats and dispatches can be arbitrarily late.              *)

(* recover_invitation_turn, common guards.                                 *)
Recoverable(t) == active = t /\ t \in AgentSubmission /\ turn[t].target = None

(* An undispatched turn that never ran has no tool call: it is redelivered,*)
(* never failed.  Any later pass may have left unsafe calls behind.        *)
Redelivers(t) == Recoverable(t) /\ turn[t].generation = 1

(* recover_invitation_turn, the outcome: a saved decision is replayed, a   *)
(* missing one is waited for; bump is 1 when a worker was lost.            *)
Recover(t, bump) ==
  \E status \in {"pending", "waiting"} :
    /\ turn' = [turn EXCEPT ![t].status = status,
                            ![t].reason = IF status = "waiting" THEN "interaction" ELSE "none",
                            ![t].owner = None,
                            ![t].generation = @ + bump,
                            ![t].recoveries = @ + bump]
    /\ inflight' = IF status = "pending"
                     THEN inflight \cup {[kind |-> "handoff", turn |-> t]}
                     ELSE inflight
    /\ UNCHANGED <<sub, active>>

(* Mutants: only agent turns time out in the queue; a recovered turn keeps *)
(* its generation; a run that cannot be recovered is left alone.           *)
MutantExpirePending(t) ==
  /\ turn[t].status = "pending"
  /\ Redelivers(t)
  /\ inflight' = inflight \cup {[kind |-> "handoff", turn |-> t]}
  /\ UNCHANGED <<sub, turn, active, broker, worker, faults>>
MutantUnfencedRecovery(t) ==
  /\ turn[t].status = "running"
  /\ Recoverable(t)
  /\ Recover(t, 0)
  /\ UNCHANGED <<broker, worker, faults>>
MutantExpireRunning(t) ==
  /\ turn[t].status = "running"
  /\ Recoverable(t)
  /\ turn[t].recoveries < MaxRecoveries
  /\ turn[t].generation < MaxGeneration
  /\ Recover(t, 1)
  /\ UNCHANGED <<broker, worker, faults>>

(* An expired row is recovered when it can be, else failed with a handoff. *)
ExpirePending(t) ==
  /\ turn[t].status = "pending"
  /\ \/ /\ Redelivers(t)
        /\ inflight' = inflight \cup {[kind |-> "handoff", turn |-> t]}
        /\ UNCHANGED <<sub, turn, active>>
     \/ /\ Recoverable(t) /\ turn[t].generation > 1
        /\ Recover(t, 0)
     \/ /\ ~Redelivers(t)
        /\ Terminalize(t, "failed", inflight)
  /\ UNCHANGED <<broker, worker, faults>>

ExpireRunning(t) ==
  /\ turn[t].status = "running"
  /\ \/ /\ Recoverable(t)
        /\ turn[t].recoveries < MaxRecoveries
        /\ turn[t].generation < MaxGeneration
        /\ Recover(t, 1)
     \/ Terminalize(t, "failed", inflight)
  /\ UNCHANGED <<broker, worker, faults>>

-----------------------------------------------------------------------------
(* Faults.                                                                 *)

Fault == faults < MaxFaults /\ faults' = faults + 1

(* A worker dies; acks_late and reject_on_worker_lost requeue its message. *)
CrashWorker(w) ==
  /\ Fault
  /\ worker[w].turn # None
  /\ broker' = broker \cup {worker[w].turn}
  /\ worker' = [worker EXCEPT ![w] = Idle]
  /\ UNCHANGED <<sub, turn, active, inflight>>

(* A process dies between its commit and the call it was about to make.    *)
LoseCall(c) ==
  /\ Fault
  /\ c \in inflight
  /\ inflight' = inflight \ {c}
  /\ UNCHANGED <<sub, turn, active, broker, worker>>

(* Redis loses a message, or repeats one that is being processed.          *)
LoseMessage(t) ==
  /\ Fault
  /\ t \in broker
  /\ broker' = broker \ {t}
  /\ UNCHANGED <<sub, turn, active, inflight, worker>>

RepeatMessage(w) ==
  /\ Fault
  /\ worker[w].turn # None
  /\ broker' = broker \cup {worker[w].turn}
  /\ UNCHANGED <<sub, turn, active, inflight, worker>>

-----------------------------------------------------------------------------
Init ==
  /\ sub = [s \in Submission |-> [status |-> "none", version |-> 0, position |-> 0]]
  /\ turn = [s \in Submission |-> NoTurn]
  /\ active = None
  /\ inflight = {}
  /\ broker = {}
  /\ worker = [w \in Worker |-> Idle]
  /\ faults = 0

UserStep ==
  \E s \in Submission :
    \/ Admit(s) \/ UpdatePending(s) \/ Retry(s) \/ Withdraw(s)
    \/ CancelByUser(s) \/ ResolveInteraction(s) \/ RepeatInterrupt(s)
    \/ \E t \in Submission : Interrupt(t, s)

CallStep ==
  \E c \in inflight :
    \/ DispatchSucceeds(c) \/ DispatchFails(c) \/ CloseUnsent(c)
    \/ ContinueInterrupt(c) \/ SettleCancel(c)

WorkerStep ==
  \E w \in Worker :
    \/ StopPass(w) \/ FinishPass(w)
    \/ \E t \in Submission : Deliver(w, t)
    \/ \E reason \in WaitReason : WaitPass(w, reason)

MonitorStep ==
  \E t \in Submission : ExpirePending(t) \/ ExpireRunning(t) \/ AttachmentsReady(t)

FaultStep ==
  \/ \E w \in Worker : CrashWorker(w) \/ RepeatMessage(w)
  \/ \E c \in inflight : LoseCall(c)
  \/ \E t \in Submission : LoseMessage(t)

Next == UserStep \/ CallStep \/ WorkerStep \/ MonitorStep \/ FaultStep

Spec == Init /\ [][Next]_vars

(* The processes keep running: a handler makes the call it is about to     *)
(* make, the broker delivers to an idle worker, a pass stops when told to  *)
(* and ends (celery's time limits), the monitor's sweep repeats.  Nothing  *)
(* is assumed of the user, of attachments, or of faults.                   *)
Fairness ==
  /\ \A c \in Call : WF_vars(DispatchSucceeds(c) \/ DispatchFails(c) \/ CloseUnsent(c)
                              \/ ContinueInterrupt(c) \/ SettleCancel(c))
  /\ \A t \in Submission :
       /\ WF_vars(\E w \in Worker : Deliver(w, t))
       /\ WF_vars(ExpirePending(t))
       /\ WF_vars(ExpireRunning(t))
  /\ \A w \in Worker :
       WF_vars(FinishPass(w) \/ \E reason \in WaitReason : WaitPass(w, reason))

FairSpec == Spec /\ Fairness
-----------------------------------------------------------------------------
(* The rows have the shape of the tables, and every counter is a number.   *)
SubmissionRow ==
  [status : {"none", "pending", "failed", "claimed", "withdrawn"},
   version : Nat, position : Nat]

TurnRow ==
  [status : {"none"} \cup Live \cup Terminal, reason : {"none"} \cup WaitReason,
   owner : Worker \cup {None}, generation : Nat, cancel : BOOLEAN,
   target : Submission \cup {None}, targetVersion : Nat, recoveries : Nat]

Pass == [turn : Submission \cup {None}, generation : Nat, cancelling : BOOLEAN]

TypeOK ==
  /\ sub \in [Submission -> SubmissionRow]
  /\ turn \in [Submission -> TurnRow]
  /\ active \in Submission \cup {None}
  /\ inflight \subseteq Call
  /\ broker \subseteq Submission
  /\ worker \in [Worker -> Pass]
  /\ faults \in Nat

(* The Conversation has one live turn at most, and active_turn_id names it:*)
(* no interleaving of admissions, retries, withdrawals, handoffs, cancels  *)
(* and expiries leaves a second live turn, a dangling pointer or a live    *)
(* turn that nothing points to.                                            *)
SingleLiveTurn ==
  \A t \in Submission : turn[t].status \in Live <=> active = t

(* A submission is claimed exactly when its turn exists: no claim is lost, *)
(* and a withdrawn, failed or queued row has no turn.                      *)
ClaimsHaveTurns ==
  \A s \in Submission : sub[s].status = "claimed" <=> turn[s].status # "none"

(* The dispatch generation alone identifies the pass of a running turn:    *)
(* tool calls and model dispatches are fenced by it without the owner, so  *)
(* no other process may ever carry the generation the turn now runs under. *)
GenerationFence ==
  \A w \in Worker, t \in Submission :
    /\ worker[w].turn = t
    /\ worker[w].generation = turn[t].generation
    => turn[t].status \in Terminal \/ turn[t].owner = w

(* The lease: a live turn has an owner exactly while it runs.  A turn that *)
(* is over has one only where a late dispatch failure closed its run.      *)
OwnedWhileRunning ==
  \A t \in Submission :
    /\ turn[t].status = "running" => turn[t].owner # None
    /\ turn[t].owner # None => turn[t].status \in {"running", "failed"}

(* Without a fault, a turn that says "running" while no process executes   *)
(* it was interrupted: cancels, expiries and recoveries orphan no run.     *)
HasExecutor(t) == \E w \in Worker : worker[w].turn = t /\ turn[t].owner = w

UninterruptedRunHasExecutor ==
  faults = 0 =>
    \A t \in Submission :
      turn[t].status = "running" /\ turn[t].target = None => HasExecutor(t)

(* Without a fault, a turn that never ran always has a message on the      *)
(* queue, a process about to send one, or one about to close it because it *)
(* could not: no admission path (direct, retry, withdrawal, handoff)       *)
(* forgets to dispatch the turn it created.                                *)
FreshTurnIsDispatched ==
  faults = 0 =>
    \A t \in Submission :
      turn[t].status = "pending" /\ turn[t].generation = 1
        => \/ t \in broker
           \/ \E c \in inflight : c.turn = t /\ c.kind \in DispatchKind \cup {"fail"}

(* api/chat/streaming.py: "Running returns cancelling and its worker owns  *)
(* durability."  Without a fault, a running turn has a worker that will    *)
(* settle it.                                                              *)
RunHasExecutor ==
  faults = 0 => \A t \in Submission : turn[t].status = "running" => HasExecutor(t)

(* api/chat/streaming.py: "Pending/waiting has no active worker to consume *)
(* the signal; terminalize synchronously."  Without a fault, a waiting turn*)
(* that carries a cancel is about to be closed by the handler raising it.  *)
WaitingCancelIsConsumed ==
  faults = 0 =>
    \A t \in Submission :
      turn[t].status = "waiting" /\ turn[t].cancel
        => \E c \in inflight : c.turn = t /\ c.kind \in {"flag", "settle"}

(* turn_admission.py tells the user of a rejected row to edit it and retry;*)
(* the failed row is "the visible gate".  An idle Conversation keeps no    *)
(* pending row that neither the FIFO nor a retry would take.               *)
IdleQueueIsRetryable ==
  active = None => \A s \in Pending(sub) : Retryable(s)

-----------------------------------------------------------------------------
(* What a step may never do.                                               *)

NewlyClaimed(s) == sub[s].status # "claimed" /\ sub'[s].status = "claimed"

(* Submissions are admitted in queue order.  The exceptions are explicit:  *)
(* the target of an interrupt, and a retry while a failed row holds the    *)
(* queue.                                                                  *)
FifoStep ==
  \A s \in Submission :
    NewlyClaimed(s) =>
      \/ \A r \in Retained(sub)' : sub'[s].position < sub'[r].position
      \/ active # None /\ turn[active].target = s
      \/ Failed(sub) # {} /\ Retained(sub)' = Retained(sub) \ {s}
FifoAdmission == [][FifoStep]_vars

(* A failed row holds admission: when a turn ends, or a row is withdrawn,  *)
(* and a failed row is left after it, nothing is admitted but the target of*)
(* an interrupt, or the one row the user retries by hand.                  *)
HoldStep ==
  \A s \in Submission :
    NewlyClaimed(s) /\ Failed(sub)' # {} =>
      \/ active # None /\ turn[active].target = s
      \/ active = None /\ Retained(sub)' = Retained(sub) \ {s}
HoldBlocksAdmission == [][HoldStep]_vars

(* A broker outage closes the turn its process has read as pending, without*)
(* a successor, and without looking at the turn again.                     *)
LosesBroker(t) ==
  \E c \in inflight :
    c.turn = t /\ c.kind = "fail" /\ FailWithoutHandoff(t, inflight \ {c})

(* The outcome of a turn is written once: a late worker, a late cancel or  *)
(* a late expiry never changes a terminal turn.  Only the late failure of a*)
(* dispatch does, where the turn ended after it was read.                  *)
TerminalStep ==
  \A t \in Submission :
    turn[t].status \in Terminal => turn'[t].status = turn[t].status \/ LosesBroker(t)
TerminalIsFinal == [][TerminalStep]_vars

(* A durable interrupt is consumed by the handoff of its turn: its target  *)
(* is admitted, or rejected by its preflight, unless the user has changed  *)
(* it since.  Nothing else takes the slot.                                 *)
HandsOverTo(s, version) ==
  \/ active' = s
  \/ active' = None /\ sub'[s].status = "failed"
  \/ active' = None /\ (s \notin Retained(sub) \/ sub[s].version # version)

(* The one way to lose it is that broker outage; no settlement, cancel or  *)
(* expiry drops it.                                                        *)
InterruptStep ==
  \A t \in Submission :
    /\ turn[t].target # None
    /\ turn[t].status \in Live
    /\ turn'[t].status \in Terminal
    => HandsOverTo(turn[t].target, turn[t].targetVersion) \/ LosesBroker(t)
InterruptIsDurable == [][InterruptStep]_vars

-----------------------------------------------------------------------------
(* What must eventually happen, whatever crashes.                          *)

(* A pending turn is not forgotten when its broker message is: it runs, is *)
(* redelivered until it runs, or is closed.                                *)
PendingIsLeft ==
  \A t \in Submission : (turn[t].status = "pending") ~> (turn[t].status # "pending")

(* A running turn does not hold the Conversation for ever: its pass settles*)
(* it, or the monitor takes it from a dead or fenced worker.               *)
RunEnds ==
  \A t \in Submission : (turn[t].status = "running") ~> (turn[t].status # "running")

-----------------------------------------------------------------------------
(* The refinement: what the user sees of the rows.                         *)

RowStage ==
  [none |-> "outside", pending |-> "queued", failed |-> "held",
   withdrawn |-> "withdrawn", claimed |-> "outside"]

StageOf(s) ==
  IF turn[s].status \in Live THEN "admitted"
  ELSE IF turn[s].status \in Terminal THEN "over"
  ELSE RowStage[sub[s].status]

Slot == INSTANCE TurnSlot WITH slot <- active, stage <- [s \in Submission |-> StageOf(s)]

(* Every step of the store, the workers, the monitor and their failures is *)
(* a step of the one-slot queue, or invisible.                             *)
ImplementsSlot == Slot!SlotSpec

(* The refinement: what the fences of a turn's calls read of its row.      *)
LifeOf(row) ==
  CASE row.status \in Terminal ->
         [status |-> "over", generation |-> 0,
          cancel |-> FALSE, interrupted |-> FALSE]
    [] row.status = "none" ->
         [status |-> "pending", generation |-> 1,
          cancel |-> FALSE, interrupted |-> FALSE]
    [] row.status \in Live ->
         [status |-> row.status, generation |-> row.generation,
          cancel |-> row.cancel, interrupted |-> row.target # None]

Lives == INSTANCE TurnLife
  WITH Turn <- Submission, life <- [s \in Submission |-> LifeOf(turn[s])]

(* Every step does to one turn what its calls may expect, or is invisible  *)
(* to them: whatever is late, lost or repeated, a dispatch generation is   *)
(* claimed once and a turn that ended is never begun again.                *)
ImplementsLife == Lives!LifeSpec
=============================================================================
