------------------------------ MODULE ToolCalls ------------------------------
(***************************************************************************)
(* Tool calls of the agent, the questions they ask and the receipts they   *)
(* leave (backend/app/agent_runtime/tool_call_executor, conversation/      *)
(* tool_batch, agent_strategy, agent_turn_state and                        *)
(* conversation/application: interaction_service, client_action_service,   *)
(* conversation_deletion_service), for the Conversations of one user.      *)
(*                                                                         *)
(* A call is durable before its handler runs and closed after it; the two  *)
(* transactions, the handler between them and the unlocked read `_finish`  *)
(* decides on are separate steps, so that an interrupt, a recovery, an     *)
(* answer or the deletion of the Conversation can fall between any two.    *)
(* A turn may have several passes, one per dispatch generation: the worker *)
(* of an earlier one may still be running its handler.                     *)
(*                                                                         *)
(* The queue that admits turns is TurnQueue; of a turn only what fences a  *)
(* call is kept here.  A read whose handler times out is closed "timeout"  *)
(* by the code: it is "failed" here, nothing tells the two apart.          *)
(***************************************************************************)
EXTENDS Integers, Sequences

CONSTANTS
  Turn,           \* turns, each of a Conversation of its own
  Call,           \* call ids the model may issue
  Owner,          \* [Call -> Turn]: agent_tool_calls.turn_id
  Effect,         \* [Call -> ToolEffect]
  Touches,        \* [Call -> SUBSET Resource]: resource_identities
  Order,          \* [Call -> Nat]: in which order a turn's model issues them
  LocalCall,      \* calls of the two recoverable invitation tools
  Scripts,        \* SUBSET SUBSET Call: what the models may issue together
  Client,         \* browser tabs of the user
  None,           \* SQL NULL
  MaxGeneration,  \* bound: dispatch generations of any turn
  LastGeneration, \* bound, by turn: its dispatch generations
  MaxQuestions,   \* bound, by turn: Interactions it creates
  MaxTakeovers,   \* bound: takeovers of one client action
  MaxLosses       \* bound, by turn: dead processes, threads that never ran

ToolEffect ==
  {"read", "runtime_control", "internal_write", "client_action",
   "external_write", "unknown"}

ASSUME ConstantsOK ==
  /\ Owner \in [Call -> Turn]
  /\ Effect \in [Call -> ToolEffect]
  /\ Order \in [Call -> Nat]
  /\ LocalCall \subseteq {c \in Call : Effect[c] = "internal_write"}
  /\ Scripts \subseteq SUBSET Call
  /\ MaxGeneration \in Nat \ {0}
  /\ LastGeneration \in [Turn -> 1 .. MaxGeneration]
  /\ MaxQuestions \in [Turn -> Nat]
  /\ MaxTakeovers \in Nat
  /\ MaxLosses \in [Turn -> Nat]
  /\ None \notin Call
  /\ None \notin Client

VARIABLES
  script,    \* the calls the models of this behaviour issue
  turn,      \* conversation_turns rows
  pass,      \* the pass of each dispatch generation of a turn
  row,       \* agent_tool_calls rows
  exec,      \* execute_tool_call of a call in the pass of a generation
  question,  \* agent_interactions rows of a turn, oldest first
  reply,     \* a client's result whose checks passed, before its UPDATE
  receipt,   \* conversation_deletion_receipts rows
  losses     \* faults each turn met so far

vars == <<script, turn, pass, row, exec, question, reply, receipt, losses>>

Generation == 1 .. MaxGeneration
Active == {"pending", "running", "waiting"}
Closed == {"completed", "failed", "denied", "cancelled", "unknown"}
Unresolved == {"running", "unknown"}
Mutating == ToolEffect \ {"read", "runtime_control"}
Reconciled == {"external_write", "client_action", "unknown"}

CallsBy == [t \in Turn |-> {c \in Call : Owner[c] = t}]
CallsOf(t) == CallsBy[t]

NewTurn ==
  [status |-> "pending", generation |-> 1,
   cancel |-> FALSE, interrupted |-> FALSE]
NoRow ==
  [status |-> "absent", generation |-> 0, allowed |-> FALSE,
   started |-> FALSE, recovered |-> FALSE]
NoPass == [at |-> "none", resumes |-> {}, about |-> None]
NoExec == [at |-> "idle", result |-> "none"]
NoReply == [index |-> 0, client |-> None, version |-> 0]

Init ==
  /\ script \in Scripts
  /\ turn = [t \in Turn |->
       IF script \cap CallsOf(t) # {}
         THEN NewTurn ELSE [NewTurn EXCEPT !.status = "closed"]]
  /\ pass = [t \in Turn |-> [g \in Generation |-> NoPass]]
  /\ row = [c \in Call |-> NoRow]
  /\ exec = [c \in Call |-> [g \in Generation |-> NoExec]]
  /\ question = [t \in Turn |-> <<>>]
  /\ reply = [t \in Turn |-> NoReply]
  /\ receipt = [c \in Call |-> "none"]
  /\ losses = [t \in Turn |-> 0]

-----------------------------------------------------------------------------
(* What the fences read.                                                   *)

(* The dispatch fence of the executor: the turn is there, not terminal and *)
(* still in the generation of the pass.                                    *)
Current(t, g) ==
  /\ turn[t].status \in Active
  /\ turn[t].generation = g

(* A registered mutation nobody knows the outcome of.                      *)
Pending(c) == row[c].status \in Unresolved /\ row[c].allowed

(* Mutant: a live handler blocks, an interrupted one no longer does.       *)
MutantBlocking(c) ==
  /\ Effect[c] # "read"
  /\ \/ row[c].status = "running" /\ row[c].allowed
     \/ receipt[c] = "open"

Blocking(c) ==
  /\ Effect[c] # "read"
  /\ Pending(c) \/ receipt[c] = "open"

Conflict(c) ==
  /\ Effect[c] # "read"
  /\ \E d \in Call \ {c} : Blocking(d) /\ Touches[c] \cap Touches[d] # {}

(* The question the turn is waiting on, if any.                            *)
Asked(t) == {i \in DOMAIN question[t] : question[t][i].status = "pending"}

(* The bound on questions: a turn asks again, or joins its open question.  *)
MayAsk(t) == Asked(t) # {} \/ Len(question[t]) < MaxQuestions[t]

(* What `_finish` and `_mark_handler_started` see of an execution that     *)
(* still has a transaction to make.                                        *)
Open == {"registered", "handling"}
Closing == {"finishing", "writing", "late", "replayed", "rewriting"}
Idle(t, g) == \A c \in CallsOf(t) : exec[c][g].at \notin Open \cup Closing

ExecIs(c, g, x) == exec' = [exec EXCEPT ![c][g] = x]
Ends(c, g) == ExecIs(c, g, NoExec)
Goes(c, g, at, result) == ExecIs(c, g, [at |-> at, result |-> result])
PassIs(t, g, p) == pass' = [pass EXCEPT ![t][g] = p]
PassAt(t, g, at) == PassIs(t, g, [pass[t][g] EXCEPT !.at = at])

-----------------------------------------------------------------------------
(* A pass: claimed by a worker, it first reads what its turn was waiting   *)
(* for, then runs batches of calls until it ends, asks or is stopped.      *)

Claim(t) ==
  LET g == turn[t].generation IN
  /\ turn[t].status = "pending"
  /\ turn' = [turn EXCEPT ![t].status = "running"]
  /\ PassAt(t, g, IF g = 1 THEN "live" ELSE "claimed")
  /\ UNCHANGED <<row, exec, question, reply, receipt, losses, script>>

Suspended(t) ==
  {c \in CallsOf(t) : row[c].status \in {"waiting", "deferred"}}

(* The answered questions whose call still waits: the latest one counts.   *)
Answered(t) ==
  {i \in DOMAIN question[t] :
     /\ question[t][i].status \in {"resolved", "rejected"}
     /\ row[question[t][i].call].status = "waiting"}

Recovering(t) ==
  {c \in CallsOf(t) \cap LocalCall :
     row[c].status = "waiting" /\ row[c].recovered}

(* Mutant: any positive answer doubles as approval of the call.            *)
MutantResumed(t, q) ==
  IF q.status = "rejected" /\ q.kind # "fact_confirmation"
    THEN [at |-> "rejecting", resumes |-> {}, about |-> q.call]
    ELSE [at |-> "live", resumes |-> Suspended(t), about |-> q.call]

Resumed(t, q) ==
  IF q.status = "rejected" /\ q.kind # "fact_confirmation"
    THEN [at |-> "rejecting", resumes |-> {}, about |-> q.call]
    ELSE [at |-> "live", resumes |-> Suspended(t),
          about |-> IF q.kind = "approval" THEN q.call ELSE None]

(* _load_tool_resume_snapshot, read in a transaction of its own.           *)
Load(t, g) ==
  /\ pass[t][g].at = "claimed"
  /\ \/ /\ Answered(t) # {}
        /\ \E i \in Answered(t) :
             /\ \A j \in Answered(t) : j <= i
             /\ PassIs(t, g, Resumed(t, question[t][i]))
     \/ /\ Answered(t) = {}
        /\ PassIs(t, g,
             [at |-> "live", about |-> None,
              resumes |-> IF Recovering(t) # {} THEN Suspended(t) ELSE {}])
  /\ UNCHANGED <<turn, row, exec, question, reply, receipt, losses, script>>

(* A rejected question: its call is denied, then the untouched tail of the *)
(* batch is closed.  Neither transaction looks at the status of the turn.  *)
RejectWaiting(t, g) ==
  /\ pass[t][g].at = "rejecting"
  /\ LET c == pass[t][g].about
         fits == /\ turn[t].status # "deleted"
                 /\ turn[t].generation = g
                 /\ row[c].status = "waiting"
     IN row' = IF fits
                 THEN [row EXCEPT ![c].status = "denied",
                                  ![c].generation = g, ![c].allowed = FALSE]
                 ELSE row
  /\ PassAt(t, g, "rejected")
  /\ UNCHANGED <<turn, exec, question, reply, receipt, losses, script>>

CancelDeferred(t, g) ==
  /\ pass[t][g].at = "rejected"
  /\ row' = [c \in Call |->
       IF /\ Owner[c] = t /\ row[c].status = "deferred"
          /\ turn[t].status # "deleted" /\ turn[t].generation = g
         THEN [row[c] EXCEPT !.status = "cancelled"] ELSE row[c]]
  /\ PassIs(t, g, [NoPass EXCEPT !.at = "live"])
  /\ UNCHANGED <<turn, exec, question, reply, receipt, losses, script>>

(* A call the model has not issued yet comes after those it has.           *)
Fresh(c) ==
  /\ c \in script
  /\ row[c].status = "absent"
  /\ \A d \in CallsOf(Owner[c]) :
       Order[d] > Order[c] => row[d].status = "absent"

(* An ask is a barrier: it and the untouched tail S of the batch are       *)
(* reserved in one transaction, then only the asking call goes on.         *)
Defer(t, g, c, S) ==
  /\ pass[t][g].at = "live"
  /\ MayAsk(t)
  /\ Idle(t, g)
  /\ Current(t, g)
  /\ c \in S /\ S \subseteq CallsOf(t)
  /\ \A d \in S :
       /\ Fresh(d) \/ d \in pass[t][g].resumes \cap Suspended(t)
       /\ Order[c] <= Order[d]
  /\ row' = [d \in Call |->
       IF d \in S /\ row[d].status = "absent"
         THEN [NoRow EXCEPT !.status = "deferred", !.generation = g]
         ELSE row[d]]
  /\ PassIs(t, g, [at |-> "barrier", about |-> c,
                   resumes |-> pass[t][g].resumes \cup S])
  /\ UNCHANGED <<turn, exec, question, reply, receipt, losses, script>>

(* evaluate_tool_policy: only an unknown effect is never allowed unless    *)
(* this very call was approved; anything may be asked about or denied.     *)
Allowable(t, g, c) == Effect[c] = "unknown" => pass[t][g].about = c

(* _start, under the locks of the user and of the turn.                    *)
Admits(t, g, c) ==
  /\ Owner[c] = t
  /\ Current(t, g)
  /\ ~Conflict(c)
  /\ Fresh(c) \/ c \in pass[t][g].resumes \cap Suspended(t)

Register(c, g, allowed) ==
  row' = [row EXCEPT ![c].status = "running", ![c].generation = g,
                     ![c].allowed = allowed]

(* Reads run side by side, anything else alone.                            *)
Exclusive(t, g, c) ==
  \A d \in CallsOf(t) :
    exec[d][g].at \in Open \cup Closing =>
      Effect[c] = "read" /\ Effect[d] = "read" /\ row[d].allowed

(* A call the policy allows; a preflight error or too large arguments      *)
(* close it before its handler, and so does a denial.                      *)
Start(t, g, c) ==
  /\ pass[t][g].at = "live"
  /\ Exclusive(t, g, c)
  /\ Admits(t, g, c)
  /\ \/ Allowable(t, g, c) /\ Register(c, g, TRUE)
        /\ Goes(c, g, "registered", "none")
     \/ Allowable(t, g, c) /\ Register(c, g, TRUE)
        /\ Goes(c, g, "finishing", "failed")
     \/ Register(c, g, FALSE) /\ Goes(c, g, "finishing", "denied")
  /\ UNCHANGED <<turn, pass, question, reply, receipt, losses, script>>

(* The asking call behind its barrier, or the resource conflict that keeps *)
(* it deferred.                                                            *)
StartAsking(t, g) ==
  LET c == pass[t][g].about IN
  /\ pass[t][g].at = "barrier"
  /\ PassIs(t, g, [pass[t][g] EXCEPT !.at = "live", !.about = None])
  /\ IF Admits(t, g, c)
       THEN Register(c, g, FALSE) /\ Goes(c, g, "finishing", "waiting")
       ELSE UNCHANGED <<row, exec>>
  /\ UNCHANGED <<turn, question, reply, receipt, losses, script>>

(* A call id the model repeats: `_start` returns the recorded result, but  *)
(* a cancellation landing meanwhile is audited on the closed row.          *)
ReplayCancelled(t, g, c) ==
  /\ pass[t][g].at = "live"
  /\ Idle(t, g)
  /\ Owner[c] = t /\ Current(t, g) /\ ~Conflict(c)
  /\ row[c].status \in Closed
  /\ PassAt(t, g, "stopping")
  /\ Goes(c, g, "replayed", "cancelled")
  /\ UNCHANGED <<turn, row, question, reply, receipt, losses, script>>

-----------------------------------------------------------------------------
(* The handler of a call.                                                  *)

Admitted(c, g) ==
  /\ row[c].status = "running" /\ row[c].generation = g
  /\ Current(Owner[c], g)

MarkHandlerStarted(c, g) ==
  /\ exec[c][g].at = "registered"
  /\ IF Admitted(c, g)
       THEN /\ row' = [row EXCEPT ![c].started = TRUE]
            /\ Goes(c, g, "handling", "none")
       ELSE UNCHANGED row /\ Ends(c, g)
  /\ UNCHANGED <<turn, pass, question, reply, receipt, losses, script>>

Ask(c, kind, client) ==
  question' = [question EXCEPT ![Owner[c]] =
    Append(question[Owner[c]],
           [call |-> c, kind |-> kind, status |-> "pending",
            client |-> client, version |-> 1])]

(* A client action is created and committed by the handler itself, before  *)
(* the call is recorded as waiting.                                        *)
CreateClientAction(c, g, client) ==
  /\ exec[c][g].at = "handling"
  /\ Effect[c] = "client_action"
  /\ turn[Owner[c]].status # "deleted"
  /\ Asked(Owner[c]) = {}
  /\ Len(question[Owner[c]]) < MaxQuestions[Owner[c]]
  /\ Ask(c, "client_readiness", client)
  /\ UNCHANGED <<turn, pass, row, exec, reply, receipt, losses, script>>

(* What an exception, a timeout or a cancellation of a started handler is  *)
(* recorded as (_classify_interrupted_call): a local failure is no         *)
(* evidence that the mutation did not happen.                              *)
Ambiguous(c, status) == IF Effect[c] \in Mutating THEN "unknown" ELSE status

(* A handler asks for a missing prerequisite; that of a client action only *)
(* asks through the action it created.                                     *)
AsksBack(c) ==
  Effect[c] = "client_action" =>
    \E i \in Asked(Owner[c]) : question[Owner[c]][i].call = c

HandlerReturns(c, g) ==
  /\ exec[c][g].at = "handling"
  /\ \E result \in {"completed", "failed", "denied", "unknown", "waiting"} :
       /\ result = "waiting" => AsksBack(c) /\ MayAsk(Owner[c])
       /\ Goes(c, g, "finishing", result)
  /\ UNCHANGED <<turn, pass, row, question, reply, receipt, losses, script>>

HandlerRaises(c, g) ==
  /\ exec[c][g].at = "handling"
  /\ Goes(c, g, "finishing", Ambiguous(c, "failed"))
  /\ UNCHANGED <<turn, pass, row, question, reply, receipt, losses, script>>

(* The task of the pass is cancelled: a cancelled turn, a lost fence or    *)
(* control plane, the time limit of the run.                               *)
StopPass(t, g) ==
  /\ pass[t][g].at \notin {"none", "stopping"}
  /\ PassAt(t, g, "stopping")
  /\ UNCHANGED <<turn, row, exec, question, reply, receipt, losses, script>>

(* audit_cancellation of a call whose handler has not started or is        *)
(* running; one the policy did not allow may be stopped in `_start`.       *)
CancelExecution(c, g) ==
  /\ pass[Owner[c]][g].at = "stopping"
  /\ \/ exec[c][g].at = "registered" /\ Goes(c, g, "finishing", "cancelled")
     \/ /\ exec[c][g].at = "finishing"
        /\ row[c].status # "absent" /\ ~row[c].allowed
        /\ Goes(c, g, "finishing", "cancelled")
     \/ /\ exec[c][g].at = "handling"
        /\ Goes(c, g, "finishing", Ambiguous(c, "cancelled"))
  /\ UNCHANGED <<turn, pass, row, question, reply, receipt, losses, script>>

-----------------------------------------------------------------------------
(* _finish: an unlocked read of the row and of the turn decides, the write *)
(* follows under the lock of the turn.                                     *)

(* A cancellation, once the row tells that the handler had started.        *)
Reclassified(c, result) ==
  IF result = "cancelled" /\ row[c].started THEN Ambiguous(c, result)
                                            ELSE result

(* Mutant: a late result is kept only while the call is still running.     *)
MutantRecordsLate(c, g, result) ==
  /\ row[c].generation = g
  /\ row[c].status = "running"
  /\ result # "cancelled"

RecordsLate(c, g, result) ==
  /\ row[c].generation = g
  /\ row[c].started \/ row[c].status = "unknown"
  /\ result # "cancelled"
  /\ row[c].status # "completed"

FinishRead(c, g) ==
  LET result == Reclassified(c, exec[c][g].result)
      replay == exec[c][g].at = "replayed"
  IN /\ exec[c][g].at \in {"finishing", "replayed"}
     /\ row[c].status # "absent"
     /\ IF Current(Owner[c], g) /\ row[c].generation = g
          THEN Goes(c, g, IF replay THEN "rewriting" ELSE "writing", result)
          ELSE IF RecordsLate(c, g, result) /\ result # row[c].status
            THEN Goes(c, g, IF replay THEN "rewriting" ELSE "late", result)
            ELSE Ends(c, g)
     /\ UNCHANGED <<turn, pass, row, question, reply, receipt, losses, script>>

Settles(result) == result \in {"completed", "failed", "cancelled"}

(* The row went with its Conversation: a known end settles the receipt.    *)
FinishDeleted(c, g) ==
  /\ exec[c][g].at \in {"finishing", "replayed"}
  /\ row[c].status = "absent"
  /\ receipt' = IF receipt[c] = "open" /\ Settles(exec[c][g].result)
                  THEN [receipt EXCEPT ![c] = "settled"] ELSE receipt
  /\ Ends(c, g)
  /\ UNCHANGED <<turn, pass, row, question, reply, losses, script>>

(* "connection" stands for every prerequisite a user is asked for.        *)
AskKind(c) ==
  IF row[c].started /\ c \in LocalCall THEN {"fact_confirmation"}
  ELSE {"approval", "connection"}

(* The write, which fails when the row went since the read.  A waiting     *)
(* call asks unless its turn is asking already.                            *)
FinishWrite(c, g) ==
  LET t == Owner[c]
      result == exec[c][g].result
  IN /\ exec[c][g].at \in {"writing", "rewriting"}
     /\ Ends(c, g)
     /\ IF row[c].status = "absent"
          THEN UNCHANGED <<row, question, pass>>
          ELSE /\ row' = [row EXCEPT ![c].status = result]
               /\ IF result = "waiting" /\ Asked(t) = {}
                    THEN /\ MayAsk(t)
                         /\ \E kind \in AskKind(c) : Ask(c, kind, None)
                    ELSE UNCHANGED question
               /\ IF result = "waiting" /\ pass[t][g].at = "live"
                    THEN PassAt(t, g, "asking") ELSE UNCHANGED pass
     /\ UNCHANGED <<turn, reply, receipt, losses, script>>

FinishLate(c, g) ==
  /\ exec[c][g].at = "late"
  /\ Ends(c, g)
  /\ row' = IF row[c].status = "absent" THEN row
              ELSE [row EXCEPT ![c].status = exec[c][g].result]
  /\ UNCHANGED <<turn, pass, question, reply, receipt, losses, script>>

-----------------------------------------------------------------------------
(* The end of a pass, and what fences a turn.                              *)

(* A pass that is not stopped awaits its executions; a stopped one leaves  *)
(* the threads of `_finish` behind.                                        *)
PassOver(t, g) ==
  IF pass[t][g].at = "stopping"
    THEN \A c \in CallsOf(t) : exec[c][g].at \notin Open
    ELSE Idle(t, g)

EndPass(t, g) == PassIs(t, g, NoPass)

(* Nobody reads the flags of a turn that ended.                            *)
EndTurn(t) ==
  turn' = [turn EXCEPT ![t].status = "closed",
                       ![t].cancel = FALSE, ![t].interrupted = FALSE]

(* turn_store._wait.                                                       *)
WaitTurn(t, g) ==
  /\ pass[t][g].at = "asking"
  /\ PassOver(t, g)
  /\ EndPass(t, g)
  /\ turn' = IF turn[t].status = "running" /\ turn[t].generation = g
               THEN [turn EXCEPT ![t].status = "waiting"] ELSE turn
  /\ UNCHANGED <<row, exec, question, reply, receipt, losses, script>>

(* turn_store._finish.                                                     *)
FinishTurn(t, g) ==
  /\ pass[t][g].at \in {"live", "stopping"}
  /\ PassOver(t, g)
  /\ EndPass(t, g)
  /\ IF turn[t].status = "running" /\ turn[t].generation = g
       THEN EndTurn(t) ELSE UNCHANGED turn
  /\ UNCHANGED <<row, exec, question, reply, receipt, losses, script>>

(* First half of cancel_pending_turn.                                      *)
CancelTurn(t) ==
  /\ turn[t].status \in Active
  /\ turn' = [turn EXCEPT ![t].cancel = TRUE]
  /\ UNCHANGED <<pass, row, exec, question, reply, receipt, losses, script>>

(* An answer clears the flag of a cancel, but does not stop the handler    *)
(* that raised it: its second half looks at the status alone.              *)
WasAnswered(t) ==
  \E i \in DOMAIN question[t] : question[t][i].status \in {"resolved", "rejected"}

(* _terminalize, from the second half of a cancel, after a failed dispatch *)
(* or from the monitor: the lease of a pass that is still alive may have   *)
(* run out.  The rows of its calls stay as they are.                       *)
CloseTurn(t) ==
  /\ \/ turn[t].status \in {"pending", "running"}
     \/ turn[t].status = "waiting" /\ (turn[t].cancel \/ WasAnswered(t))
  /\ EndTurn(t)
  /\ UNCHANGED <<pass, row, exec, question, reply, receipt, losses, script>>

(* Mutant: a call takes the name of its timeline event.                    *)
MutantInterrupted(c) == "interrupted"

(* What an interrupt makes of a registered call.                           *)
Interrupted(c) ==
  IF row[c].status = "running" /\ Effect[c] # "read" THEN "unknown"
                                                     ELSE "cancelled"

(* request_turn_interrupt, once per admission of the turn.                 *)
Interrupt(t) ==
  /\ turn[t].status \in Active
  /\ ~turn[t].interrupted
  /\ turn[t].generation < LastGeneration[t]
  /\ turn' = [turn EXCEPT ![t].cancel = TRUE, ![t].interrupted = TRUE,
                          ![t].generation = @ + 1]
  /\ row' = [c \in Call |->
       IF /\ Owner[c] = t
          /\ row[c].status \in {"running", "waiting", "deferred"}
         THEN [row[c] EXCEPT !.status = Interrupted(c)] ELSE row[c]]
  /\ UNCHANGED <<pass, exec, question, reply, receipt, losses, script>>

(* recover_invitation_turn: the monitor finds the lease run out, one local *)
(* call in doubt and nothing else.  The call is the last of its turn.      *)
RecoverTurn(c) ==
  LET t == Owner[c]
      lost == turn[t].status = "running"
      others == {d \in CallsOf(t) \ {c} : row[d].status # "absent"}
      facts == {i \in DOMAIN question[t] :
                  /\ question[t][i].call = c
                  /\ question[t][i].kind = "fact_confirmation"}
  IN /\ c \in LocalCall
     /\ turn[t].status \in {"pending", "running"}
     /\ ~turn[t].interrupted
     /\ row[c].status # "absent"
     /\ \A d \in others :
          Order[d] < Order[c] /\ row[d].status \in Closed \ {"unknown"}
     /\ \A i \in facts : question[t][i].status # "cancelled"
     /\ lost => turn[t].generation < LastGeneration[t]
     /\ row' = [row EXCEPT ![c].status = "waiting", ![c].recovered = TRUE]
     /\ turn' = [turn EXCEPT
          ![t].status =
            IF facts \cap Asked(t) # {} THEN "waiting" ELSE "pending",
          ![t].generation = IF lost THEN @ + 1 ELSE @]
     /\ UNCHANGED <<pass, exec, question, reply, receipt, losses, script>>

-----------------------------------------------------------------------------
(* Answers.  One transaction resolves the question and resumes the turn,   *)
(* or rolls both back; a cancelled answer commits before it cancels.       *)

(* Mutant: the answer commits although the turn does not wait yet.         *)
MutantResume(t) ==
  /\ turn[t].generation < LastGeneration[t]
  /\ turn' = IF turn[t].status = "waiting"
               THEN [turn EXCEPT ![t].status = "pending", ![t].cancel = FALSE,
                                 ![t].generation = @ + 1]
               ELSE turn

(* Mutant: the answered turn keeps the generation it had.                  *)
MutantUnfencedResume(t) ==
  /\ turn[t].status = "waiting"
  /\ turn' = [turn EXCEPT ![t].status = "pending", ![t].cancel = FALSE]

Resume(t) ==
  /\ turn[t].status = "waiting"
  /\ turn[t].generation < LastGeneration[t]
  /\ turn' = [turn EXCEPT ![t].status = "pending", ![t].cancel = FALSE,
                          ![t].generation = @ + 1]

Revise(t, i, q) == question' = [question EXCEPT ![t][i] = q]

Resolve(t, i, status) ==
  /\ question[t][i].status = "pending"
  /\ Revise(t, i, [question[t][i] EXCEPT !.status = status])

Answer(t, i, status) ==
  /\ question[t][i].kind # "client_readiness"
  /\ Resolve(t, i, status)
  /\ Resume(t)
  /\ UNCHANGED <<pass, row, exec, reply, receipt, losses, script>>

(* The first transaction of resolve_turn_interaction with "cancelled":     *)
(* CloseTurn may follow, unless the turn is running.                       *)
AnswerCancels(t, i) ==
  /\ question[t][i].kind # "client_readiness"
  /\ turn[t].status # "deleted"
  /\ Resolve(t, i, "cancelled")
  /\ turn' = IF turn[t].status \in Active
               THEN [turn EXCEPT ![t].cancel = TRUE] ELSE turn
  /\ UNCHANGED <<pass, row, exec, reply, receipt, losses, script>>

(* Another tab takes a client action over.                                 *)
Takeover(t, i, client) ==
  /\ question[t][i].kind = "client_readiness"
  /\ question[t][i].status = "pending"
  /\ question[t][i].client # client
  /\ question[t][i].version <= MaxTakeovers
  /\ Revise(t, i, [question[t][i] EXCEPT !.client = client,
                        !.version = question[t][i].version + 1])
  /\ UNCHANGED <<turn, pass, row, exec, reply, receipt, losses, script>>

(* resolve_pending_action checks the client on the row it read ...         *)
ReadClientAction(t, i) ==
  /\ reply[t] = NoReply
  /\ question[t][i].kind = "client_readiness"
  /\ question[t][i].status = "pending"
  /\ reply' = [reply EXCEPT ![t] =
       [index |-> i, client |-> question[t][i].client,
        version |-> question[t][i].version]]
  /\ UNCHANGED <<turn, pass, row, exec, question, receipt, losses, script>>

(* Mutant: the UPDATE matches any version of the pending row.              *)
MutantUnmoved(t) == question[t][reply[t].index].status = "pending"

Unmoved(t) ==
  /\ question[t][reply[t].index].status = "pending"
  /\ question[t][reply[t].index].version = reply[t].version

(* ... and its UPDATE resumes the turn, or loses to another transaction.   *)
ResolveClientAction(t) ==
  /\ reply[t] # NoReply
  /\ reply' = [reply EXCEPT ![t] = NoReply]
  /\ IF /\ reply[t].index \in DOMAIN question[t] /\ Unmoved(t)
        /\ turn[t].status = "waiting"
       THEN Resolve(t, reply[t].index, "resolved") /\ Resume(t)
       ELSE UNCHANGED <<question, turn>>
  /\ UNCHANGED <<pass, row, exec, receipt, losses, script>>

-----------------------------------------------------------------------------
(* The deletion of the Conversation, its receipts, and faults.             *)

(* Mutant: a call that is still running leaves no receipt.                 *)
MutantLeavesReceipt(c) == Effect[c] \in Reconciled /\ row[c].status = "unknown"

LeavesReceipt(c) == Effect[c] \in Reconciled /\ row[c].status \in Unresolved

DeleteConversation(t) ==
  /\ turn[t].status # "deleted"
  /\ script \cap CallsOf(t) # {}
  /\ turn' = [turn EXCEPT ![t] = [NewTurn EXCEPT !.status = "deleted"]]
  /\ receipt' = [c \in Call |-> IF Owner[c] = t /\ LeavesReceipt(c)
                                  THEN "open" ELSE receipt[c]]
  /\ row' = [c \in Call |-> IF Owner[c] = t THEN NoRow ELSE row[c]]
  /\ question' = [question EXCEPT ![t] = <<>>]
  /\ UNCHANGED <<pass, exec, reply, losses, script>>

(* An open receipt is purged 30 days after the deletion: no handler of its *)
(* call is left by then.                                                   *)
ExpireReceipt(c) ==
  /\ receipt[c] = "open"
  /\ \A g \in Generation : exec[c][g].at \notin Open \cup Closing
  /\ receipt' = [receipt EXCEPT ![c] = "expired"]
  /\ UNCHANGED <<turn, pass, row, exec, question, reply, losses, script>>

Fault(t) ==
  /\ losses[t] < MaxLosses[t]
  /\ losses' = [losses EXCEPT ![t] = @ + 1]

(* A worker process dies with its pass.                                    *)
Crash(t, g) ==
  /\ Fault(t)
  /\ pass[t][g].at # "none"
  /\ EndPass(t, g)
  /\ exec' = [c \in Call |-> IF Owner[c] = t
                               THEN [exec[c] EXCEPT ![g] = NoExec]
                               ELSE exec[c]]
  /\ UNCHANGED <<turn, row, question, reply, receipt, script>>

(* The cancellation finds the thread of `_finish` still queued.            *)
LoseFinish(c, g) ==
  /\ Fault(Owner[c])
  /\ exec[c][g].at \in {"finishing", "replayed"}
  /\ pass[Owner[c]][g].at \in {"stopping", "none"}
  /\ Ends(c, g)
  /\ UNCHANGED <<turn, pass, row, question, reply, receipt, script>>

-----------------------------------------------------------------------------
PassStep(t, g) ==
  \/ Load(t, g)
  \/ RejectWaiting(t, g)
  \/ CancelDeferred(t, g)
  \/ \E c \in CallsOf(t) :
       \/ \E S \in SUBSET CallsOf(t) : Defer(t, g, c, S)
       \/ Start(t, g, c)
       \/ ReplayCancelled(t, g, c)
  \/ StartAsking(t, g)
  \/ StopPass(t, g)
  \/ WaitTurn(t, g)
  \/ FinishTurn(t, g)
  \/ Crash(t, g)

CallStep(c, g) ==
  \/ MarkHandlerStarted(c, g)
  \/ \E client \in Client : CreateClientAction(c, g, client)
  \/ HandlerReturns(c, g)
  \/ HandlerRaises(c, g)
  \/ CancelExecution(c, g)
  \/ FinishRead(c, g)
  \/ FinishDeleted(c, g)
  \/ FinishWrite(c, g)
  \/ FinishLate(c, g)
  \/ LoseFinish(c, g)

QuestionStep(t, i) ==
  \/ \E status \in {"resolved", "rejected"} : Answer(t, i, status)
  \/ AnswerCancels(t, i)
  \/ \E client \in Client : Takeover(t, i, client)
  \/ ReadClientAction(t, i)

TurnStep(t) ==
  \/ Claim(t)
  \/ CancelTurn(t)
  \/ CloseTurn(t)
  \/ Interrupt(t)
  \/ ResolveClientAction(t)
  \/ DeleteConversation(t)

Next ==
  \/ \E t \in Turn : TurnStep(t)
  \/ \E t \in Turn : \E g \in 1 .. LastGeneration[t] : PassStep(t, g)
  \/ \E c \in Call : \E g \in 1 .. LastGeneration[Owner[c]] : CallStep(c, g)
  \/ \E t \in Turn : \E i \in DOMAIN question[t] : QuestionStep(t, i)
  \/ \E c \in Call : RecoverTurn(c) \/ ExpireReceipt(c)

Spec == Init /\ [][Next]_vars

-----------------------------------------------------------------------------
TypeOK ==
  /\ script \in SUBSET Call
  /\ turn \in [Turn -> [status : Active \cup {"closed", "deleted"},
                        generation : Generation,
                        cancel : BOOLEAN, interrupted : BOOLEAN]]
  /\ pass \in [Turn -> [Generation ->
       [at : {"none", "claimed", "rejecting", "rejected", "live", "barrier",
              "asking", "stopping"},
        resumes : SUBSET Call, about : Call \cup {None}]]]
  /\ row \in [Call ->
       [status : Closed \cup {"absent", "running", "waiting", "deferred"},
        generation : {0} \cup Generation,
        allowed : BOOLEAN, started : BOOLEAN, recovered : BOOLEAN]]
  /\ exec \in [Call -> [Generation ->
       [at : Open \cup Closing \cup {"idle"},
        result : Closed \cup {"none", "waiting"}]]]
  /\ question \in [Turn -> Seq(
       [call : Call,
        kind : {"approval", "connection", "client_readiness",
                "fact_confirmation"},
        status : {"pending", "resolved", "rejected", "cancelled"},
        client : Client \cup {None}, version : 1 .. MaxTakeovers + 1])]
  /\ reply \in [Turn -> [index : Nat, client : Client \cup {None},
                         version : 0 .. MaxTakeovers + 1]]
  /\ receipt \in [Call -> {"none", "open", "settled", "expired"}]
  /\ losses \in [Turn -> Nat]

(* Two mutations of one resource never run side by side, nor does a call   *)
(* run twice, whichever Conversations, passes and generations the handlers *)
(* belong to and whatever was interrupted, resumed or deleted under them   *)
(* (tool_call_executor._start; a call of the recoverable local tools is    *)
(* exempt: its operation is idempotent and recovery may run it again).     *)
HandlersExclude ==
  \A c, d \in Call, g, h \in Generation :
    /\ exec[c][g].at = "handling" /\ exec[d][h].at = "handling"
    /\ Effect[c] \in Reconciled /\ Effect[d] \in Reconciled
    /\ c = d \/ Touches[c] \cap Touches[d] # {}
    => c = d /\ g = h

(* A mutation of the world outside that nobody knows the end of keeps its  *)
(* resource: an interrupt, a crash, a cancellation and the deletion of its *)
(* Conversation all leave it blocking, until one of its own executions     *)
(* reports an end or the receipt's safety window is over.                  *)
UnknownKeepsResource ==
  [][\A c \in Call :
       (Effect[c] \in Reconciled /\ Blocking(c) /\ ~Blocking(c)') =>
         \/ receipt'[c] = "expired"
         \/ \E g \in Generation : /\ exec[c][g].at \in Closing
                                  /\ exec'[c][g].at = "idle"]_vars

(* What a handler reported is what its call says, however late it came:    *)
(* an interrupt or the end of the turn may close the call first, but does  *)
(* not keep the result out (the late_result branch of _finish), and no     *)
(* later step replaces a completed outcome, unless its Conversation goes   *)
(* or a repeat of its id is cancelled.                                     *)
LateResultRecorded ==
  [][\A c \in Call \ LocalCall, g \in Generation :
       /\ (/\ exec[c][g].at \in {"finishing", "writing", "late"}
           /\ exec[c][g].result \in {"completed", "failed"}
           /\ exec'[c][g].at = "idle" /\ losses' = losses
           /\ row[c].started /\ row[c].generation = g
           /\ row[c].status # "completed")
          => row'[c].status = exec[c][g].result
       /\ row[c].status = "completed" =>
            \/ row'[c].status \in {"completed", "absent"}
            \/ exec[c][g].at = "rewriting"
            \/ row[c].generation # g]_vars

(* A turn that waits has a pending question somebody can answer; a         *)
(* cancelled one is the exception, the monitor or its user closes it.      *)
WaitingHasQuestion ==
  \A t \in Turn :
    turn[t].status = "waiting" /\ ~turn[t].cancel => Asked(t) # {}

(* A waiting turn goes on by one answer to its pending question; of two    *)
(* that race the second changes nothing, and a client action is answered   *)
(* by the tab it is bound to when the answer commits, not when it was      *)
(* checked.  An answered question never changes again.                     *)
OneAnswerResumes ==
  [][\A t \in Turn :
       /\ turn[t].status = "waiting" /\ turn'[t].status = "pending" =>
            \E i \in Asked(t) :
              /\ question'[t] # question[t]
              /\ question'[t][i].status \in {"resolved", "rejected"}
              /\ question[t][i].kind = "client_readiness" =>
                   reply[t].client = question[t][i].client
       /\ \A i \in DOMAIN question[t] \ Asked(t) :
            turn'[t].status # "deleted" => question'[t][i] = question[t][i]]_vars

(* The handler of a tool whose effect is unknown runs only after its user  *)
(* approved this very call: a connection made or the approval of a sibling *)
(* is no approval (tool_policy, agent_strategy).                           *)
ApprovedBeforeEffect ==
  \A c \in Call, g \in Generation :
    /\ Effect[c] = "unknown" /\ exec[c][g].at = "handling"
    /\ turn[Owner[c]].status # "deleted"
    => \E i \in DOMAIN question[Owner[c]] :
         /\ question[Owner[c]][i].call = c
         /\ question[Owner[c]][i].kind = "approval"
         /\ question[Owner[c]][i].status = "resolved"

-----------------------------------------------------------------------------
(* The refinement: a turn that was closed or deleted is over.              *)
LifeOf(r) ==
  IF r.status \in Active THEN r
  ELSE [status |-> "over", generation |-> 0,
        cancel |-> FALSE, interrupted |-> FALSE]

Lives == INSTANCE TurnLife WITH life <- [t \in Turn |-> LifeOf(turn[t])]

(* Of the turn itself the executor, the questions and the deletion do only *)
(* what the queue does: TurnQueue implements the same specification.       *)
ImplementsLife == Lives!LifeSpec
=============================================================================
