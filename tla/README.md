# A verification of Interview Copilot's durable protocols

Interview Copilot is a local-first assistant for job seekers: a FastAPI process, Celery
workers behind Redis, PostgreSQL as the one source of truth, and an object store. Its code
under `src/backend/app` follows one discipline: a transition is one SQL transaction under a
row lock, everything slow or external happens between transactions, and what was true before
the gap is re-checked behind a fence (a generation, a lease version, a revision, a status).
What can go wrong is therefore in the gaps: a process dies in one, a message is lost or
delivered twice around one, or another actor commits inside one. These modules model the
transactions as actions and the gaps as interleavings.

## 1. Inventory

| component | code | its state | its operations | what makes it correct |
|---|---|---|---|---|
| Turn queue | `conversation/application/turn_store.py`, `turn_admission.py`, `turn_executor.py`, `invitation_turn_recovery.py`, `attachment_waiting_service.py`, `api/chat/streaming.py` | `pending_submissions`, `conversation_turns`, `conversations.active_turn_id`, the broker's queue, the pass in a worker | admit, edit, retry, withdraw, interrupt, cancel, dispatch, claim, finish, wait, resume, expire, recover | one live turn; FIFO with a failed row as a hold; a fenced pass settles nothing; outcomes are final; nothing stays pending or running for ever |
| Outbox | `platform/outbox.py`, `models/outbox_job.py`, `worker/tasks/outbox.py` | `outbox_jobs`, a drain's snapshot | enqueue, claim, take over, bury, renew, settle, back off | a bounded number of starts; only the lease's holder settles; every job ends |
| File assets | `files/application`, `api/file_assets.py` | `file_assets`, the object store | reserve, upload, confirm, consume, delete, expire, remove | readable files have bytes; bytes of ended files do not linger |
| Knowledge index | `rag/application/ingestion_job.py`, `rag/index`, `worker/outbox_handlers/knowledge.py` | a document's status, chunks, published entries, its index job | ingest, publish, settle, edit, delete, sweep | a document leaves `processing`; what is published is current; a deleted document stays empty |
| Usage ledger, model dispatch | `usage/service.py`, `reconciliation.py`, `runtime.py`, `conversation/application/model_dispatch_service.py` | receipts, budget windows, the dispatches of a turn | reserve, claim, settle, close, reconcile | budgets hold; nothing spent is refunded; a settlement counts once; a dispatch and its receipt agree |
| Tool calls | `agent_runtime/tool_call_executor.py`, `conversation/tool_batch.py`, `agent_strategy.py`, `agent_turn_state.py` | `agent_tool_calls`, the execution of a call in a worker | defer, start, mark, finish, close, replay, recover | calls that touch one resource exclude each other; a result is recorded however late; nobody's guess frees a resource |
| Interactions | `conversation/application/interaction_service.py`, `client_action_service.py` | `agent_interactions` | ask, answer, take over, resolve a client action | a waiting turn has a question; one answer drives it once; an unknown effect was approved |
| Conversation deletion | `conversation/application/conversation_deletion_service.py`, `conversation_deletion_receipts.py` | `conversation_deletion_receipts` | delete, settle a receipt, expire it | a deleted Conversation still blocks what it may have changed |
| Persistent tasks | `automation/application/tasks.py` | tasks, triggers | intake, merge, admit, settle, repair | no trigger is lost or run twice |
| the others | see `PROJECT.json` | | | each listed there with the reason it is not modelled |

How they interact. API handlers call the stores and then the broker. A worker executes a pass
(`execute_turn`): it claims the turn, runs the engine (model calls, tool calls, interactions)
and settles it; the end of a turn admits the next submission in the same transaction, and the
worker sends the message for it. The API process also runs the monitor of orphaned turns.
Business transactions enqueue outbox jobs; drains, woken after the commit and by Beat every
five minutes, run their handlers (object deletion, index publication).

Hard behaviours, each at its line under "hazards" in `PROJECT.json`: deliveries repeated by
`acks_late` and the visibility timeout; a pass outliving its lease; cancels and interrupts that
cross a settlement; a broker refusal after a commit; leases taken over from a worker that is
alive; a lock given up by a commit half-way through an operation; a tool's handler that outlives the
interrupt, the recovery or the deletion of its turn and then reports; two answers to one question.

## 2. Plan

Order of work; all but the seventh are done.

1. `TurnQueue` with its abstract specification `TurnSlot`; proofs of its safety. **Done.**
2. `Outbox`, a component other modules extend; proofs. **Done.**
3. `FileAssets`, which composes `Outbox` with the files; proofs, reusing those of `Outbox`
   through a refinement theorem. **Done.**
4. `KnowledgeIndex`, which composes `Outbox` with ingestion: what is published belongs to the
   document as it is now, and a deleted document stays empty; proofs. **Done** for library
   documents with a file; the change of the embedding generation is left.
5. `UsageLedger`: receipts against the windows of an account, and the model dispatches of a turn
   with their receipts, and their abstract specification `SpendingLimit`; proofs of all of it.
   **Done** for tokens; prices are left.
6. `ToolCalls`: the tool calls of the turns of one user, which it takes from `TurnQueue` by
   generation and status alone, with the questions they ask and the receipts a deletion leaves;
   proofs of all its invariants. **Done.**
7. `PersistentTask`: triggers, with the handover between user submissions and automation. **Not
   done**: it is the largest store left (intake, merge, admission, settlement and repair each span a
   task, its triggers and a Conversation's queue), and it needs automation turns in `TurnQueue` first.
8. The order of admission, the interrupt, the executors and the refinement of `TurnSlot`, proved.
   **Done.** What is left of `TurnQueue` is under fairness.
9. `TurnLife`, what `TurnQueue` and `ToolCalls` must agree on about a turn, and the proofs that both
   implement it. **Done.**

Each component gets one safety run on the smallest instance that has two of every actor that
races, a liveness run where something must happen, and a run per documented claim the code
breaks.

## 3. The modules

| module | what it is |
|---|---|
| `TurnQueue` | one Conversation's queue: every command, message, pass, sweep and fault |
| `TurnSlot` | what the queue promises: one slot, entered at most once per submission |
| `TurnLife` | what the queue and the executor of the tool calls agree on about a turn: a generation names one pass |
| `MCTurnQueue` | bounds, symmetry and the patient user of the liveness run |
| `TurnQueueProofs` | TLAPS proofs of all properties of `TurnQueue` that are not about liveness, its refinements of `TurnSlot` and of `TurnLife` among them |
| `Outbox` | `outbox_jobs` and its drains, for any set of jobs |
| `OutboxProofs` | TLAPS proofs: attempts and leases are kept, no job is stranded, every job runs down |
| `FileAssets` | `EXTENDS Outbox`; the handler's call becomes the deletion of an object |
| `MCFileAssets` | one file and its two jobs |
| `FileAssetsProofs` | TLAPS proofs: the files refine the outbox, and keep their bytes exactly as long as they should |
| `KnowledgeIndex` | `EXTENDS Outbox`; one library document, its passes and its index jobs |
| `MCKnowledgeIndex` | one worker, titles that never come back |
| `KnowledgeIndexProofs` | TLAPS proofs: the index refines the outbox, deletion is final, a replaced pass is silent |
| `UsageLedger` | the metered calls of one account, the dispatches of one turn among them |
| `MCUsageLedger` | allowances and symmetry |
| `SpendingLimit` | what the ledger promises: a call is admitted where the day's charges leave room, and consumes no more than its charge |
| `UsageLedgerProofs` | TLAPS proofs of all properties of `UsageLedger`, the sums and its refinement of `SpendingLimit` among them |
| `ToolCalls` | the tool calls of one user's turns, their questions and deletion receipts |
| `MCToolCalls` | five calls of four turns that share a resource, and what their models may issue together |
| `ToolCallsProofs` | TLAPS proofs: types, that an unknown outcome keeps its resource, and the refinement of `TurnLife` |
| `ToolCallsFenceProofs` | TLAPS proofs that handlers on one resource exclude each other, and that late results are recorded |
| `ToolCallsQuestionProofs` | TLAPS proofs: a waiting turn has a question, one answer resumes it, an unknown effect was approved |

### TurnQueue

`sub[s]` is the `pending_submissions` row of submission *s* and `turn[s]` the
`conversation_turns` row created from it (`submission_id` is unique, so a turn is named by its
submission). `active` is `active_turn_id`. `inflight` holds what a process still has to do
after a commit: a broker call, of one of three kinds by what its failure does (`fail_pending_turn`,
failing without a handoff, nothing), the write of a failure without a handoff, or the next transaction
of an interrupt or cancel. `broker`
holds the turns with an unacknowledged message, `worker[w]` the pass of a worker: the turn, the
generation it claimed and whether it was told to stop.

Every action is one locked transaction. `Terminalize` is used by every way a turn can end
(finish, cancel, expiry, failure) and contains the handoff: the interrupt's target if there is
one, else the head of the FIFO, claimed and possibly rejected by its preflight, all in the same
step. A cancel is two actions (`FlagCancel`, `SettleCancel`) because the code commits in
between. `StopPass` is the cancel watcher and the heartbeat that finds its lease gone.
`ExpirePending` and `ExpireRunning` are the monitor, with recovery (`Recover`) for turns that
prepare an interview invitation. `FaultStep` is a crash of a worker, a lost call, a lost or a
repeated message. A worker that died and its replacement share the name *w*: the code gives the
new process a new `_WORKER_ID`, and in the model the new pass is told apart from the old by
`worker[w].turn` and its generation.

Two consequences of how the code uses its sessions are part of the actions. The sessions do not
autoflush (`db/database.py:25`), and `withdraw_pending_submission` asks the FIFO before its own write
has reached the table: the query (`turn_admission.py:238-257`) still sees the row as it was. So
`Withdraw` on an idle Conversation takes `NextInLine(sub)`, not that of the changed rows. A failed row
that is withdrawn holds the queue once more, and nothing is admitted; a pending row that is the head of
the queue is itself claimed, and the withdrawn message runs, although the docstring
(`turn_store.py:441`) says "Withdraw one unclaimed row and release its draft references."
An idle Conversation with a pending head is the state `IdleQueueIsRetryable` reaches. No other
admission queries what its own transaction has changed: a retry and an interrupt name their row, and
a handoff has changed the turn, which the query does not read.
And `_fail_dispatched_turn_without_handoff` loads the turn before it takes the locks
(`turn_store.py:766`); the locked query returns the object of that load, so the status it checks is the old
one. `DispatchFails` is the read that finds the turn pending, `CloseUnsent` the write, with anything in between: the write
may fail a turn that a repeated message has meanwhile set running, or replace the outcome of
one that has ended. `UsageLedger` and `ToolCalls` leave that corner out: this write closes neither the
dispatches nor the calls of the turn, and what those modules say of the end of a turn is said of
`_terminalize`.

`TurnLife` is the turn as both `TurnQueue` and `ToolCalls` see it: its status, its generation and the
two flags that fences read. The two modules were written from different code and each leaves out most
of the other's; that both implement `TurnLife` is what allows reading them together. Here a
turn in a terminal status is "over", a row that does not exist yet looks like a fresh pending one, and
`target # None` is the interrupt; there a closed or deleted turn is "over" (`LifeOf` in each). What both get
from it is `GenerationsAreSpent`: no generation is claimed twice.

Abstracted: message text, attachments and references (the preflight is a choice), clocks
(an expiry may happen whenever its status condition holds), the content of a pass.
Left out: automation turns and deletion of the Conversation.

### Outbox

`job[j]` is a row, named by its (job_type, idempotency_key) pair; `attempt[w]` is the frozen
snapshot a drain works from. Two booleans replace clocks: `due` (next_run_at has come) and
`aged` (the lease is older than twenty minutes). `LeaseAges` may happen to a live worker: the
renewal thread ends on the first database error while the handler goes on. `Settle` is the
fenced update with its rollback. `CallHandler` is the external call; a run may fail or crash
before or after it. Wake-ups are not modelled: they may be lost (an exception is logged), and
Beat drains anyway, so a claim may happen at any time.

### FileAssets

`asset[a]` is the row (its `upload_status` and whether `deleted_at` is set; "removed" is a
deleted row), `blob` the objects in the store, `uploading` the rows an upload request holds
locked, `consuming` the consumers between the commit inside `ensure_uploaded` and their
own. The upload is four steps because the object is stored before the row commits; the row lock
it holds is what the guards `a \notin uploading` say. That guard rests on the request's database
connection staying up while it streams: a lost connection would release the lock under a
running upload, which is not modelled. `MarkConsumed` overwrites the status whatever it is
by then, `delete_pending` included, as the ORM's update does; readers look at `deleted_at`.
A Knowledge document names the job that deletes its file after itself; as a file has one document,
`DeleteJob` stands for both names.

### KnowledgeIndex

`doc` is the document's row (`text`: `content_text` is set; `indexed`: `index_fingerprint` is the
current generation), `chunks` whether it has `document_chunks`, `entries` the title its
`retrieval_entries` were built with. `SourceSnapshot` is what `source_snapshot` hashes: the title,
the text and the task, not the status. `pass[p]` is an ingestion in a worker between its
transactions (`BeginPass`, `Recheck`, `LoadTitle`, `WriteChunks`, `PublishByPass` or
`PublishFails` and `EnqueueUpsert`, `FinishPass`), `drain[w]` the handler of an index job between
its own (`ReadSource`, `PublishByDrain`, `MarkReady` or `MarkFailed`). Every write of either that
was computed from a snapshot is behind `SameSource`, except the three the code fences by status
alone: `MarkReady`, `MarkFailed` and `SendFails`. `sending` and `queued` are the messages of the
tasks, `stale` says that the sweep's query has found the document and its second transaction has
yet to come: it looks at the status again, and not at the chunks.

Abstracted: a file is parsed into the same chunks each time (the chunker's budget for the title is
left out); the age the sweep asks for and the number of Celery retries are open; a task id is
taken from a pool and is fresh when nothing refers to it; the embedding model does not change.
An ingestion whose message was lost and a document without chunks are the sweep's business.

### UsageLedger

`window[d]` is the `model_budget_windows` row of day *d*, `row[c]` the `model_budget_reservations`
row of call *c* (its receipt), `dispatch[c]` the status of the `agent_model_dispatches` row where *c*
is a model dispatch (`Primary`). `proc[c]` is how far the process that makes the call has come,
`wire[c]` what has become of its request and `spent[c]` what it has really cost: the last two are
the provider's, and no action of the ledger reads them except through an answer. `Reserve` and
`SettleIdentity` are the two transactions of `usage/service.py`; the actions embed them as their
callers do: `StartDispatch` behind the turn's status, `Finish` behind the dispatch's, `EndTurn` (which
is `close_running_model_dispatches`) in the transaction that ends the turn. A process may end at any
point (`ProcessEnds`: it dies, or the commit of its settlement fails, which `finish` reports and does
not repeat). An operator reads a receipt and later applies a correction to the revision it read.

`SpendingLimit` is what all of this promises the account: `day[c]`, `charge[c]` and `cost[c]`, mapped to the
receipt's day, to what it holds or has used (`Charged`) and to `spent`. Reservations and settlements
stand in different columns and windows there; here there is one number, which is set at the
admission and can only fall, to no less than the call has cost.

Abstracted: "tokens" stand for all quantities that a settlement replaces, `admitted` for those no
settlement refunds. Prices and currencies, limits that change during a day and the providers'
references are left out. A provider consumes at most the allowance, and what it or an
operator's evidence reports is what was spent; an operator attests that a call has quiesced only
when it has (`Quiesced`). The turn is seen by one of its passes: when the pass is cancelled, or
fenced by a new generation, the turn is "stopping" and admits none of its calls. A call is made by
one process; a retry is another call, as it is in the code.

### ToolCalls

`row[c]` is the `agent_tool_calls` row of call *c*: its status, the dispatch generation of its last
execution, whether the policy let it through (`allowed`, the stored decision), whether its handler
was marked started, and whether a recovery put it back. `turn[t]` keeps of the turn what fences read;
"closed" stands for the four terminal statuses and "deleted" for a turn whose Conversation is gone.
A turn has a pass per generation (`pass[t][g]`), because the worker of an earlier generation may
still be at work, and a call an execution in each (`exec[c][g]`). An execution goes through
"registered" (`_start` has committed), "handling" (`_mark_handler_started` has), "finishing" (the
handler is over, `_finish` has a result), then "writing" or "late": `_finish` reads the row and the
turn without a lock to decide which of its branches to take (`FinishRead`) and writes under the
turn's lock (`FinishWrite`, `FinishLate`), and an interrupt, a recovery, a second result or a deletion
may commit in between. "replayed" and "rewriting" are the same two steps for a cancellation that lands
while `_start` hands back the recorded result of a call id the model repeats.

`StopPass` is any cancellation of the pass's task and `CancelExecution` the `audit_cancellation` of
each call it interrupts; the thread of a `_finish` that was already running ends by itself, or is
never run (`LoseFinish`). `Defer` and `StartAsking` are the barrier in front of a call that asks:
it and the rest of its batch are reserved, then only that call goes on. `Load` is
`_load_tool_resume_snapshot` after the answer, `RejectWaiting` and `CancelDeferred` what follows a
rejection. `question[t]` holds the turn's `agent_interactions`; an answer and the resumption of the
turn are one transaction (`Answer`), except "cancelled" (`AnswerCancels`, then `CancelTurn`'s second
half, `CloseTurn`, which looks at the status and no more at the flag: another answer in between
clears the flag and resumes the turn, and if the turn waits again by then, the late half of the cancel
still closes it, `WasAnswered`). A client action is created by the handler itself (`CreateClientAction`), and its
result is checked on one read (`ReadClientAction`) and applied by a conditional UPDATE
(`ResolveClientAction`), with a `Takeover` by another tab possible in between. `DeleteConversation`
removes turn, rows and questions and leaves a `receipt` for each call that may still change the world.

Abstracted: arguments, results and their sizes (a preflight error is a choice that closes the call
before its handler); "connection" stands for every prerequisite a tool may miss, "failed" also for a
read's timeout; the model's plan is `Scripts` and `Order`, which say which calls may be issued
together and in which order; several calls of one model response are registered one after the
other, as the code does, and run side by side only when they are reads. What is left of the
turn's queue (admission, messages, leases) is `TurnQueue`: here a pending turn can be claimed and a
live one closed at any moment. Left out: a cancellation that arrives while the thread of
`_mark_handler_started` is running, or while `_start` returns a resource conflict for a deferred row (if the
same generation has deferred it, the row, whose handler never started, is then closed as cancelled instead of left deferred); a receipt that a deletion keeps for a call with a resolved status
because its result says `requires_reconcile` (`conversation_deletion_service.py:491-492`: the executor
writes that field as true only together with the status "unknown", which keeps the receipt by itself); and the event log.

What the model showed of the code, and no text of the repository contradicts. A cancellation during
a replay rewrites a completed call as cancelled (`ReplayCancelled`), the exception in
`LateResultRecorded`; on a deleted Conversation it settles a receipt for a result nobody had reported.
An answer "cancelled" to a question of a running turn commits its first transaction and then
answers 409: the pass may still reach `waiting`, with its cancel flag set and nothing to answer, the
exception in `WaitingHasQuestion`. Questions are not closed with their turn, so the list of pending ones
names turns that have ended. A mutation that was registered and never started blocks its resource
as long as one that was: the conservative side. And with `autoflush=False` several calls closed in
one transaction get the same `completion_sequence`, which a comment calls their "real completion
order"; sequences are not in the model.

## 4. The runs

| run | instance | states | shows |
|---|---|---|---|
| `TurnQueueFences` | 2 submissions (agent, chat), 2 workers, 1 fault, 3 generations, 1 recovery | 594,332 | `SingleLiveTurn`, `GenerationFence`, `UninterruptedRunHasExecutor`, `FreshTurnIsDispatched`, `TerminalIsFinal`, and that the queue implements `TurnLife` |
| `TurnQueueAdmission` | 3 submissions, 1 worker, edits, no fault | 1,237,384 | `FifoAdmission`, `HoldBlocksAdmission`, `InterruptIsDurable`, and that the queue implements `TurnSlot` |
| `TurnQueueLiveness` | 2 submissions, 1 worker, 1 fault | 228,771 | `PendingIsLeft`, `RunEnds` |
| `FileDeletion` | 1 file, 2 jobs, 2 drains, 3 attempts | 23,672 | `StartsAreCounted`, `SettledByItsHolder`, `FinishedIsFinal`, `EveryJobEnds`, `ReadableHasBytes`, `NoLingeringBytes` |
| `KnowledgePublication` | 1 document, 2 passes, 2 tasks, 2 titles, 1 index job of 2 attempts, 1 worker, 1 fault | 1,864,142 | `DeletedStaysEmpty`, `ReplacedPassIsSilent`, `PublishesCurrentTitle` |
| `UsageAccounting` | 1 dispatch, 2 other calls, 1 operator, 2 days | 894,530 | `Balanced`, `SpendIsCovered`, `EndedTurnOwnsNoCall`, `DispatchAgrees`, `OnlyEvidenceResolves`, `ClosedCallIsNotSent`, and that the ledger implements `SpendingLimit` |
| `ToolCallFences` | 4 turns of 1 to 3 generations, 5 calls (2 external writes, a client action, an unknown effect, a recoverable local write), 2 tabs, 1 lost process per turn | 356,286 | `HandlersExclude`, `UnknownKeepsResource`, `LateResultRecorded`, `WaitingHasQuestion`, `OneAnswerResumes`, `ApprovedBeforeEffect`, and that the executor implements `TurnLife` |
| `RunHasExecutor` | 2 submissions, 1 worker | violated | a comment says the worker of an interrupted run owns its end; the interrupt fences that worker |
| `WaitingCancelIsConsumed` | as above | violated | a cancel raised in the last second of a pass is carried into `waiting` and cleared by the resume |
| `IdleQueueIsRetryable` | as above | violated | "edit, then retry" leads to a row neither the FIFO nor retry takes |
| `DeletionGraduates` | as `FileDeletion` | violated | the handler reads `aggregate_type` from a snapshot that has no such field: `delete_pending` never becomes `deleted` |
| `ProcessingIsPursued` | as `KnowledgePublication`, no fault | violated | a rename supersedes a pass that has written its chunks: the document stays in `processing` and neither a job nor the sweep will look at it |

Why the bounds are enough. Two submissions give every pair of commands on the slot and one
waiter; the third in `TurnQueueAdmission` gives the FIFO something to skip. Two workers give one
stale pass beside the current one; a generation is bumped at most twice within three, which is
an interrupt and a recovery. One fault is enough to lose or repeat any one message or process at
any point; combinations are left to the proofs, which have no bound. `MaxCalls` bounds the
handlers between a commit and their next call. In `FileDeletion` three attempts reach a
failure, a takeover and a burial in one behaviour; files share nothing but the drains.
In `KnowledgePublication` two passes and two tasks give a replaced pass beside its successor, and
one index job a drain beside both; a second drain would repeat what `FileDeletion` and the
proofs of the outbox cover. With one worker a lease that is still held need not age
(`OnlyAbandonedAge`). Titles are numbered as they are given (`NewTitle`): without that
`PublishesCurrentTitle` fails, because the pass reads the title of its passages apart from the
snapshot it is checked against, and a document renamed and renamed back passes the check.
In `UsageAccounting` the dispatch may consume two tokens and the others one each, against limits
of two tokens, two calls and two unresolved receipts: each limit is the one that refuses in some
behaviour, and a second day lets a third call in while receipts of the first are open.
`MaxRevision` lets an operator correct a receipt that was settled, held as unknown or already
corrected. One dispatch is enough for the races of its process, its turn and an operator; several
are in the theorems.
In `ToolCallFences` a behaviour has one of three scripts: two external writes of the same resource in
two Conversations, one of which may be interrupted, closed or deleted under its handler; a client
action with two tabs and three generations, so that it can be asked, taken over, answered and resumed
while an earlier pass is still at work; and a batch of a call of unknown effect and a recoverable local
write. Two generations give one stale pass beside the current one, one question per turn a pair of
racing answers, a second one for the turn of the unknown effect an answered turn that waits again and meets a late
cancel, one loss per turn a dead process or thread at any point. Three Conversations at once are
in the theorems, not in the run.
In the liveness run the user is patient and the monitor does not sweep between the two halves of a dispatch
failure (`PatientNext`), whose second half ends the turn anyway.
Symmetry is used over workers, over tabs, over calls, and over submissions where all have one mode, never with liveness.
Deadlock checking is off: a Conversation whose turns have all ended, calls that are all closed, and
an outbox whose jobs have all ended, really do stop.

Fairness. `TurnQueue`: a handler makes the call it is about to make (it fails otherwise, which
is a fault), the broker delivers to an idle worker, a pass ends (Celery kills it at its time
limit), the monitor's loop repeats (`monitor_orphaned_turns` never returns). Nothing is assumed
of users, attachments or faults. `FileAssets`: a drain ends a run it started (Celery's hard limit
of 300 s), Beat drains every five minutes, and a backoff or an ownerless lease comes to an end.
All of it is weak fairness.

Every property of a passing run has a mutant: an edit of one mapped definition such as a dropped
guard or a forgotten fence, under which the run finds the property violated. The mutants
stand before the definition they change.

## 5. The proofs

TLAPS checks these for every value of the constants, under the assumptions named in
`ConstantsOK`, `OutboxConstants`, `AssetJobs`, `KnowledgeJobs` and `LedgerConstants`, which only say
that NULL is not a row, that a call has an owner, an effect or an allowance and that the bounds are
numbers (`TurnQueue` and `ToolCalls` each have a `ConstantsOK`).

* `TurnQueueProofs`. The inductive invariant `IInv` is the conjunction of `TypeOK`,
  `SingleLiveTurn`, `ClaimsHaveTurns`, `OwnedWhileRunning`, `GenerationFence`, `PassBound` and `CallsFit`.
  None of the first five is inductive alone: a claim reuses the current generation of a pending
  turn, so the fence needs to know that a pass never runs ahead of its turn (`PassBound`), and the
  handoff is safe only because the slot is free (`FreeSlot`), which rests on `SingleLiveTurn`. `CallsFit`
says that a dispatch failure is written over a turn that exists. The lease (`OwnedWhileRunning`) is about
live turns, and `OutcomeIsFinal` makes one exception (`LosesBroker`): a dispatch failure written from an old
read keeps the owner of a run it closes, and replaces an outcome. The
  actions are grouped by what they do to the rows: `ClaimIsSafe` and `TerminalizeIsSafe` for those
  that admit or end a turn, `RowStepIsSafe` for those that move one live row or fence it,
  `QuietStepIsSafe` for the rest. `StepIsSafe` combines them; `TypeCorrect`, `OneLiveTurn`,
  `EveryClaimHasItsTurn`, `LeaseIffRunning`, `GenerationIsAFence` and `OutcomeIsFinal` follow.
  The rest goes through `Move`, which says of every step which of nine things it does to the queue as
  its user sees it (`StepMoves`): nothing, requeue a row, add one that waits, withdraw one, offer the
  free slot to a new row, to a retried one or, at a withdrawal, to the row that was next in line before it, hand it over at the end of a turn, or drop it there. With
  `Positions` (no two rows in the queue share a place) each of them keeps the order
  (`AdmissionInOrder`, `AdmissionHeld`) and the interrupt (`InterruptHandsOver`), and maps to a step of
  `TurnSlot` or a stutter (`QueueImplementsSlot`; `OfferIsOffer` relates the two offers). A withdrawal is
  there the leaving of the row, or, where the withdrawn row is the head of the queue, its being chosen (`LeaveIsSlotStep`). `EInv` adds
  what the executor properties rest on: a run carries its worker's generation, a turn is created
  together with its dispatch call, and the call that may be given up (`KeepsLater`) is only made for
  a turn that has run before: `RunsAreExecuted`, `FreshTurnsAreSent`. `ClaimsHaveTurns` and
  `OwnedWhileRunning` are theorems only: no run repeats them.
  `QueueImplementsLife` goes action by action: each moves the life of at most one turn
  (`LifeMoves`), as one step of `TurnLife`, and leaves the others as they were. A handoff ends one turn and
  creates another's row in one step, which is why a row to be created looks like a created one. `QueueSpendsGenerations`
  says that what was spent stays spent.
* `OutboxProofs`. `OutboxInv` adds `SnapshotIsCurrent`: a worker that still owns its lease holds
  the attempt count of the row. That is why counting failures from a snapshot, and takeovers from
  the row, never loses or repeats one: `OutboxStartsAreCounted`, `OutboxSettledByItsHolder`,
  `OutboxFinishedIsFinal`. `OutboxNoJobIsStranded` adds that the lock of a row and its status agree
  (`LocksAreOfRuns`): a pending job, a failed one after its backoff and a running one with an old lease can
  each be claimed. `OutboxJobsRunDown` gives each row a measure, `MovesLeft`: every step that
  changes its status, attempts or lease lowers it, and it is at most `2 * MaxAttempts + 3`. Together they are
  `EveryJobEnds` without its fairness: a drain always has something to do for a job that is not over, and
  can do it only so often.
* `KnowledgeIndexProofs`. `IndexStepIsSafe` proves `IndexInv`, which adds two conjuncts to the type
  invariant, the outbox's and `DeletedStaysEmpty`. `UndispatchedIsQuiet`: while the row has no
  task and is not deleted, it has neither a message nor a pass. `SnapshotHasTask`: a pass
  holds the snapshot of the row it began with, whose task is its own. The first rules out a pass
  begun with no task, which a later dispatch would not replace; with the second, `SameSource`
  implies that the pass's task is the document's, and that is `ReplacedPassWritesNothing`.
  `IndexTyped` is its type part. `DeletionIsFinal` needs that the unfenced writes ask for `processing`, a status no deleted
  document has. `IndexImplementsOutbox` carries the outbox's theorems over to the index jobs.
  `LateEmbeddingsAreCurrent` proves `PublishesCurrentTitle` under the assumption the run makes too, that
  no earlier title comes back (`Renamed`; `Age` numbers the titles in the order of their use, the run's
  own numbering is the identity). Without it the code does publish late embeddings of a title that has
  come back. `PassKnowsTitle` is the argument: a pass's snapshot never has a younger title than
  the row, and what the pass read for its passages is the row's title unless that of the snapshot is
  strictly older; so where the fence finds the snapshot's title, what it publishes is current.
* `FileAssetsProofs`. `FilesStepIsOutboxStep` shows that each step of the files is a step of the
  outbox or leaves it alone, so `FilesImplementOutbox` carries the outbox's theorems over.
  `FilesInv` adds that uploads are of pending rows, that a consumer's file was verified or has
  been deleted, that jobs exist only for ended files (`JobsAreOfEndedFiles`) and that once a
  handler has called, the object is gone for good (`CalledMeansGone`). The last two are the
  argument: an ended file never becomes readable again and never gets a new object, so neither a
  late job nor a late upload can do harm.
* `UsageLedgerProofs`. `LedgerInv` says of each call (`CallOK`) that while its request can still
  consume (`~Quiesced`) the receipt is unresolved and holds its allowance, that what was spent is at most
  what is charged, and that a sent dispatch has claimed its permit; of each correction in an
  operator's hands that it is about a call that had quiesced, so that what it says stays true.
  `SettlementIsCovered` is the heart: whoever settles, with whatever outcome, charges no
  more than was held (`BudgetHolds`) and no less than was spent (`SpendIsCovered`). `FinishIsSafe`
  adds the dispatch, `ReconcileIsSafe` the corrections. `RowChange` lists all that one step can do to
  a receipt, from which the two action properties follow. `LedgerBalances` proves `Balanced`: `Booked`
  says of a settlement that the counters of one window move by what its one receipt moves (`SettlementIsBooked`,
  `ReserveIsBooked`, `ReconcileIsBooked`), and `BookingKeepsBalance` that this keeps the sums. What is known of
  `SumFunctionOnSet` is proved here (`SumTakesOut`, `SumMoves`, `SumSplits`, `SumIsMonotone`): the library's
  induction theorems take an operator, so `NoSmallestFailure` does the induction over the subsets of
  a finite set with the well-founded order on them. `DayIsWithinItsLimit` puts the three together:
  what the providers consume, or may still consume, for the calls of one day is within its limit.
  `LedgerImplementsLimit` is the refinement of `SpendingLimit`: a reservation is its admission, because
  the counters `WithinLimits` reads are the sums of what the calls of the day are charged
  (`ChargesAreCounted`); a settlement or a correction lowers one charge, never below what was spent
  (`SettlementLowers`, `ReconcileLowers`); the rest is hidden.
* `ToolCallsProofs`, `ToolCallsFenceProofs`, `ToolCallsQuestionProofs`. The first proves `Typed`: the
  rows' types and that an execution about to close has a result, only a cancellation when it repeats
  a call. `UnknownKept` needs no more: every action that closes a call of the outside or drops its
  receipt does it for an execution that reports. `CallsImplementLife` shows for each action
  that it moves the life of one turn at most, as a step of `TurnLife`, and `CallsSpendGenerations` that a
  generation is spent once.
  `Exclusion` needs `Fence`: a pass belongs to the
  turn's generation or an earlier one and the present one is claimed (`PassesPast`); while the present
  pass exists no earlier one has an execution of a call of the outside left (`OnePassActs`), because
  the call that was running blocks its own resource; such an execution of an active turn belongs to
  its running generation and its row says so, unless the turn was interrupted (`BusyIsRunning`);
  a repeat runs alone (`ReplayAlone`); and a live handler blocks (`LiveBlocks`), whatever became of its
  turn, so a second one finds the conflict (`LiveExclude`). `LateResultsKept` is about every call but the local
  ones and rests on `History`: a call with an execution of generation *h* left has a row of generation
  *h* that nothing but an interrupt closed, and a repeat writes a closed row of its own generation only;
  so the execution that writes is the row's own, and no row with one left is registered again. `Talks` adds that a client's reply in flight
  names a question of its version and an asking pass has its question: `WaitingAsks`, `OneAnswer`.
  `Consent` says that a call of unknown effect let through, and a pass that holds an approval, name a
  call whose approval was resolved; it rests on `Fence` and `Talks`: `ApprovedFirst`.

All other properties of the passing runs are proved. Only model-checked are the three under fairness
(`PendingIsLeft`, `RunEnds`, `EveryJobEnds`), because TLAPS treats neither fairness nor `ENABLED`.
Of `EveryJobEnds` the part without fairness is
proved (`OutboxNoJobIsStranded`, `OutboxJobsRunDown`).

## 6. Not modelled

See the components with status `not_modelled` in `PROJECT.json`. Of the modelled ones: automation turns
in the queue, and the deletion of a Conversation there (in `ToolCalls` it is an action); the content and
the event log of tool calls, the deletion of a Conversation's files; server-side storage, checksums and the scope of references
in the files; prices in the ledger, and its capacity checks; payload validation in the outbox's handlers; chat attachments, documents without a file and the
rebuild after a change of the embedding model in the index.
